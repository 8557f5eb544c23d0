--------------------------- MODULE DocumentsProofs ---------------------------
(***************************************************************************)
(* What holds of Documents for any files, devices, schemas of extensions    *)
(* and directories.  First what the operators make is shown to be of its    *)
(* kind, from one level of a tree to the next being enough; WellMade says   *)
(* so of every variable, and the theorems rest on it.                       *)
(***************************************************************************)
EXTENDS Documents, ListProofs, FiniteSetTheorems

-----------------------------------------------------------------------------
(* Results and errors. *)

LEMMA ErrIsError ==
  ASSUME NEW kind
  PROVE  IsError(Err(kind))
BY DEF Err, IsError, Is

\* The first error among results.
LEMMA FirstError ==
  ASSUME NEW all, IsList(all), {i \in DOMAIN all : IsError(all[i])} # {}
  PROVE  LET errors == {i \in DOMAIN all : IsError(all[i])}
         IN  IsError(all[CHOOSE i \in errors : \A j \in errors : i <= j])
<1> DEFINE errors == {i \in DOMAIN all : IsError(all[i])}
           first == CHOOSE i \in errors : \A j \in errors : i <= j
<1>1. errors # {} /\ errors \subseteq Nat
  BY ListLen
<1>2. first \in errors
  <2> HIDE DEF errors
  <2>1. \E i \in errors : \A j \in errors : i <= j
    BY <1>1, LeastElement
  <2> QED BY <2>1
<1> QED BY <1>2

-----------------------------------------------------------------------------
(* Lists. *)

LEMMA EmptyList == IsList(<<>>) /\ Len(<<>>) = 0 /\ DOMAIN <<>> = {}
BY DEF IsList

LEMMA ListEmpty ==
  ASSUME NEW s, IsList(s)
  PROVE  s = <<>> <=> Len(s) = 0
BY ListLen

LEMMA OneInList ==
  ASSUME NEW e
  PROVE  IsList(<<e>>) /\ Len(<<e>>) = 1 /\ Elements(<<e>>) = {e} /\ <<e>> # <<>>
<1>1. <<e>> = [i \in 1 .. 1 |-> <<e>>[i]]
  OBVIOUS
<1>2. IsList(<<e>>) /\ Len(<<e>>) = 1 /\ DOMAIN <<e>> = 1 .. 1
  BY <1>1, ListOf
<1> QED BY <1>2 DEF Elements

\* What is made of the elements of a list is a list.
LEMMA ListIndices ==
  ASSUME NEW s, IsList(s)
  PROVE  \A i \in DOMAIN s : i \in Nat
<1>1. DOMAIN s = 1 .. Len(s) /\ Len(s) \in Nat
  BY ListLen
<1>2. \A n \in Nat : \A i \in 1 .. n : i \in Nat
  OBVIOUS
<1> QED BY <1>1, <1>2

LEMMA ListMade ==
  ASSUME NEW s, IsList(s), NEW t, t = [i \in DOMAIN s |-> t[i]]
  PROVE  IsList(t) /\ Len(t) = Len(s) /\ DOMAIN t = DOMAIN s /\ Listed(t) = t
<1>1. Len(s) \in Nat /\ DOMAIN s = 1 .. Len(s)
  BY ListLen
<1>2. IsList(t) /\ Len(t) = Len(s) /\ DOMAIN t = DOMAIN s
  BY <1>1, ListOf
<1> QED BY <1>2, ListedSame

LEMMA TwoInList ==
  ASSUME NEW d, NEW e
  PROVE  IsList(<<d, e>>) /\ Elements(<<d, e>>) = {d, e}
<1>1. <<d, e>> = [i \in 1 .. 2 |-> <<d, e>>[i]]
  OBVIOUS
<1>2. IsList(<<d, e>>) /\ DOMAIN <<d, e>> = 1 .. 2
  BY <1>1, ListOf
<1> QED BY <1>2 DEF Elements

LEMMA SequenceIsList ==
  ASSUME NEW T, NEW s \in Seq(T)
  PROVE  IsList(s)
<1>1. Len(s) \in Nat /\ s = [i \in 1 .. Len(s) |-> s[i]]
  OBVIOUS
<1> QED BY <1>1, ListOf

LEMMA ListOnly ==
  ASSUME NEW s, IsList(s), NEW S
  PROVE  IsList(Only(s, S)) /\ Elements(Only(s, S)) = Elements(s) \cap S
<1> DEFINE T == Elements(s)
           o == Only(s, S)
<1>1. s \in Seq(T)
  BY ListIn DEF Elements
<1> HIDE DEF T
<1>2. o \in Seq(T) /\ o = Only(s, S)
  BY <1>1, OnlyType
<1>3. Elements(Only(s, S)) = Elements(s) \cap S
  BY <1>1, OnlyType
<1> HIDE DEF o
<1>4. IsList(o)
  BY <1>2, SequenceIsList
<1> QED BY <1>2, <1>3, <1>4

LEMMA ListTwo ==
  ASSUME NEW s, NEW t, IsList(s), IsList(t)
  PROVE  /\ IsList(s \o t) /\ Len(s \o t) = Len(s) + Len(t)
         /\ Elements(s \o t) = Elements(s) \cup Elements(t)
         /\ s \o t = <<>> <=> s = <<>> /\ t = <<>>
<1> DEFINE T == Elements(s) \cup Elements(t)
<1>1. IsList(s \o t) /\ Len(s \o t) = Len(s) + Len(t)
  BY ListConcat
<1>2. s \in Seq(T) /\ t \in Seq(T)
  BY ListIn DEF Elements
<1>3. Elements(s \o t) = T
  <2> HIDE DEF T
  <2>1. Elements(s \o t) = Elements(s) \cup Elements(t)
    BY <1>2, ElementsJoined
  <2> QED BY <2>1 DEF T
<1>4. Len(s) \in Nat /\ Len(t) \in Nat
  BY ListLen
<1>5. s \o t = <<>> <=> s = <<>> /\ t = <<>>
  <2>1. s \o t = <<>> <=> Len(s \o t) = 0
    BY <1>1, ListEmpty
  <2>2. (s = <<>> <=> Len(s) = 0) /\ (t = <<>> <=> Len(t) = 0)
    BY ListEmpty
  <2> QED BY <1>1, <1>4, <2>1, <2>2
<1> QED BY <1>1, <1>3, <1>5

-----------------------------------------------------------------------------
(* Flattening. *)

\* The function of the definition of FlattenSeq.
Flattens(f, s) == f = [i \in 1 .. Len(s) |-> IF i = 1 THEN s[i] ELSE f[i - 1] \o s[i]]

LEMMA FlattensExists ==
  ASSUME NEW s, IsList(s)
  PROVE  \E f : Flattens(f, s)
<1> DEFINE Upto(f, k) == f = [i \in 1 .. k |-> IF i = 1 THEN s[i] ELSE f[i - 1] \o s[i]]
           Q == {k \in 0 .. Len(s) : \E f : Upto(f, k)}
<1>1. Len(s) \in Nat
  BY ListLen
<1>2. 0 \in Q
  <2> DEFINE f == [i \in 1 .. 0 |-> <<>>]
  <2>1. Upto(f, 0)
    OBVIOUS
  <2> HIDE DEF f
  <2>2. \E g : Upto(g, 0)
    BY <2>1, Zenon
  <2> HIDE DEF Upto
  <2> QED BY <1>1, <2>2
<1>3. ASSUME NEW k \in 0 .. Len(s) - 1, k \in Q
      PROVE  k + 1 \in Q
  <2>1. PICK f : Upto(f, k)
    BY <1>3
  <2> DEFINE last == IF k + 1 = 1 THEN s[k + 1] ELSE f[k] \o s[k + 1]
             g == [i \in 1 .. k + 1 |-> IF i = k + 1 THEN last ELSE f[i]]
  <2>2. ASSUME NEW i \in 1 .. k + 1
        PROVE  g[i] = IF i = 1 THEN s[i] ELSE g[i - 1] \o s[i]
    <3>1. CASE i = k + 1
      <4>1. g[i] = last /\ i - 1 = k /\ (i # 1 => k \in 1 .. k + 1 /\ k # k + 1)
        BY <1>1, <3>1
      <4>2. i # 1 => g[k] = f[k]
        BY <4>1
      <4> QED BY <3>1, <4>1, <4>2
    <3>2. CASE i \in 1 .. k
      <4>1. g[i] = f[i] /\ (i # 1 => g[i - 1] = f[i - 1])
        BY <1>1, <3>2
      <4>2. f[i] = IF i = 1 THEN s[i] ELSE f[i - 1] \o s[i]
        BY <2>1, <3>2
      <4> QED BY <4>1, <4>2
    <3> QED BY <1>1, <3>1, <3>2
  <2>3. g = [i \in 1 .. k + 1 |-> g[i]]
    OBVIOUS
  <2> HIDE DEF g
  <2>4. Upto(g, k + 1)
    BY <2>2, <2>3
  <2>5. \E h : Upto(h, k + 1)
    BY <2>4, Zenon
  <2> HIDE DEF Upto
  <2> QED BY <1>1, <2>5
<1> HIDE DEF Q
<1>4. 0 .. Len(s) \subseteq Q
  BY <1>1, <1>2, <1>3, UpTo
<1>5. Len(s) \in Q
  BY <1>1, <1>4
<1> QED BY <1>5 DEF Q, Flattens

\* What flattening lists is a list, of the elements of them all.
LEMMA Flattened ==
  ASSUME NEW s, IsList(s), \A i \in DOMAIN s : IsList(s[i])
  PROVE  /\ IsList(FlattenSeq(s))
         /\ \A x \in Elements(FlattenSeq(s)) : \E i \in DOMAIN s : x \in Elements(s[i])
         /\ FlattenSeq(s) = <<>> => \A i \in DOMAIN s : s[i] = <<>>
         /\ (\A i \in DOMAIN s : s[i] = <<>>) => FlattenSeq(s) = <<>>
<1>1. Len(s) \in Nat /\ DOMAIN s = 1 .. Len(s)
  BY ListLen
<1>2. CASE Len(s) = 0
  <2>1. s = <<>>
    BY <1>1, <1>2, ListLen
  <2>2. FlattenSeq(s) = <<>>
    BY <1>2, <2>1 DEF FlattenSeq
  <2> QED BY <2>1, <2>2, EmptyList DEF Elements
<1>3. CASE Len(s) # 0
  <2> DEFINE f == CHOOSE f : Flattens(f, s)
  <2>1. Flattens(f, s)
    BY FlattensExists
  <2>2. FlattenSeq(s) = f[Len(s)]
    BY <1>3 DEF FlattenSeq, Flattens
  <2> HIDE DEF f
  <2> DEFINE Good(r, k) ==
               /\ IsList(r)
               /\ \A x \in Elements(r) : \E i \in 1 .. k : x \in Elements(s[i])
               /\ r = <<>> <=> \A i \in 1 .. k : s[i] = <<>>
             Q == {k \in 0 .. Len(s) : k = 0 \/ Good(f[k], k)}
  <2>3. 0 \in Q
    BY <1>1
  <2>4. ASSUME NEW k \in 0 .. Len(s) - 1, k \in Q
        PROVE  k + 1 \in Q
    <3> DEFINE e == s[k + 1]
    <3>1. k + 1 \in 1 .. Len(s) /\ (k + 1) - 1 = k /\ IsList(e)
      BY <1>1
    <3>2. CASE k = 0
      <4>1. f[1] = s[1]
        BY <2>1, <3>1, <3>2 DEF Flattens
      <4>2. \A i \in 1 .. 1 : i = 1
        OBVIOUS
      <4>3. Good(f[1], 1)
        BY <3>1, <3>2, <4>1, <4>2
      <4> QED BY <3>1, <3>2, <4>3
    <3>3. CASE k # 0
      <4> DEFINE r == f[k]
      <4>1. f[k + 1] = r \o e
        <5>1. k + 1 # 1
          BY <1>1, <3>3
        <5> QED BY <2>1, <3>1, <5>1 DEF Flattens
      <4>2. Good(r, k)
        BY <2>4, <3>3
      <4> HIDE DEF r, e
      <4>3. /\ IsList(r \o e) /\ Len(r \o e) = Len(r) + Len(e)
            /\ Elements(r \o e) = Elements(r) \cup Elements(e)
            /\ r \o e = <<>> <=> r = <<>> /\ e = <<>>
        BY <3>1, <4>2, ListTwo
      <4>4. \A i \in 1 .. k + 1 : i \in 1 .. k \/ i = k + 1
        BY <1>1
      <4>5. Good(r \o e, k + 1)
        BY <1>1, <3>1, <4>2, <4>3, <4>4 DEF e
      <4>6. Good(f[k + 1], k + 1)
        BY <4>1, <4>5, Zenon
      <4> HIDE DEF Good
      <4> QED BY <3>1, <4>6
    <3> QED BY <3>2, <3>3
  <2> HIDE DEF Q
  <2>5. 0 .. Len(s) \subseteq Q
    BY <1>1, <2>3, <2>4, UpTo
  <2>6. Good(f[Len(s)], Len(s))
    <3>1. Len(s) \in Q
      BY <1>1, <2>5
    <3> QED BY <1>3, <3>1 DEF Q
  <2> QED BY <1>1, <2>2, <2>6
<1> QED BY <1>2, <1>3

-----------------------------------------------------------------------------
(* Ordered maps. *)

\* A list of entries whose values are in S.
EntriesIn(map, S) == IsList(map) /\ \A i \in DOMAIN map : map[i].val \in S

LEMMA WithIn ==
  ASSUME NEW map, NEW S, EntriesIn(map, S), NEW key, NEW value \in S
  PROVE  EntriesIn(With(map, key, value), S)
<1> DEFINE e == Entry(key, value)
<1>1. e.val = value
  BY DEF Entry
<1>2. CASE key \in Keys(map)
  <2> DEFINE t == [i \in DOMAIN map |-> IF map[i].key = key THEN e ELSE map[i]]
  <2>1. With(map, key, value) = t
    BY <1>2 DEF With
  <2>2. t = [i \in DOMAIN map |-> t[i]]
    OBVIOUS
  <2>3. \A i \in DOMAIN map : t[i].val \in S
    BY <1>1 DEF EntriesIn
  <2> HIDE DEF t
  <2>4. IsList(t) /\ DOMAIN t = DOMAIN map
    BY <2>2, ListMade DEF EntriesIn
  <2> QED BY <2>1, <2>3, <2>4 DEF EntriesIn
<1>3. CASE key \notin Keys(map)
  <2> DEFINE t == Append(map, e)
             n == Len(map)
  <2>1. With(map, key, value) = t
    BY <1>3 DEF With
  <2> HIDE DEF e
  <2>2. /\ IsList(t) /\ Len(t) = n + 1 /\ t[n + 1] = e /\ \A i \in 1 .. n : t[i] = map[i]
        /\ n \in Nat /\ DOMAIN map = 1 .. n
    BY ListAppend, ListLen DEF EntriesIn
  <2> HIDE DEF t, n
  <2>3. DOMAIN t = 1 .. n + 1
    BY <2>2, ListLen
  <2>4. \A i \in 1 .. n + 1 : i \in 1 .. n \/ i = n + 1
    BY <2>2
  <2>5. \A i \in 1 .. n + 1 : t[i].val \in S
    BY <1>1, <2>2, <2>4 DEF EntriesIn
  <2> QED BY <2>1, <2>2, <2>3, <2>5 DEF EntriesIn
<1> QED BY <1>2, <1>3

\* The function of the definition of Collected.
Collects(f, entries) ==
  f = [n \in 0 .. Len(entries) |->
         IF n = 0 THEN <<>> ELSE With(f[n - 1], entries[n].key, entries[n].val)]

LEMMA CollectsExists ==
  ASSUME NEW entries, IsList(entries)
  PROVE  \E f : Collects(f, entries)
<1> DEFINE Step(m, n) == With(m, entries[n].key, entries[n].val)
           Upto(f, k) == f = [n \in 0 .. k |-> IF n = 0 THEN <<>> ELSE Step(f[n - 1], n)]
           Q == {k \in 0 .. Len(entries) : \E f : Upto(f, k)}
<1> HIDE DEF Step
<1>1. Len(entries) \in Nat
  BY ListLen
<1>2. 0 \in Q
  <2> DEFINE f == [n \in 0 .. 0 |-> <<>>]
  <2>1. Upto(f, 0)
    OBVIOUS
  <2> HIDE DEF f
  <2>2. \E g : Upto(g, 0)
    BY <2>1, Zenon
  <2> HIDE DEF Upto
  <2> QED BY <1>1, <2>2
<1>3. ASSUME NEW k \in 0 .. Len(entries) - 1, k \in Q
      PROVE  k + 1 \in Q
  <2>1. PICK f : Upto(f, k)
    BY <1>3
  <2> DEFINE g == [n \in 0 .. k + 1 |-> IF n = k + 1 THEN Step(f[k], n) ELSE f[n]]
  <2>2. ASSUME NEW n \in 0 .. k + 1
        PROVE  g[n] = IF n = 0 THEN <<>> ELSE Step(g[n - 1], n)
    <3>1. CASE n = k + 1
      <4>1. n # 0 /\ n - 1 = k /\ k \in 0 .. k + 1 /\ k # k + 1
        BY <1>1, <3>1
      <4> QED BY <3>1, <4>1
    <3>2. CASE n \in 0 .. k
      <4>1. g[n] = f[n] /\ (n # 0 => g[n - 1] = f[n - 1])
        BY <1>1, <3>2
      <4>2. f[n] = IF n = 0 THEN <<>> ELSE Step(f[n - 1], n)
        BY <2>1, <3>2
      <4> QED BY <4>1, <4>2
    <3> QED BY <1>1, <3>1, <3>2
  <2>3. g = [n \in 0 .. k + 1 |-> g[n]]
    OBVIOUS
  <2> HIDE DEF g
  <2>4. Upto(g, k + 1)
    BY <2>2, <2>3
  <2>5. \E h : Upto(h, k + 1)
    BY <2>4, Zenon
  <2> HIDE DEF Upto
  <2> QED BY <1>1, <2>5
<1> HIDE DEF Q
<1>4. 0 .. Len(entries) \subseteq Q
  BY <1>1, <1>2, <1>3, UpTo
<1>5. Len(entries) \in Q
  BY <1>1, <1>4
<1> QED BY <1>5 DEF Q, Collects, Step

LEMMA CollectedIn ==
  ASSUME NEW entries, NEW S, EntriesIn(entries, S)
  PROVE  EntriesIn(Collected(entries), S)
<1> DEFINE f == CHOOSE f : Collects(f, entries)
<1>1. Collects(f, entries)
  BY CollectsExists DEF EntriesIn
<1>2. Collected(entries) = f[Len(entries)]
  BY DEF Collected, Collects
<1> HIDE DEF f
<1>3. Len(entries) \in Nat /\ DOMAIN entries = 1 .. Len(entries)
  BY ListLen DEF EntriesIn
<1> DEFINE Q == {n \in 0 .. Len(entries) : EntriesIn(f[n], S)}
<1>4. 0 \in Q
  <2>1. f[0] = <<>>
    BY <1>1, <1>3 DEF Collects
  <2> QED BY <1>3, <2>1, EmptyList DEF EntriesIn
<1>5. ASSUME NEW n \in 0 .. Len(entries) - 1, n \in Q
      PROVE  n + 1 \in Q
  <2>1. n + 1 \in 1 .. Len(entries) /\ (n + 1) - 1 = n /\ n + 1 # 0 /\ n + 1 \in 0 .. Len(entries)
    BY <1>3
  <2>2. f[n + 1] = With(f[n], entries[n + 1].key, entries[n + 1].val)
    BY <1>1, <2>1 DEF Collects
  <2>3. entries[n + 1].val \in S
    BY <1>3, <2>1 DEF EntriesIn
  <2> QED BY <1>5, <2>1, <2>2, <2>3, WithIn
<1> HIDE DEF Q
<1>6. 0 .. Len(entries) \subseteq Q
  BY <1>3, <1>4, <1>5, UpTo
<1>7. Len(entries) \in Q
  BY <1>3, <1>6
<1> QED BY <1>2, <1>7 DEF Q

-----------------------------------------------------------------------------
(* Values. *)

\* The value of a field that was decoded: a number that is not negative is
\* unsigned, and nothing but a number.
Numbered64(value) ==
  /\ ValueMade(value)
  /\ Is(value, "i64") => value.i64 < 0
  /\ Is(value, "u64") => value = U64(value.u64)

LEMMA ValueToModelMade ==
  ASSUME NEW yaml, NEW sch, YamlMade(yaml)
  PROVE  IsError(ValueToModel(yaml, sch)) \/ Numbered64(ValueToModel(yaml, sch))
<1> DEFINE t == Typable(yaml, sch)
           parts == PartsOfYaml(t)
<1>1. t.yaml = yaml /\ t.schema = sch
  BY DEF Typable
<1> DEFINE made == CHOOSE f : f =
             [node \in Reached(LAMBDA n : ToSet(PartsOfYaml(n)), {t}) |->
                Modelled(node, Listed([i \in DOMAIN PartsOfYaml(node) |->
                                         f[PartsOfYaml(node)[i]]]))]
<1>2. ValueToModel(yaml, sch) = Modelled(t, Listed([i \in DOMAIN parts |-> made[parts[i]]]))
  BY DEF ValueToModel, OfTree
<1> HIDE DEF made
<1> DEFINE of == [i \in DOMAIN parts |-> made[parts[i]]]
<1>3. Is(yaml, "seq") => IsList(of)
  <2> SUFFICES ASSUME Is(yaml, "seq")
               PROVE  IsList(of)
    OBVIOUS
  <2>1. parts = [i \in DOMAIN yaml.seq |-> parts[i]]
    BY <1>1 DEF PartsOfYaml
  <2>2. of = [i \in DOMAIN parts |-> of[i]]
    OBVIOUS
  <2> HIDE DEF parts
  <2>3. IsList(parts)
    BY <2>1, ListMade DEF YamlMade
  <2> HIDE DEF of
  <2> QED BY <2>2, <2>3, ListMade
<1> HIDE DEF parts, of
<1> DEFINE value == Modelled(t, Listed(of))
<1>4. CASE Is(yaml, "seq")
  <2> DEFINE errors == {i \in DOMAIN of : IsError(of[i])}
  <2>1. Listed(of) = of
    BY <1>3, <1>4, ListedSame
  <2>5. value = ThenAll(Listed(of), List)
    BY <1>1, <1>4 DEF Modelled, YamlMade, OneTag, Is
  <2>2. value = IF errors = {} THEN List(of)
                ELSE of[CHOOSE i \in errors : \A j \in errors : i <= j]
    BY <2>1, <2>5 DEF ThenAll
  <2>3. Numbered64(List(of))
    BY <1>3, <1>4 DEF Numbered64, ValueMade, OneTag, List, Is, U64
  <2>4. errors # {} => IsError(of[CHOOSE i \in errors : \A j \in errors : i <= j])
    BY <1>3, <1>4, FirstError
  <2> QED BY <1>2, <2>2, <2>3, <2>4 DEF of
<1>5. CASE Is(yaml, "map")
  <2> DEFINE EntryOf(i) == Then(KeyToString(yaml.map[i].key), LAMBDA key :
                             Then(Listed(of)[i], LAMBDA v : Entry(key.text, v)))
             entries == [i \in DOMAIN yaml.map |-> EntryOf(i)]
             errors == {i \in DOMAIN entries : IsError(entries[i])}
  <2>1. value = ThenAll(entries, LAMBDA all : Map(Collected(all)))
    BY <1>1, <1>5 DEF Modelled, YamlMade, OneTag, Is
  <2>2. entries = [i \in DOMAIN yaml.map |-> entries[i]]
    OBVIOUS
  <2> HIDE DEF entries
  <2>3. IsList(entries) /\ Listed(entries) = entries
    BY <1>5, <2>2, ListMade DEF YamlMade
  <2>4. value = IF errors = {} THEN Map(Collected(entries))
                ELSE entries[CHOOSE i \in errors : \A j \in errors : i <= j]
    BY <2>1, <2>3 DEF ThenAll
  <2>5. IsList(Collected(entries))
    <3>1. EntriesIn(entries, {entries[i].val : i \in DOMAIN entries})
      BY <2>3 DEF EntriesIn
    <3> QED BY <3>1, CollectedIn DEF EntriesIn
  <2>6. Numbered64(Map(Collected(entries)))
    BY <2>5 DEF Numbered64, ValueMade, OneTag, Map, Is, U64
  <2>7. errors # {} => IsError(entries[CHOOSE i \in errors : \A j \in errors : i <= j])
    BY <2>3, FirstError
  <2> QED BY <1>2, <2>4, <2>6, <2>7 DEF of
<1>6. CASE Is(yaml, "num")
  <2>1. value = IF yaml.num >= 0 THEN U64(yaml.num) ELSE I64(yaml.num)
    BY <1>1, <1>6 DEF Modelled, YamlMade, OneTag, Is
  <2>2. yaml.num \in Int
    BY <1>6 DEF YamlMade
  <2>3. yaml.num >= 0 => Numbered64(U64(yaml.num))
    BY <2>2 DEF Numbered64, ValueMade, OneTag, U64, Is
  <2>4. ~(yaml.num >= 0) => Numbered64(I64(yaml.num))
    BY <2>2 DEF Numbered64, ValueMade, OneTag, I64, U64, Is
  <2> QED BY <1>2, <2>1, <2>3, <2>4 DEF of
<1>7. CASE Is(yaml, "text") \/ Is(yaml, "bool")
  <2>1. value \in {Bool(yaml.bool), DecodeString(sch, yaml.text)}
    BY <1>1, <1>7 DEF Modelled, YamlMade, OneTag, Is
  <2>2. ASSUME NEW x
        PROVE  Numbered64(Bool(x)) /\ Numbered64(Str(x)) /\ Numbered64(IpNetwork(x))
    BY DEF Numbered64, ValueMade, OneTag, Bool, Str, IpNetwork, U64, Is
  <2> QED BY <1>2, <2>1, <2>2 DEF of, DecodeString
<1>8. CASE ~(\E tag \in {"seq", "map", "num", "text", "bool"} : Is(yaml, tag))
  <2>1. IsError(value)
    BY <1>1, <1>8, ErrIsError DEF Modelled
  <2> QED BY <1>2, <2>1 DEF of
<1> QED BY <1>4, <1>5, <1>6, <1>7, <1>8

LEMMA ModelToValueMade ==
  ASSUME NEW value, ValueMade(value)
  PROVE  YamlMade(ModelToValue(value))
<1> DEFINE parts == PartsOfModel(value)
<1> DEFINE made == CHOOSE f : f =
             [node \in Reached(LAMBDA n : ToSet(PartsOfModel(n)), {value}) |->
                Written(node, Listed([i \in DOMAIN PartsOfModel(node) |->
                                        f[PartsOfModel(node)[i]]]))]
<1>1. ModelToValue(value) = Written(value, Listed([i \in DOMAIN parts |-> made[parts[i]]]))
  BY DEF ModelToValue, OfTree
<1> HIDE DEF made
<1> DEFINE of == [i \in DOMAIN parts |-> made[parts[i]]]
<1>2. Is(value, "list") => Listed(of) = of /\ IsList(of)
  <2> SUFFICES ASSUME Is(value, "list")
               PROVE  Listed(of) = of /\ IsList(of)
    OBVIOUS
  <2>1. IsList(parts)
    BY DEF PartsOfModel, ValueMade
  <2>2. of = [i \in DOMAIN parts |-> of[i]]
    OBVIOUS
  <2> HIDE DEF parts, of
  <2> QED BY <2>1, <2>2, ListMade
<1> HIDE DEF parts, of
<1> DEFINE yaml == Written(value, Listed(of))
<1>3. ASSUME NEW x
      PROVE  YamlMade(Text(x)) /\ YamlMade(Flag(x)) /\ (x \in Int => YamlMade(Num(x)))
             /\ (IsList(x) => YamlMade(Mapping(x)) /\ YamlMade(SeqOfYaml(x)))
  BY DEF YamlMade, OneTag, Text, Flag, Num, Mapping, SeqOfYaml, Is
<1> DEFINE entries == [i \in DOMAIN value.map |-> Entry(Text(value.map[i].key), Listed(of)[i])]
<1>4. Is(value, "map") => IsList(entries)
  <2> SUFFICES ASSUME Is(value, "map")
               PROVE  IsList(entries)
    OBVIOUS
  <2>1. entries = [i \in DOMAIN value.map |-> entries[i]]
    OBVIOUS
  <2> HIDE DEF entries
  <2> QED BY <2>1, ListMade DEF ValueMade
<1>5. CASE Is(value, "map")
  <2>1. yaml = Mapping(entries)
    BY <1>5 DEF Written, ValueMade, OneTag, Is
  <2> HIDE DEF entries
  <2> QED BY <1>1, <1>3, <1>4, <1>5, <2>1 DEF of
<1>6. CASE Is(value, "list")
  <2>1. yaml = SeqOfYaml(of)
    BY <1>2, <1>6 DEF Written, ValueMade, OneTag, Is
  <2> QED BY <1>1, <1>2, <1>3, <1>6, <2>1 DEF of
<1>7. CASE ~Is(value, "map") /\ ~Is(value, "list")
  <2>1. Is(value, "u64") => value.u64 \in Int
    BY DEF ValueMade
  <2>2. Is(value, "i64") => value.i64 \in Int
    BY DEF ValueMade
  <2>3. \E x : yaml = Text(x) \/ yaml = Flag(x) \/ (x \in Int /\ yaml = Num(x))
    BY <1>7, <2>1, <2>2 DEF Written, ValueMade, OneTag, Is
  <2> QED BY <1>1, <1>3, <2>3 DEF of
<1> QED BY <1>5, <1>6, <1>7

-----------------------------------------------------------------------------
(* Decoded states. *)

FieldsNumbered(fields) == IsList(fields) /\ \A i \in DOMAIN fields : Numbered64(fields[i].val)

LEMMA WithNumbered ==
  ASSUME NEW fields, FieldsNumbered(fields), NEW key, NEW value, Numbered64(value)
  PROVE  FieldsNumbered(With(fields, key, value))
<1> DEFINE S == {fields[i].val : i \in DOMAIN fields} \cup {value}
<1>1. EntriesIn(fields, S) /\ value \in S
  BY DEF EntriesIn, FieldsNumbered
<1>2. \A x \in S : Numbered64(x)
  BY DEF FieldsNumbered
<1> HIDE DEF S
<1>3. EntriesIn(With(fields, key, value), S)
  BY <1>1, WithIn
<1> QED BY <1>2, <1>3 DEF EntriesIn, FieldsNumbered

\* What an entry of a mapping says.
PartMade(part) ==
  /\ OneTag(part) /\ \E tag \in {"match", "kind", "type", "field"} : Is(part, tag)
  /\ Is(part, "field") => Numbered64(part.field.val)

LEMMA ParseMatchMade ==
  ASSUME NEW yaml, YamlMade(yaml)
  PROVE  IsError(ParseMatch(yaml)) \/ PartMade(ParseMatch(yaml))
<1> DEFINE results == [i \in DOMAIN yaml.map |->
                         Then(KeyToString(yaml.map[i].key), LAMBDA key :
                           MatchEntry(key.text, yaml.map[i].val))]
           errors == {i \in DOMAIN results : IsError(results[i])}
           match == FoldLeft(LAMBDA m, more : more ++ m, NoMatch, results)
<1>1. CASE ~Is(yaml, "map")
  BY <1>1, ErrIsError DEF ParseMatch
<1>2. CASE Is(yaml, "map")
  <2>1. ParseMatch(yaml) = ThenAll(results, LAMBDA all :
          [match |-> FoldLeft(LAMBDA m, more : more ++ m, NoMatch, all)])
    BY <1>2 DEF ParseMatch
  <2>2. results = [i \in DOMAIN yaml.map |-> results[i]]
    OBVIOUS
  <2> HIDE DEF results
  <2>3. IsList(results) /\ Listed(results) = results
    BY <1>2, <2>2, ListMade DEF YamlMade
  <2>4. ParseMatch(yaml) = IF errors = {} THEN [match |-> match]
                           ELSE results[CHOOSE i \in errors : \A j \in errors : i <= j]
    BY <2>1, <2>3 DEF ThenAll
  <2>5. errors # {} => IsError(results[CHOOSE i \in errors : \A j \in errors : i <= j])
    BY <2>3, FirstError
  <2> HIDE DEF match
  <2>6. PartMade([match |-> match])
    BY DEF PartMade, OneTag, Is
  <2> QED BY <2>4, <2>5, <2>6
<1> QED BY <1>1, <1>2

LEMMA RoutedMade ==
  ASSUME NEW reg, NEW key, NEW yaml, YamlMade(yaml)
  PROVE  IsError(Routed(reg, key, yaml)) \/ PartMade(Routed(reg, key, yaml))
<1>1. CASE key = "match"
  BY <1>1, ParseMatchMade DEF Routed
<1>2. CASE key = "kind"
  <2>1. PartMade([kind |-> "state"])
    BY DEF PartMade, OneTag, Is
  <2> QED BY <1>2, <2>1, ErrIsError DEF Routed
<1>3. CASE key = "type"
  <2>1. PartMade([type |-> yaml.text])
    BY DEF PartMade, OneTag, Is
  <2> QED BY <1>3, <2>1, ErrIsError DEF Routed
<1>4. CASE key \notin {"match", "kind", "type"}
  <2> DEFINE value == ValueToModel(yaml, TopLevelSchema(reg, key))
  <2>1. Routed(reg, key, yaml) = IF IsError(value) THEN value ELSE [field |-> Entry(key, value)]
    BY <1>4 DEF Routed, Then
  <2>2. IsError(value) \/ Numbered64(value)
    BY ValueToModelMade
  <2> HIDE DEF value
  <2>3. Numbered64(value) => PartMade([field |-> Entry(key, value)])
    BY DEF PartMade, OneTag, Is, Entry
  <2> QED BY <2>1, <2>2, <2>3
<1> QED BY <1>1, <1>2, <1>3, <1>4

StateNumbered(state) ==
  /\ DOMAIN state = {"device_type", "match", "fields", "source", "priority"}
  /\ FieldsNumbered(state.fields)

LEMMA NumberedIsMade ==
  ASSUME NEW state, StateNumbered(state)
  PROVE  StateMade(state)
BY DEF StateNumbered, StateMade, FieldsNumbered, FieldsMade, Numbered64

LEMMA ReceivedMade ==
  ASSUME NEW state, StateNumbered(state), NEW part, PartMade(part)
  PROVE  StateNumbered(Received(state, part))
<1>1. CASE Is(part, "field")
  <2> DEFINE fields == With(state.fields, part.field.key, part.field.val)
  <2>1. Received(state, part) = [state EXCEPT !.fields = fields]
    BY <1>1 DEF Received, PartMade, OneTag, Is
  <2>2. FieldsNumbered(fields)
    BY <1>1, WithNumbered DEF PartMade, StateNumbered
  <2> HIDE DEF fields
  <2> QED BY <2>1, <2>2 DEF StateNumbered
<1>2. CASE Is(part, "match") \/ Is(part, "kind") \/ Is(part, "type")
  BY <1>2 DEF Received, PartMade, OneTag, Is, StateNumbered
<1> QED BY <1>1, <1>2 DEF PartMade

\* The function of the definition of WithParts.
Receives(f, state, parts) ==
  f = [n \in 0 .. Len(parts) |-> IF n = 0 THEN state ELSE Received(f[n - 1], parts[n])]

LEMMA ReceivesExists ==
  ASSUME NEW state, NEW parts, IsList(parts)
  PROVE  \E f : Receives(f, state, parts)
<1> DEFINE Upto(f, k) ==
             f = [n \in 0 .. k |-> IF n = 0 THEN state ELSE Received(f[n - 1], parts[n])]
           Q == {k \in 0 .. Len(parts) : \E f : Upto(f, k)}
<1>1. Len(parts) \in Nat
  BY ListLen
<1>2. 0 \in Q
  <2> DEFINE f == [n \in 0 .. 0 |-> state]
  <2>1. Upto(f, 0)
    OBVIOUS
  <2> HIDE DEF f
  <2>2. \E g : Upto(g, 0)
    BY <2>1, Zenon
  <2> HIDE DEF Upto
  <2> QED BY <1>1, <2>2
<1>3. ASSUME NEW k \in 0 .. Len(parts) - 1, k \in Q
      PROVE  k + 1 \in Q
  <2>1. PICK f : Upto(f, k)
    BY <1>3
  <2> DEFINE g == [n \in 0 .. k + 1 |-> IF n = k + 1 THEN Received(f[k], parts[n]) ELSE f[n]]
  <2>2. ASSUME NEW n \in 0 .. k + 1
        PROVE  g[n] = IF n = 0 THEN state ELSE Received(g[n - 1], parts[n])
    <3>1. CASE n = k + 1
      <4>1. n # 0 /\ n - 1 = k /\ k \in 0 .. k + 1 /\ k # k + 1
        BY <1>1, <3>1
      <4> QED BY <3>1, <4>1
    <3>2. CASE n \in 0 .. k
      <4>1. g[n] = f[n] /\ (n # 0 => g[n - 1] = f[n - 1])
        BY <1>1, <3>2
      <4>2. f[n] = IF n = 0 THEN state ELSE Received(f[n - 1], parts[n])
        BY <2>1, <3>2
      <4> QED BY <4>1, <4>2
    <3> QED BY <1>1, <3>1, <3>2
  <2>3. g = [n \in 0 .. k + 1 |-> g[n]]
    OBVIOUS
  <2> HIDE DEF g
  <2>4. Upto(g, k + 1)
    BY <2>2, <2>3
  <2>5. \E h : Upto(h, k + 1)
    BY <2>4, Zenon
  <2> HIDE DEF Upto
  <2> QED BY <1>1, <2>5
<1> HIDE DEF Q
<1>4. 0 .. Len(parts) \subseteq Q
  BY <1>1, <1>2, <1>3, UpTo
<1>5. Len(parts) \in Q
  BY <1>1, <1>4
<1> QED BY <1>5 DEF Q, Receives

LEMMA WithPartsMade ==
  ASSUME NEW state, StateNumbered(state), NEW parts, IsList(parts),
         \A i \in DOMAIN parts : PartMade(parts[i])
  PROVE  StateNumbered(WithParts(state, parts))
<1> DEFINE f == CHOOSE f : Receives(f, state, parts)
<1>1. Receives(f, state, parts)
  BY ReceivesExists
<1>2. WithParts(state, parts) = f[Len(parts)]
  BY DEF WithParts, Receives
<1> HIDE DEF f
<1>3. Len(parts) \in Nat /\ DOMAIN parts = 1 .. Len(parts)
  BY ListLen
<1> DEFINE Q == {n \in 0 .. Len(parts) : StateNumbered(f[n])}
<1>4. 0 \in Q
  BY <1>1, <1>3 DEF Receives
<1>5. ASSUME NEW n \in 0 .. Len(parts) - 1, n \in Q
      PROVE  n + 1 \in Q
  <2>1. n + 1 \in 1 .. Len(parts) /\ (n + 1) - 1 = n /\ n + 1 # 0 /\ n + 1 \in 0 .. Len(parts)
    BY <1>3
  <2>2. f[n + 1] = Received(f[n], parts[n + 1])
    BY <1>1, <2>1 DEF Receives
  <2> QED BY <1>3, <1>5, <2>1, <2>2, ReceivedMade
<1> HIDE DEF Q
<1>6. 0 .. Len(parts) \subseteq Q
  BY <1>3, <1>4, <1>5, UpTo
<1>7. Len(parts) \in Q
  BY <1>3, <1>6
<1> QED BY <1>2, <1>7 DEF Q

LEMMA NewStateMade ==
  ASSUME NEW source
  PROVE  StateNumbered(NewState(source))
BY EmptyList DEF StateNumbered, FieldsNumbered, NewState

LEMMA MappingToStateMade ==
  ASSUME NEW reg, NEW mapping, DocumentMade(mapping)
  PROVE  IsError(MappingToState(reg, mapping)) \/ StateNumbered(MappingToState(reg, mapping))
<1> DEFINE parts == [i \in DOMAIN mapping |->
                       Then(KeyToString(mapping[i].key), LAMBDA key :
                         Routed(reg, key.text, mapping[i].val))]
           errors == {i \in DOMAIN parts : IsError(parts[i])}
           state == WithParts(NewState(Static("")), parts)
<1>1. MappingToState(reg, mapping) =
        ThenAll(parts, LAMBDA all : Typed(reg, WithParts(NewState(Static("")), all)))
  BY DEF MappingToState
<1>2. parts = [i \in DOMAIN mapping |-> parts[i]]
  OBVIOUS
<1>3. \A i \in DOMAIN mapping : IsError(parts[i]) \/ PartMade(parts[i])
  BY RoutedMade DEF DocumentMade, Then
<1> HIDE DEF parts
<1>4. IsList(parts) /\ DOMAIN parts = DOMAIN mapping /\ Listed(parts) = parts
  BY <1>2, ListMade DEF DocumentMade
<1>5. MappingToState(reg, mapping) =
        IF errors = {} THEN Typed(reg, state)
        ELSE parts[CHOOSE i \in errors : \A j \in errors : i <= j]
  BY <1>1, <1>4 DEF ThenAll
<1>6. CASE errors = {}
  <2>1. \A i \in DOMAIN parts : PartMade(parts[i])
    BY <1>3, <1>4, <1>6
  <2>2. StateNumbered(state)
    BY <1>4, <2>1, NewStateMade, WithPartsMade
  <2> HIDE DEF state
  <2>3. StateNumbered(Typed(reg, state))
    BY <2>2 DEF Typed, StateNumbered
  <2> QED BY <1>5, <1>6, <2>3
<1>7. CASE errors # {}
  BY <1>4, <1>5, <1>7, FirstError
<1> QED BY <1>6, <1>7

-----------------------------------------------------------------------------
(* The outcome of loading. *)

OnePolicy(o) == IsError(o) \/ \E p, w : o = [policies |-> <<p>>, warnings |-> w]

LEMMA OneDocument ==
  ASSUME NEW mapping, NEW fallback, NEW field
  PROVE  OnePolicy(PolicyFromMapping(mapping, fallback, field))
<1> DEFINE error == HeaderError(mapping, Metadata(mapping))
           name == IF Explicit(mapping) THEN ExplicitName(mapping) ELSE fallback
           state == MappingToState(ProviderRegistry, Candidate(mapping))
           prepared == PreparedState(mapping, state, field)
<1>1. CASE error # "none"
  BY <1>1, ErrIsError DEF PolicyFromMapping, OnePolicy
<1>2. CASE error = "none" /\ IsError(state)
  BY <1>2 DEF PolicyFromMapping, OnePolicy, Then
<1>3. CASE error = "none" /\ ~IsError(state) /\ IsError(prepared)
  BY <1>3 DEF PolicyFromMapping, OnePolicy, Then
<1>4. CASE error = "none" /\ ~IsError(state) /\ ~IsError(prepared)
  <2>1. PolicyFromMapping(mapping, fallback, field)
          = PolicyOf(mapping, name, Metadata(mapping), prepared)
    BY <1>4 DEF PolicyFromMapping, Then
  <2> QED BY <2>1 DEF OnePolicy, PolicyOf
<1> QED BY <1>1, <1>2, <1>3, <1>4

\* Policies with distinct names.
Unique(policies) ==
  /\ IsList(policies)
  /\ \A i, j \in DOMAIN policies : policies[i].name = policies[j].name => i = j

\* As many policies as there are names.
LEMMA UniqueCounts ==
  ASSUME NEW policies, Unique(policies)
  PROVE  Cardinality(Names(policies)) = Len(policies)
<1> DEFINE n == Len(policies)
           f == [i \in 1 .. n |-> policies[i].name]
           S == Names(policies)
<1>1. n \in Nat /\ DOMAIN policies = 1 .. n
  BY ListLen DEF Unique
<1>2. S = {f[i] : i \in 1 .. n}
  BY <1>1 DEF Names, ToSet
<1>3. \A i, j \in 1 .. n : f[i] = f[j] => i = j
  BY <1>1 DEF Unique
<1> HIDE DEF S
<1>4. f \in Bijection(1 .. n, S)
  <2>1. f \in [1 .. n -> S]
    BY <1>2
  <2>2. IsInjective(f)
    BY <1>3 DEF IsInjective
  <2>3. \A t \in S : \E i \in 1 .. n : f[i] = t
    BY <1>2
  <2> HIDE DEF f
  <2> QED BY <2>1, <2>2, <2>3 DEF Bijection, Injection, Surjection
<1>5. Cardinality(S) = n
  BY <1>1, <1>4, FS_CountingElements DEF ExistsBijection
<1> QED BY <1>5 DEF S

\* The function of the definition of JoinedAll.
Joins(f, all) ==
  f = [n \in 0 .. Len(all) |-> IF n = 0 THEN NoPolicies ELSE Joined(f[n - 1], all[n])]

LEMMA JoinsExists ==
  ASSUME NEW all, IsList(all)
  PROVE  \E f : Joins(f, all)
<1> DEFINE Upto(f, k) ==
             f = [n \in 0 .. k |-> IF n = 0 THEN NoPolicies ELSE Joined(f[n - 1], all[n])]
           Q == {k \in 0 .. Len(all) : \E f : Upto(f, k)}
<1>1. Len(all) \in Nat
  BY ListLen
<1>2. 0 \in Q
  <2> DEFINE f == [n \in 0 .. 0 |-> NoPolicies]
  <2>1. f = [n \in 0 .. 0 |-> IF n = 0 THEN NoPolicies ELSE Joined(f[n - 1], all[n])]
    OBVIOUS
  <2> HIDE DEF f
  <2> QED BY <1>1, <2>1
<1>3. ASSUME NEW k \in 0 .. Len(all) - 1, k \in Q
      PROVE  k + 1 \in Q
  <2>1. PICK f : Upto(f, k)
    BY <1>3
  <2> DEFINE g == [n \in 0 .. k + 1 |->
                     IF n = k + 1 THEN Joined(f[k], all[n]) ELSE f[n]]
  <2>2. ASSUME NEW n \in 0 .. k + 1
        PROVE  g[n] = IF n = 0 THEN NoPolicies ELSE Joined(g[n - 1], all[n])
    <3>1. CASE n = k + 1
      <4>1. n # 0 /\ n - 1 = k /\ k \in 0 .. k + 1 /\ k # k + 1
        BY <1>1, <3>1
      <4> QED BY <3>1, <4>1
    <3>2. CASE n \in 0 .. k
      <4>1. g[n] = f[n] /\ (n # 0 => g[n - 1] = f[n - 1])
        BY <1>1, <3>2
      <4>2. f[n] = IF n = 0 THEN NoPolicies ELSE Joined(f[n - 1], all[n])
        BY <2>1, <3>2
      <4> QED BY <4>1, <4>2
    <3> QED BY <1>1, <3>1, <3>2
  <2>3. g = [n \in 0 .. k + 1 |-> g[n]]
    OBVIOUS
  <2> HIDE DEF g
  <2>4. Upto(g, k + 1)
    BY <2>2, <2>3
  <2> QED BY <1>1, <2>4
<1> HIDE DEF Q
<1>4. 0 .. Len(all) \subseteq Q
  BY <1>1, <1>2, <1>3, UpTo
<1>5. Len(all) \in Q
  BY <1>1, <1>4
<1> QED BY <1>5 DEF Q, Joins

LEMMA JoinedAllIs ==
  ASSUME NEW all, IsList(all)
  PROVE  \E f : /\ Joins(f, all) /\ JoinedAll(all) = f[Len(all)]
<1> DEFINE f == CHOOSE f : Joins(f, all)
<1>1. Joins(f, all)
  BY JoinsExists
<1>2. Listed(all) = all
  BY ListedSame
<1>3. JoinedAll(all) = f[Len(all)]
  BY <1>2 DEF JoinedAll, Joins
<1> QED BY <1>1, <1>3

LEMMA UniqueConcat ==
  ASSUME NEW s, NEW t, Unique(s), Unique(t), Names(s) \cap Names(t) = {}
  PROVE  Unique(s \o t) /\ Len(s \o t) = Len(s) + Len(t)
<1> DEFINE u == s \o t
           m == Len(s)
           n == Len(t)
<1>1. /\ m \in Nat /\ DOMAIN s = 1 .. m /\ n \in Nat /\ DOMAIN t = 1 .. n
      /\ IsList(u) /\ Len(u) = m + n
      /\ \A i \in 1 .. m + n : u[i] = IF i <= m THEN s[i] ELSE t[i - m]
  BY ListLen, ListConcat DEF Unique
<1>2. DOMAIN u = 1 .. m + n
  BY <1>1, ListLen
<1> HIDE DEF u, m, n
<1>3. /\ \A i \in 1 .. m : s[i].name \in Names(s)
      /\ \A i \in 1 .. n : t[i].name \in Names(t)
  BY <1>1 DEF Names, ToSet
<1> SUFFICES ASSUME NEW i \in 1 .. m + n, NEW j \in 1 .. m + n, u[i].name = u[j].name
             PROVE  i = j
  BY <1>1, <1>2 DEF Unique, u, m, n
<1>4. CASE i <= m /\ j <= m
  <2>1. i \in 1 .. m /\ j \in 1 .. m /\ u[i] = s[i] /\ u[j] = s[j]
    BY <1>1, <1>4
  <2> QED BY <1>1, <2>1 DEF Unique
<1>5. CASE ~(i <= m) /\ ~(j <= m)
  <2>1. i - m \in 1 .. n /\ j - m \in 1 .. n /\ u[i] = t[i - m] /\ u[j] = t[j - m]
    BY <1>1, <1>5
  <2>2. i - m = j - m
    BY <1>1, <2>1 DEF Unique
  <2> QED BY <1>1, <2>2
<1>6. CASE i <= m /\ ~(j <= m)
  <2>1. i \in 1 .. m /\ j - m \in 1 .. n /\ u[i] = s[i] /\ u[j] = t[j - m]
    BY <1>1, <1>6
  <2> QED BY <1>3, <2>1
<1>7. CASE ~(i <= m) /\ j <= m
  <2>1. i - m \in 1 .. n /\ j \in 1 .. m /\ u[i] = t[i - m] /\ u[j] = s[j]
    BY <1>1, <1>7
  <2> QED BY <1>3, <2>1
<1> QED BY <1>4, <1>5, <1>6, <1>7

\* An outcome of that many policies with distinct names.
Outcome(o, count) == IsError(o) \/ (Unique(o.policies) /\ Len(o.policies) = count)

LEMMA NoPoliciesIs == Outcome(NoPolicies, 0)
<1>1. NoPolicies.policies = <<>>
  BY DEF NoPolicies
<1>2. IsList(<<>>) /\ Len(<<>>) = 0 /\ DOMAIN <<>> = {}
  BY DEF IsList
<1> QED BY <1>1, <1>2 DEF Outcome, Unique

LEMMA OnePolicyIs ==
  ASSUME NEW o, OnePolicy(o)
  PROVE  Outcome(o, 1)
<1> SUFFICES ASSUME NEW p, NEW w, o = [policies |-> <<p>>, warnings |-> w]
             PROVE  Unique(o.policies) /\ Len(o.policies) = 1
  BY DEF OnePolicy, Outcome
<1>1. o.policies = <<p>>
  OBVIOUS
<1>2. <<p>> = [i \in 1 .. 1 |-> <<p>>[i]]
  OBVIOUS
<1>3. IsList(<<p>>) /\ Len(<<p>>) = 1 /\ DOMAIN <<p>> = 1 .. 1
  BY <1>2, ListOf
<1> QED BY <1>1, <1>3 DEF Unique

LEMMA JoinedCounts ==
  ASSUME NEW o, NEW more, NEW m \in Nat, NEW n \in Nat, Outcome(o, m), Outcome(more, n)
  PROVE  Outcome(Joined(o, more), m + n)
<1>1. CASE ~IsError(o) /\ ~IsError(more) /\ Names(o.policies) \cap Names(more.policies) = {}
  <2>1. Joined(o, more).policies = o.policies \o more.policies
    BY <1>1 DEF Joined
  <2> QED BY <1>1, <2>1, UniqueConcat DEF Outcome
<1> QED BY <1>1, ErrIsError DEF Joined, Outcome

\* All outcomes together are an error, or as many policies as counts sums up.
LEMMA JoinedAllCounts ==
  ASSUME NEW all, IsList(all), NEW counts,
         counts[0] = 0, \A n \in 0 .. Len(all) : counts[n] \in Nat,
         \A n \in 1 .. Len(all) : /\ counts[n - 1] <= counts[n]
                                  /\ Outcome(all[n], counts[n] - counts[n - 1])
  PROVE  Outcome(JoinedAll(all), counts[Len(all)])
<1>1. PICK f : Joins(f, all) /\ JoinedAll(all) = f[Len(all)]
  BY JoinedAllIs
<1>2. Len(all) \in Nat
  BY ListLen
<1> DEFINE Q == {n \in 0 .. Len(all) : Outcome(f[n], counts[n])}
<1>3. 0 \in Q
  BY <1>1, <1>2, NoPoliciesIs DEF Joins
<1>4. ASSUME NEW n \in 0 .. Len(all) - 1, n \in Q
      PROVE  n + 1 \in Q
  <2>1. n + 1 \in 1 .. Len(all) /\ (n + 1) - 1 = n /\ n + 1 # 0 /\ n + 1 \in 0 .. Len(all)
    BY <1>2
  <2>2. f[n + 1] = Joined(f[n], all[n + 1])
    BY <1>1, <2>1 DEF Joins
  <2> DEFINE k == counts[n + 1] - counts[n]
  <2>3. k \in Nat /\ counts[n] \in Nat /\ counts[n] + k = counts[n + 1]
    BY <2>1
  <2>4. Outcome(all[n + 1], k)
    BY <2>1
  <2> HIDE DEF k
  <2>5. Outcome(Joined(f[n], all[n + 1]), counts[n] + k)
    BY <1>4, <2>3, <2>4, JoinedCounts
  <2> QED BY <2>1, <2>2, <2>3, <2>5
<1> HIDE DEF Q
<1>5. 0 .. Len(all) \subseteq Q
  BY <1>2, <1>3, <1>4, UpTo
<1>6. Len(all) \in Q
  BY <1>2, <1>5
<1> QED BY <1>1, <1>6 DEF Q

LEMMA LoadDocumentCounts ==
  ASSUME NEW file, FileMade(file), NEW stem, NEW field
  PROVE  /\ DocumentsIn(file) \in Nat
         /\ Outcome(LoadDocument(file, stem, field), DocumentsIn(file))
<1>1. CASE Is(file, "unreadable") \/ Is(file, "multi") \/ Is(file, "malformed")
  <2>1. IsError(LoadDocument(file, stem, field))
    BY <1>1, ErrIsError DEF LoadDocument, FileMade, YamlMade, OneTag, Is
  <2>2. DocumentsIn(file) \in Nat
    BY ListLen DEF DocumentsIn, FileMade, YamlMade, OneTag, Is
  <2> QED BY <2>1, <2>2 DEF Outcome
<1> DEFINE parsed == ~(Is(file, "unreadable") \/ Is(file, "multi") \/ Is(file, "malformed"))
<1>2. CASE parsed /\ Is(file, "map")
  <2>1. LoadDocument(file, stem, field) = PolicyFromMapping(file.map, stem, field)
    BY <1>2 DEF LoadDocument, FileMade, YamlMade, OneTag, Is
  <2>2. DocumentsIn(file) = 1
    BY <1>2 DEF DocumentsIn, FileMade, YamlMade, OneTag, Is
  <2> QED BY <2>1, <2>2, OneDocument, OnePolicyIs
<1>3. CASE /\ parsed /\ ~Is(file, "map") /\ Is(file, "seq")
           /\ \A i \in DOMAIN file.seq : Is(file.seq[i], "map")
  <2> DEFINE all == [i \in DOMAIN file.seq |->
                       PolicyFromMapping(file.seq[i].map, Numbered(stem, i), field)]
             counts == [n \in 0 .. Len(file.seq) |-> n]
  <2>1. LoadDocument(file, stem, field) = JoinedAll(all)
    BY <1>3 DEF LoadDocument, FileMade, YamlMade, OneTag, Is
  <2>2. DocumentsIn(file) = Len(file.seq) /\ Len(file.seq) \in Nat
        /\ DOMAIN file.seq = 1 .. Len(file.seq)
    BY <1>3, ListLen DEF DocumentsIn, FileMade, YamlMade, OneTag, Is
  <2>3. \A n \in 1 .. Len(file.seq) : Outcome(all[n], 1)
    BY <2>2, OneDocument, OnePolicyIs
  <2>4. all = [i \in 1 .. Len(file.seq) |-> all[i]]
    BY <2>2
  <2> HIDE DEF all
  <2>5. IsList(all) /\ Len(all) = Len(file.seq)
    BY <2>2, <2>4, ListOf
  <2>6. /\ counts[0] = 0 /\ \A n \in 0 .. Len(all) : counts[n] \in Nat
        /\ \A n \in 1 .. Len(all) : /\ counts[n - 1] <= counts[n]
                                    /\ Outcome(all[n], counts[n] - counts[n - 1])
    <3>1. \A n \in 1 .. Len(all) : counts[n] - counts[n - 1] = 1 /\ counts[n - 1] <= counts[n]
      BY <2>2, <2>5
    <3> QED BY <2>2, <2>3, <2>5, <3>1
  <2>7. counts[Len(all)] = Len(file.seq)
    BY <2>2, <2>5
  <2> HIDE DEF counts
  <2>8. Outcome(JoinedAll(all), counts[Len(all)])
    BY <2>5, <2>6, JoinedAllCounts
  <2> QED BY <2>1, <2>2, <2>7, <2>8
<1>4. CASE /\ parsed /\ ~Is(file, "map")
           /\ ~(Is(file, "seq") /\ \A i \in DOMAIN file.seq : Is(file.seq[i], "map"))
  <2>1. IsError(LoadDocument(file, stem, field))
    BY <1>4, ErrIsError DEF LoadDocument, FileMade, YamlMade, OneTag, Is
  <2>2. DocumentsIn(file) \in Nat
    BY ListLen DEF DocumentsIn, FileMade, YamlMade, OneTag, Is
  <2> QED BY <2>1, <2>2 DEF Outcome
<1> QED BY <1>1, <1>2, <1>3, <1>4

-----------------------------------------------------------------------------
(* What the directory holds. *)

Counts(f, content) ==
  f = [n \in 0 .. Len(Directory) |->
         IF n = 0 THEN 0
         ELSE f[n - 1] + (IF n \in Loadable(content)
                          THEN DocumentsIn(content[Directory[n].file]) ELSE 0)]

LEMMA CountsExists ==
  ASSUME NEW content
  PROVE  \E f : Counts(f, content)
<1> DEFINE here(n) == IF n \in Loadable(content)
                      THEN DocumentsIn(content[Directory[n].file]) ELSE 0
           Upto(f, k) == f = [n \in 0 .. k |-> IF n = 0 THEN 0 ELSE f[n - 1] + here(n)]
           Q == {k \in 0 .. Len(Directory) : \E f : Upto(f, k)}
<1> HIDE DEF here
<1>1. Len(Directory) \in Nat
  BY PolicyAssumption, ListLen
<1>2. 0 \in Q
  <2> DEFINE f == [n \in 0 .. 0 |-> 0]
  <2>1. f = [n \in 0 .. 0 |-> IF n = 0 THEN 0 ELSE f[n - 1] + here(n)]
    OBVIOUS
  <2> HIDE DEF f
  <2> QED BY <1>1, <2>1
<1>3. ASSUME NEW k \in 0 .. Len(Directory) - 1, k \in Q
      PROVE  k + 1 \in Q
  <2>1. PICK f : Upto(f, k)
    BY <1>3
  <2> DEFINE g == [n \in 0 .. k + 1 |-> IF n = k + 1 THEN f[k] + here(n) ELSE f[n]]
  <2>2. ASSUME NEW n \in 0 .. k + 1
        PROVE  g[n] = IF n = 0 THEN 0 ELSE g[n - 1] + here(n)
    <3>1. CASE n = k + 1
      <4>1. n # 0 /\ n - 1 = k /\ k \in 0 .. k + 1 /\ k # k + 1
        BY <1>1, <3>1
      <4> QED BY <3>1, <4>1
    <3>2. CASE n \in 0 .. k
      <4>1. g[n] = f[n] /\ (n # 0 => g[n - 1] = f[n - 1])
        BY <1>1, <3>2
      <4>2. f[n] = IF n = 0 THEN 0 ELSE f[n - 1] + here(n)
        BY <2>1, <3>2
      <4> QED BY <4>1, <4>2
    <3> QED BY <1>1, <3>1, <3>2
  <2>3. g = [n \in 0 .. k + 1 |-> g[n]]
    OBVIOUS
  <2> HIDE DEF g
  <2>4. Upto(g, k + 1)
    BY <2>2, <2>3
  <2> QED BY <1>1, <2>4
<1> HIDE DEF Q
<1>4. 0 .. Len(Directory) \subseteq Q
  BY <1>1, <1>2, <1>3, UpTo
<1>5. Len(Directory) \in Q
  BY <1>1, <1>4
<1> QED BY <1>5 DEF Q, Counts, here

LEMMA DocumentsUpToCounts == Counts(DocumentsUpTo, disk)
<1> DEFINE f == CHOOSE f : Counts(f, disk)
<1>1. Counts(f, disk)
  BY CountsExists
<1>2. DocumentsUpTo = f
  BY DEF DocumentsUpTo, Counts
<1> QED BY <1>1, <1>2

Filed(content) == \A f \in File : FileMade(content[f])

LEMMA LoadPolicyDirCounts ==
  ASSUME Filed(disk), NEW field
  PROVE  Outcome(LoadPolicyDir(disk, field), DocumentsUpTo[Len(Directory)])
<1> DEFINE N == Len(Directory)
           all == [i \in DOMAIN Directory |->
                     IF i \in Loadable(disk)
                     THEN LoadDocument(disk[Directory[i].file], Directory[i].stem, field)
                     ELSE NoPolicies]
           here == [n \in 1 .. N |-> IF n \in Loadable(disk)
                                     THEN DocumentsIn(disk[Directory[n].file]) ELSE 0]
<1>1. N \in Nat /\ DOMAIN Directory = 1 .. N
  BY PolicyAssumption, ListLen
<1>2. \A n \in 1 .. N : here[n] \in Nat /\ Outcome(all[n], here[n])
  <2> SUFFICES ASSUME NEW n \in 1 .. N
               PROVE  here[n] \in Nat /\ Outcome(all[n], here[n])
    OBVIOUS
  <2>1. CASE n \in Loadable(disk)
    <3>1. Directory[n].file \in File
      BY <1>1 DEF File
    <3>2. FileMade(disk[Directory[n].file])
      BY <3>1 DEF Filed
    <3> QED BY <1>1, <2>1, <3>2, LoadDocumentCounts
  <2>2. CASE n \notin Loadable(disk)
    BY <1>1, <2>2, NoPoliciesIs
  <2> QED BY <2>1, <2>2
<1>3. /\ DocumentsUpTo[0] = 0
      /\ \A n \in 1 .. N : DocumentsUpTo[n] = DocumentsUpTo[n - 1] + here[n]
  BY <1>1, DocumentsUpToCounts DEF Counts
<1>4. JoinedAll(all) = LoadPolicyDir(disk, field)
  BY DEF LoadPolicyDir
<1>5. all = [i \in 1 .. N |-> all[i]]
  BY <1>1
<1> HIDE DEF all, here, N
<1>6. IsList(all) /\ Len(all) = N
  BY <1>1, <1>5, ListOf
<1> DEFINE Q == {n \in 0 .. N : DocumentsUpTo[n] \in Nat}
<1>7. 0 .. N \subseteq Q
  <2>1. 0 \in Q
    BY <1>1, <1>3
  <2>2. ASSUME NEW n \in 0 .. N - 1, n \in Q
        PROVE  n + 1 \in Q
    <3>1. n + 1 \in 1 .. N /\ (n + 1) - 1 = n
      BY <1>1
    <3> QED BY <1>1, <1>2, <1>3, <2>2, <3>1
  <2> HIDE DEF Q
  <2> QED BY <1>1, <2>1, <2>2, UpTo
<1>8. \A n \in 1 .. N : /\ DocumentsUpTo[n - 1] <= DocumentsUpTo[n]
                        /\ Outcome(all[n], DocumentsUpTo[n] - DocumentsUpTo[n - 1])
  <2> SUFFICES ASSUME NEW n \in 1 .. N
               PROVE  /\ DocumentsUpTo[n - 1] <= DocumentsUpTo[n]
                      /\ Outcome(all[n], DocumentsUpTo[n] - DocumentsUpTo[n - 1])
    OBVIOUS
  <2>1. n - 1 \in 0 .. N /\ DocumentsUpTo[n - 1] \in Nat /\ here[n] \in Nat
    BY <1>1, <1>2, <1>7
  <2>2. DocumentsUpTo[n] = DocumentsUpTo[n - 1] + here[n]
    BY <1>3
  <2>3. DocumentsUpTo[n] - DocumentsUpTo[n - 1] = here[n]
    BY <2>1, <2>2
  <2> QED BY <1>2, <2>1, <2>2, <2>3
<1>9. Outcome(JoinedAll(all), DocumentsUpTo[Len(all)])
  BY <1>3, <1>6, <1>7, <1>8, JoinedAllCounts
<1> QED BY <1>4, <1>6, <1>9 DEF N

-----------------------------------------------------------------------------
(* Decoded files. *)

StatesNumbered(states) ==
  IsList(states) /\ \A i \in DOMAIN states : StateNumbered(states[i])

LEMMA StatesNumberedAreMade ==
  ASSUME NEW states, StatesNumbered(states)
  PROVE  StatesMade(states)
BY NumberedIsMade DEF StatesNumbered, StatesMade

LEMMA FromYamlNumbered ==
  ASSUME NEW reg, NEW file, FileMade(file)
  PROVE  IsError(FromYaml(reg, file)) \/ StatesNumbered(FromYaml(reg, file).states)
<1>0. OneTag(file)
  BY DEF FileMade, YamlMade
<1>1. CASE Is(file, "map")
  <2> DEFINE state == MappingToState(reg, file.map)
  <2>1. FromYaml(reg, file) = IF IsError(state) THEN state ELSE [states |-> <<state>>]
    BY <1>0, <1>1 DEF FromYaml, OneTag, Is, Then, ThenAll
  <2>2. IsError(state) \/ StateNumbered(state)
    BY <1>1, MappingToStateMade DEF FileMade
  <2> HIDE DEF state
  <2>3. IsList(<<state>>) /\ \A i \in DOMAIN <<state>> : <<state>>[i] = state
    BY OneInList
  <2> QED BY <2>1, <2>2, <2>3 DEF StatesNumbered
<1>2. CASE Is(file, "seq")
  <2> DEFINE results == [i \in DOMAIN file.seq |->
                           IF Is(file.seq[i], "map") THEN MappingToState(reg, file.seq[i].map)
                           ELSE Err("InvalidTopLevel")]
             errors == {i \in DOMAIN results : IsError(results[i])}
  <2>1. IsList(file.seq)
    BY <1>2 DEF FileMade, YamlMade
  <2>2. results = [i \in DOMAIN file.seq |-> results[i]]
    OBVIOUS
  <2>3. FromYaml(reg, file) = ThenAll(results, LAMBDA states : [states |-> states])
    BY <1>0, <1>2 DEF FromYaml, OneTag, Is, Then, ThenAll
  <2>4. \A i \in DOMAIN file.seq : IsError(results[i]) \/ StateNumbered(results[i])
    BY <1>2, MappingToStateMade, ErrIsError DEF FileMade
  <2> HIDE DEF results
  <2>5. IsList(results) /\ Listed(results) = results /\ DOMAIN results = DOMAIN file.seq
    BY <2>1, <2>2, ListMade
  <2>6. FromYaml(reg, file) = IF errors = {} THEN [states |-> results]
                              ELSE results[CHOOSE i \in errors : \A j \in errors : i <= j]
    BY <2>3, <2>5 DEF ThenAll
  <2>7. errors # {} => IsError(results[CHOOSE i \in errors : \A j \in errors : i <= j])
    BY <2>5, FirstError
  <2>8. errors = {} => StatesNumbered(results)
    BY <2>4, <2>5 DEF StatesNumbered
  <2> QED BY <2>6, <2>7, <2>8
<1>3. CASE ~Is(file, "map") /\ ~Is(file, "seq")
  <2>1. IsError(FromYaml(reg, file))
    BY <1>0, <1>3, ErrIsError DEF FromYaml, OneTag, Is, Then, ThenAll
  <2> QED BY <2>1
<1> QED BY <1>1, <1>2, <1>3

LEMMA DecodeYamlNumbered ==
  ASSUME NEW reg, NEW file, NEW mode, FileMade(file)
  PROVE  IsError(DecodeYaml(reg, file, mode)) \/ StatesNumbered(DecodeYaml(reg, file, mode).states)
<1> DEFINE decoded == FromYaml(reg, file)
           states == decoded.states
           kernel == [i \in DOMAIN states |-> AsObserved(states[i])]
<1>1. CASE IsError(decoded)
  BY <1>1 DEF DecodeYaml, Then
<1>2. CASE ~IsError(decoded)
  <2>1. StatesNumbered(states)
    BY <1>2, FromYamlNumbered
  <2>2. DecodeYaml(reg, file, mode) = Decoded(reg, mode, states)
    BY <1>2 DEF DecodeYaml, Then
  <2> HIDE DEF decoded
  <2>3. kernel = [i \in DOMAIN states |-> kernel[i]]
    OBVIOUS
  <2>4. \A i \in DOMAIN states : StateNumbered(AsObserved(states[i]))
    <3> HIDE DEF states
    <3> SUFFICES ASSUME NEW i \in DOMAIN states
                 PROVE  StateNumbered(AsObserved(states[i]))
      OBVIOUS
    <3> DEFINE state == states[i]
    <3>1. StateNumbered(state)
      BY <2>1 DEF StatesNumbered
    <3> HIDE DEF state
    <3>2. DOMAIN AsObserved(state) = DOMAIN state /\ AsObserved(state).fields = state.fields
      BY <3>1 DEF AsObserved, StateNumbered
    <3> QED BY <3>1, <3>2 DEF StateNumbered, state
  <2>5. \/ IsError(Decoded(reg, mode, states))
        \/ Decoded(reg, mode, states) = [states |-> states]
        \/ Decoded(reg, mode, states) = [states |-> kernel]
    <3> HIDE DEF states
    <3> QED BY ErrIsError DEF Decoded
  <2> HIDE DEF states
  <2>6. IsList(states)
    BY <2>1 DEF StatesNumbered
  <2>7. \A i \in DOMAIN states : kernel[i] = AsObserved(states[i])
    OBVIOUS
  <2> HIDE DEF kernel
  <2>8. IsList(kernel) /\ DOMAIN kernel = DOMAIN states
    BY <2>3, <2>6, ListMade
  <2>9. StatesNumbered(kernel)
    BY <2>4, <2>7, <2>8 DEF StatesNumbered
  <2> QED BY <2>1, <2>2, <2>5, <2>9
<1> QED BY <1>1, <1>2

-----------------------------------------------------------------------------
(* Observed states. *)

\* The values of the fields of lists of entries.
ValuesOf(map) == {map[i].val : i \in DOMAIN map}

LEMMA FieldsMadeIs ==
  ASSUME NEW fields
  PROVE  FieldsMade(fields) <=> \E S : EntriesIn(fields, S) /\ \A x \in S : ValueMade(x)
<1>1. ASSUME FieldsMade(fields)
      PROVE  \E S : EntriesIn(fields, S) /\ \A x \in S : ValueMade(x)
  <2>1. EntriesIn(fields, ValuesOf(fields)) /\ \A x \in ValuesOf(fields) : ValueMade(x)
    BY <1>1 DEF FieldsMade, EntriesIn, ValuesOf
  <2> QED BY <2>1
<1>2. ASSUME NEW S, EntriesIn(fields, S), \A x \in S : ValueMade(x)
      PROVE  FieldsMade(fields)
  BY <1>2 DEF FieldsMade, EntriesIn
<1> QED BY <1>1, <1>2

LEMMA NoFields == FieldsMade(<<>>)
BY EmptyList DEF FieldsMade

LEMMA OneField ==
  ASSUME NEW e, ValueMade(e.val)
  PROVE  FieldsMade(<<e>>)
<1>1. IsList(<<e>>) /\ \A i \in DOMAIN <<e>> : <<e>>[i] = e
  BY OneInList
<1> QED BY <1>1 DEF FieldsMade

LEMMA FieldsWith ==
  ASSUME NEW fields, FieldsMade(fields), NEW key, NEW value, ValueMade(value)
  PROVE  FieldsMade(With(fields, key, value))
<1>1. PICK S : EntriesIn(fields, S) /\ \A x \in S : ValueMade(x)
  BY FieldsMadeIs
<1> DEFINE T == S \cup {value}
<1>2. EntriesIn(fields, T) /\ value \in T /\ \A x \in T : ValueMade(x)
  BY <1>1 DEF EntriesIn
<1> HIDE DEF T
<1>3. EntriesIn(With(fields, key, value), T)
  BY <1>2, WithIn
<1> QED BY <1>2, <1>3, FieldsMadeIs

LEMMA FieldsCollected ==
  ASSUME NEW entries, FieldsMade(entries)
  PROVE  FieldsMade(Collected(entries))
<1>1. PICK S : EntriesIn(entries, S) /\ \A x \in S : ValueMade(x)
  BY FieldsMadeIs
<1>2. EntriesIn(Collected(entries), S)
  BY <1>1, CollectedIn
<1> QED BY <1>1, <1>2, FieldsMadeIs

LEMMA FieldsElements ==
  ASSUME NEW fields, IsList(fields)
  PROVE  FieldsMade(fields) <=> \A e \in Elements(fields) : ValueMade(e.val)
BY DEF FieldsMade, Elements

LEMMA FieldsConcat ==
  ASSUME NEW s, NEW t, FieldsMade(s), FieldsMade(t)
  PROVE  FieldsMade(s \o t)
<1>1. IsList(s) /\ IsList(t)
  BY DEF FieldsMade
<1>2. IsList(s \o t) /\ Elements(s \o t) = Elements(s) \cup Elements(t)
  BY <1>1, ListTwo
<1> QED BY <1>1, <1>2, FieldsElements

LEMMA FieldsFlattened ==
  ASSUME NEW s, IsList(s), \A i \in DOMAIN s : FieldsMade(s[i])
  PROVE  FieldsMade(FlattenSeq(s))
<1>1. \A i \in DOMAIN s : IsList(s[i])
  BY DEF FieldsMade
<1>2. /\ IsList(FlattenSeq(s))
      /\ \A x \in Elements(FlattenSeq(s)) : \E i \in DOMAIN s : x \in Elements(s[i])
  BY <1>1, Flattened
<1>3. \A x \in Elements(FlattenSeq(s)) : ValueMade(x.val)
  BY <1>1, <1>2, FieldsElements
<1> QED BY <1>2, <1>3, FieldsElements

LEMMA ScalarsMade ==
  ASSUME NEW x
  PROVE  /\ ValueMade(Str(x)) /\ ValueMade(Bool(x)) /\ ValueMade(IpNetwork(x))
         /\ x \in Nat => ValueMade(U64(x))
         /\ IsList(x) => ValueMade(List(x)) /\ ValueMade(Map(x))
BY DEF ValueMade, OneTag, Is, Str, Bool, IpNetwork, U64, List, Map

LEMMA AttributeFieldMade ==
  ASSUME NEW a, Is(a, "mtu") => a.mtu \in Nat
  PROVE  FieldsMade(AttributeField(a))
<1>1. \/ Is(a, "mtu") /\ AttributeField(a) = <<Entry("mtu", U64(a.mtu))>>
      \/ AttributeField(a) = <<Entry("carrier", Bool(a.carrier = 1))>>
      \/ AttributeField(a) = <<Entry("mac", Str(a.mac))>>
      \/ AttributeField(a) = <<>>
  BY DEF AttributeField
<1>2. \A e : ValueMade(e.val) => FieldsMade(<<e>>)
  BY OneField
<1>3. \A k, v : Entry(k, v).val = v
  BY DEF Entry
<1> QED BY <1>1, <1>2, <1>3, ScalarsMade, NoFields

LEMMA EthernetFieldMade ==
  ASSUME NEW a, Is(a, "speed") => a.speed \in Nat
  PROVE  FieldsMade(EthernetField(a))
<1>1. \/ Is(a, "speed") /\ EthernetField(a) = <<Entry("speed", U64(a.speed))>>
      \/ EthernetField(a) = <<Entry("autoneg", Bool(a.autoneg))>>
      \/ EthernetField(a) = <<Entry("duplex", Str(a.duplex))>>
      \/ EthernetField(a) = <<>>
  BY DEF EthernetField
<1>2. \A e : ValueMade(e.val) => FieldsMade(<<e>>)
  BY OneField
<1>3. \A k, v : Entry(k, v).val = v
  BY DEF Entry
<1> QED BY <1>1, <1>2, <1>3, ScalarsMade, NoFields

LEMMA LinkFieldsMade ==
  ASSUME NEW link, IsList(link.attributes),
         \A a \in ToSet(link.attributes) : Is(a, "mtu") => a.mtu \in Nat
  PROVE  FieldsMade(LinkFields(link))
<1> DEFINE parsed == ParsedAttributes(link)
           more == [i \in DOMAIN parsed |-> AttributeField(parsed[i])]
           name == Entry("name", Str(LinkName(link)))
           enabled == Entry("enabled", Bool(link.up))
<1>1. IsList(parsed) /\ Elements(parsed) \subseteq Elements(link.attributes)
  BY ListOnly DEF ParsedAttributes
<1>2. LinkFields(link) = Collected(<<name, enabled>> \o FlattenSeq(more))
  BY DEF LinkFields
<1>3. \A i \in DOMAIN parsed : parsed[i] \in ToSet(link.attributes)
  BY <1>1 DEF Elements, ToSet
<1>4. more = [i \in DOMAIN parsed |-> more[i]]
  OBVIOUS
<1>5. \A i \in DOMAIN parsed : FieldsMade(more[i])
  BY <1>3, AttributeFieldMade
<1> HIDE DEF more, parsed
<1>6. FieldsMade(FlattenSeq(more))
  <2>1. IsList(more) /\ DOMAIN more = DOMAIN parsed
    BY <1>1, <1>4, ListMade
  <2> QED BY <1>5, <2>1, FieldsFlattened
<1>7. FieldsMade(<<name, enabled>>)
  <2>1. ValueMade(name.val) /\ ValueMade(enabled.val)
    BY ScalarsMade DEF Entry
  <2> HIDE DEF name, enabled
  <2> QED BY <2>1, TwoInList, FieldsElements
<1> HIDE DEF name, enabled
<1> QED BY <1>2, <1>6, <1>7, FieldsConcat, FieldsCollected
\* A state like another but for its fields.
LEMMA StateLike ==
  ASSUME NEW state, StateMade(state), NEW other,
         DOMAIN other = DOMAIN state, FieldsMade(other.fields)
  PROVE  StateMade(other)
BY DEF StateMade

LEMMA LinkStateMade ==
  ASSUME NEW link, NEW type, FieldsMade(LinkFields(link))
  PROVE  StateMade(LinkState(link, type))
<1> DEFINE fields == LinkFields(link)
           match == Matching("name", LinkName(link)) ++ Matching("type", type)
                      ++ FieldString(fields, "mac")
           new == NewState(Kernel)
<1>1. LinkState(link, type)
        = [new EXCEPT !.device_type = type, !.fields = fields, !.match = match]
  BY DEF LinkState
<1>2. StateMade(new)
  BY NewStateMade, NumberedIsMade
<1> DEFINE made == LinkState(link, type)
<1> HIDE DEF new, match, fields
<1>3. DOMAIN made = DOMAIN new /\ made.fields = fields
  BY <1>1, <1>2 DEF StateMade
<1> HIDE DEF made
<1>4. StateMade(made)
  BY <1>2, <1>3, StateLike DEF fields
<1> QED BY <1>4 DEF made

LEMMA EnrichedMade ==
  ASSUME NEW state, StateMade(state), NEW driver, NEW path, NEW answers, IsList(answers),
         \A a \in ToSet(answers) : Is(a, "speed") => a.speed \in Nat
  PROVE  StateMade(Enriched(state, driver, path, answers))
<1> DEFINE each == [i \in DOMAIN answers |-> EthernetField(answers[i])]
           ethernet == IF state.device_type = "ethernet" THEN EthernetFields(answers) ELSE <<>>
           driven == IF driver = {} THEN state.fields
                     ELSE With(state.fields, "driver", Str(One(driver, "")))
           fields == IF ethernet = <<>> THEN driven ELSE With(driven, "ethernet", Map(ethernet))
           match == state.match ++ IfSet("driver", driver) ++ IfSet("pci_path", path)
<1>1. Enriched(state, driver, path, answers)
        = [state EXCEPT !.match = match, !.fields = fields]
  BY DEF Enriched
<1>2. IsList(ethernet)
  <2>1. each = [i \in DOMAIN answers |-> each[i]]
    OBVIOUS
  <2>2. \A i \in DOMAIN answers : FieldsMade(each[i])
    BY EthernetFieldMade DEF ToSet
  <2>3. EthernetFields(answers) = Collected(FlattenSeq(each))
    BY DEF EthernetFields
  <2> HIDE DEF each
  <2>4. IsList(each) /\ DOMAIN each = DOMAIN answers
    BY <2>1, ListMade
  <2>5. FieldsMade(EthernetFields(answers))
    BY <2>2, <2>3, <2>4, FieldsFlattened, FieldsCollected
  <2> QED BY <2>5, EmptyList DEF FieldsMade
<1>3. FieldsMade(driven)
  BY FieldsWith, ScalarsMade DEF StateMade
<1> HIDE DEF ethernet, driven, match
<1>4. FieldsMade(fields)
  BY <1>2, <1>3, FieldsWith, ScalarsMade
<1> HIDE DEF fields
<1> DEFINE made == Enriched(state, driver, path, answers)
<1>5. DOMAIN made = DOMAIN state /\ made.fields = fields
  BY <1>1 DEF StateMade
<1> HIDE DEF made
<1>6. StateMade(made)
  BY <1>4, <1>5, StateLike
<1> QED BY <1>6 DEF made

LEMMA WithAddressesMade ==
  ASSUME NEW state, StateMade(state), NEW records, IsList(records)
  PROVE  StateMade(WithAddresses(state, records))
<1> DEFINE distinct == Distinct(records)
           addresses == [i \in DOMAIN distinct |-> AddressValue(distinct[i])]
           e == Entry("addresses", List(addresses))
           fields == With(state.fields, "ipv4", Map(<<e>>))
<1>1. WithAddresses(state, records)
        \in {state, [state EXCEPT !.fields = fields]}
  BY DEF WithAddresses
<1>2. ValueMade(Map(<<e>>))
  BY OneInList, ScalarsMade
<1> HIDE DEF e
<1>3. FieldsMade(fields)
  BY <1>2, FieldsWith DEF StateMade
<1> HIDE DEF fields
<1> DEFINE made == [state EXCEPT !.fields = fields]
<1>4. DOMAIN made = DOMAIN state /\ made.fields = fields
  BY DEF StateMade
<1> HIDE DEF made
<1>5. StateMade(made)
  BY <1>3, <1>4, StateLike
<1> QED BY <1>1, <1>5 DEF made

LEMMA DeviceStateMade ==
  ASSUME NEW device, DeviceMade(device)
  PROVE  StateMade(DeviceState(device))
<1> DEFINE link == LinkState(device.link, Classify(device.link, device.wireless, device.legacy))
           enriched == Enriched(link, device.driver, device.pci_path, device.answers)
<1>1. DeviceState(device) = WithAddresses(enriched, device.addresses)
  BY DEF DeviceState
<1>2. StateMade(link)
  BY LinkFieldsMade, LinkStateMade DEF DeviceMade
<1> HIDE DEF link
<1>3. StateMade(enriched)
  BY <1>2, EnrichedMade DEF DeviceMade
<1> HIDE DEF enriched
<1> QED BY <1>1, <1>3, WithAddressesMade DEF DeviceMade

-----------------------------------------------------------------------------
(* Written files. *)

LEMMA YamlScalarsMade ==
  ASSUME NEW x
  PROVE  /\ YamlMade(Text(x)) /\ YamlMade(Flag(x))
         /\ IsList(x) => YamlMade(Mapping(x)) /\ YamlMade(SeqOfYaml(x))
BY DEF YamlMade, OneTag, Text, Flag, Mapping, SeqOfYaml, Is

LEMMA MatchToYamlMade ==
  ASSUME NEW match
  PROVE  YamlMade(MatchToYaml(match))
<1> DEFINE fields == Only(MatchOrder, DOMAIN match)
           entries == [i \in DOMAIN fields |-> Entry(Text(fields[i]), Text(match[fields[i]]))]
<1>1. MatchToYaml(match) = Mapping(entries)
  BY DEF MatchToYaml
<1>2. IsList(MatchOrder)
  <2>1. MatchOrder = [i \in 1 .. 5 |-> MatchOrder[i]]
    BY DEF MatchOrder
  <2> QED BY <2>1, ListOf
<1>3. IsList(fields)
  BY <1>2, ListOnly
<1>4. entries = [i \in DOMAIN fields |-> entries[i]]
  OBVIOUS
<1> HIDE DEF fields, entries
<1>5. IsList(entries)
  BY <1>3, <1>4, ListMade
<1> QED BY <1>1, <1>5, YamlScalarsMade

LEMMA DocumentElements ==
  ASSUME NEW mapping, IsList(mapping)
  PROVE  DocumentMade(mapping) <=> \A e \in Elements(mapping) : YamlMade(e.val)
BY DEF DocumentMade, Elements

\* The mapping of a state: the policy form begins with the match.
LEMMA StateToMappingMade ==
  ASSUME NEW reg, NEW state, StateMade(state), NEW form
  PROVE  LET m == StateToMapping(reg, state, form)
         IN  \/ m = Err("ReservedFieldKey")
             \/ \E mapping : m = Mapping(mapping) /\ DocumentMade(mapping)
<1> DEFINE m == StateToMapping(reg, state, form)
           matchOf == Entry(Text("match"), MatchToYaml(state.match))
           typeOf == Entry(Text("type"), Text(state.device_type))
           first == IF form THEN <<matchOf>> ELSE <<>>
           second == IF OmitsType(reg, state, form) THEN <<>> ELSE <<typeOf>>
           third == [i \in DOMAIN state.fields |->
                       Entry(Text(state.fields[i].key), ModelToValue(state.fields[i].val))]
<1>1. m = Err("ReservedFieldKey") \/ m = Mapping(first \o second \o third)
  BY DEF StateToMapping
<1>2. IsList(first) /\ \A e \in Elements(first) : YamlMade(e.val)
  <2>1. YamlMade(matchOf.val)
    BY MatchToYamlMade DEF Entry
  <2> HIDE DEF matchOf
  <2>2. first \in {<<>>, <<matchOf>>}
    OBVIOUS
  <2> QED BY <2>1, <2>2, OneInList, EmptyList DEF Elements
<1>3. IsList(second) /\ \A e \in Elements(second) : YamlMade(e.val)
  <2>1. YamlMade(typeOf.val)
    BY YamlScalarsMade DEF Entry
  <2> HIDE DEF typeOf
  <2>2. second \in {<<>>, <<typeOf>>}
    OBVIOUS
  <2> QED BY <2>1, <2>2, OneInList, EmptyList DEF Elements
<1>4. IsList(third) /\ \A e \in Elements(third) : YamlMade(e.val)
  <2>1. third = [i \in DOMAIN state.fields |-> third[i]]
    OBVIOUS
  <2>2. \A i \in DOMAIN state.fields : YamlMade(third[i].val)
    BY ModelToValueMade DEF StateMade, FieldsMade, Entry
  <2> HIDE DEF third
  <2>3. IsList(third) /\ DOMAIN third = DOMAIN state.fields
    BY <2>1, ListMade DEF StateMade, FieldsMade
  <2> QED BY <2>2, <2>3 DEF Elements
<1> HIDE DEF first, second, third, m
<1> DEFINE both == first \o second
           mapping == both \o third
<1>5. IsList(both) /\ \A e \in Elements(both) : YamlMade(e.val)
  BY <1>2, <1>3, ListTwo
<1> HIDE DEF both
<1>6. IsList(mapping) /\ \A e \in Elements(mapping) : YamlMade(e.val)
  BY <1>4, <1>5, ListTwo
<1>7. DocumentMade(mapping)
  BY <1>6, DocumentElements
<1> QED BY <1>1, <1>7 DEF both, m
LEMMA MappingIsFile ==
  ASSUME NEW mapping, DocumentMade(mapping)
  PROVE  FileMade(Mapping(mapping))
BY DEF FileMade, YamlMade, DocumentMade, OneTag, Mapping, Is

LEMMA ErrIsFile ==
  ASSUME NEW kind
  PROVE  FileMade(Err(kind))
BY DEF FileMade, YamlMade, OneTag, Err, Is

LEMMA MappingsAreFile ==
  ASSUME NEW mappings, IsList(mappings),
         \A i \in DOMAIN mappings : \E m : mappings[i] = Mapping(m) /\ DocumentMade(m)
  PROVE  FileMade(SeqOfYaml(mappings))
<1>1. \A m : Mapping(m).map = m
  BY DEF Mapping
<1>2. \A i \in DOMAIN mappings : DocumentMade(mappings[i].map)
  BY <1>1
<1> DEFINE file == SeqOfYaml(mappings)
<1>3. file.seq = mappings /\ DOMAIN file = {"seq"}
  BY DEF SeqOfYaml
<1> HIDE DEF file
<1>4. FileMade(file)
  BY <1>2, <1>3 DEF FileMade, YamlMade, OneTag, Is
<1> QED BY <1>4 DEF file

LEMMA Rendered ==
  ASSUME NEW reg, NEW states, NEW form, StatesMade(states)
  PROVE  FileMade(Render(reg, states, form))
<1> DEFINE results == [i \in DOMAIN states |-> StateToMapping(reg, states[i], form)]
           errors == {i \in DOMAIN results : IsError(results[i])}
           first == CHOOSE i \in errors : \A j \in errors : i <= j
<1>1. results = [i \in DOMAIN states |-> results[i]]
  OBVIOUS
<1>2. \A i \in DOMAIN states :
        \/ results[i] = Err("ReservedFieldKey")
        \/ \E m : results[i] = Mapping(m) /\ DocumentMade(m)
  BY StateToMappingMade DEF StatesMade
<1>3. Render(reg, states, form)
        = ThenAll(results, LAMBDA mappings : IF Len(mappings) = 1 THEN mappings[1]
                                             ELSE SeqOfYaml(mappings))
  BY DEF Render
<1> HIDE DEF results
<1>4. IsList(results) /\ Listed(results) = results /\ DOMAIN results = DOMAIN states
  BY <1>1, ListMade DEF StatesMade
<1>5. Render(reg, states, form)
        = IF errors = {} THEN IF Len(results) = 1 THEN results[1] ELSE SeqOfYaml(results)
          ELSE results[first]
  BY <1>3, <1>4 DEF ThenAll
<1>6. CASE errors = {}
  <2>1. \A i \in DOMAIN results : \E m : results[i] = Mapping(m) /\ DocumentMade(m)
    BY <1>2, <1>4, <1>6, ErrIsError
  <2>2. FileMade(SeqOfYaml(results))
    BY <1>4, <2>1, MappingsAreFile
  <2>3. Len(results) = 1 => FileMade(results[1])
    BY <1>4, <2>1, ListLen, MappingIsFile
  <2> QED BY <1>5, <1>6, <2>2, <2>3
<1>7. CASE errors # {}
  <2>1. errors \subseteq Nat
    BY <1>4, ListLen
  <2>2. first \in errors
    <3> HIDE DEF errors
    <3>1. \E i \in errors : \A j \in errors : i <= j
      BY <1>7, <2>1, LeastElement
    <3> QED BY <3>1
  <2>3. results[first] = Err("ReservedFieldKey") \/ \E m : results[first] = Mapping(m) /\ DocumentMade(m)
    BY <1>2, <1>4, <2>2
  <2> HIDE DEF first, errors
  <2> QED BY <1>5, <1>7, <2>3, ErrIsFile, MappingIsFile
<1> QED BY <1>6, <1>7

\* An edited document.
LEMMA EditedMade ==
  ASSUME NEW mapping, DocumentMade(mapping), NEW edit, YamlMade(edit.val)
  PROVE  DocumentMade(Edited(mapping, edit))
<1> DEFINE S == ValuesOf(mapping) \cup {edit.val}
           keep == {e \in ToSet(mapping) : e.key # Text(edit.key)}
<1>1. EntriesIn(mapping, S) /\ \A x \in S : YamlMade(x)
  BY DEF DocumentMade, EntriesIn, ValuesOf
<1>2. edit.val \in S
  OBVIOUS
<1> HIDE DEF S
<1>3. EntriesIn(With(mapping, Text(edit.key), edit.val), S)
  BY <1>1, <1>2, WithIn
<1>4. DocumentMade(With(mapping, Text(edit.key), edit.val))
  BY <1>1, <1>3 DEF DocumentMade, EntriesIn
<1>5. DocumentMade(Without(mapping, Text(edit.key)))
  <2>1. IsList(Only(mapping, keep)) /\ Elements(Only(mapping, keep)) = Elements(mapping) \cap keep
    BY ListOnly DEF DocumentMade
  <2>2. Without(mapping, Text(edit.key)) = Only(mapping, keep)
    BY DEF Without
  <2> HIDE DEF keep
  <2>3. IsList(mapping)
    BY DEF DocumentMade
  <2> QED BY <2>1, <2>2, <2>3, DocumentElements
<1> QED BY <1>4, <1>5 DEF Edited

-----------------------------------------------------------------------------
(* Prepared states. *)

\* What is left of a value, when something is left of it, is one value.
OneLeft(left) == left = <<>> \/ \E v : left = <<v>> /\ ValueMade(v)

LEMMA StripMade ==
  ASSUME NEW sch, NEW value, ValueMade(value), NEW path, NEW property \in BOOLEAN
  PROVE  LET left == Strip(sch, value, path, property).left
         IN  OneLeft(left) /\ (~property => left # <<>>)
<1> DEFINE s == Stripping(sch, value, path, property)
           parts == PartsToStrip(s)
<1>1. s.value = value /\ s.property = property /\ s.schema = sch /\ s.path = path
  BY DEF Stripping
<1> DEFINE made == CHOOSE f : f =
             [node \in Reached(LAMBDA n : ToSet(PartsToStrip(n)), {s}) |->
                Stripped(node, Listed([i \in DOMAIN PartsToStrip(node) |->
                                         f[PartsToStrip(node)[i]]]))]
<1>2. Strip(sch, value, path, property) = Stripped(s, Listed([i \in DOMAIN parts |-> made[parts[i]]]))
  BY DEF Strip, OfTree
<1> HIDE DEF made
<1> DEFINE of == [i \in DOMAIN parts |-> made[parts[i]]]
           removed == FlattenSeq([i \in DOMAIN Listed(of) |-> Listed(of)[i].removed])
<1>3. IsList(parts)
  <2>1. CASE Is(value, "map")
    <3>1. parts = [i \in DOMAIN value.map |-> parts[i]]
      BY <1>1, <2>1 DEF PartsToStrip
    <3>2. IsList(value.map)
      BY <2>1 DEF ValueMade
    <3> HIDE DEF parts
    <3> QED BY <3>1, <3>2, ListMade
  <2>2. CASE ~Is(value, "map") /\ Is(value, "list") /\ property
    <3>1. parts = [i \in DOMAIN value.list |-> parts[i]]
      BY <1>1, <2>2 DEF PartsToStrip
    <3>2. IsList(value.list)
      BY <2>2 DEF ValueMade
    <3> HIDE DEF parts
    <3> QED BY <3>1, <3>2, ListMade
  <2>3. CASE ~Is(value, "map") /\ ~(Is(value, "list") /\ property)
    BY <1>1, <2>3, EmptyList DEF PartsToStrip
  <2> QED BY <2>1, <2>2, <2>3
<1> HIDE DEF parts
<1>4. IsList(of) /\ Listed(of) = of
  <2>1. of = [i \in DOMAIN parts |-> of[i]]
    OBVIOUS
  <2> HIDE DEF of
  <2> QED BY <1>3, <2>1, ListMade
<1> HIDE DEF of
<1> DEFINE kept == KeptParts(value.map, of)
           items == [i \in DOMAIN of |-> of[i].left[1]]
           left == Stripped(s, of).left
<1>5. \A v, r : Left(v, r).left = <<v>>
  BY DEF Left
<1> HIDE DEF s
<1>6. \/ property /\ left = <<>>
      \/ Is(value, "map") /\ left = <<Map(FlattenSeq(kept))>>
      \/ left = <<value>>
      \/ left = <<List(items)>>
  BY <1>1, <1>4, <1>5 DEF Stripped
<1>7. IsList(items)
  <2>1. items = [i \in DOMAIN of |-> items[i]]
    OBVIOUS
  <2> HIDE DEF items
  <2> QED BY <1>4, <2>1, ListMade
<1>8. Is(value, "map") => IsList(FlattenSeq(kept))
  <2> SUFFICES ASSUME Is(value, "map")
               PROVE  IsList(FlattenSeq(kept))
    OBVIOUS
  <2>1. kept = [i \in DOMAIN value.map |-> kept[i]]
    BY DEF KeptParts
  <2>2. \A i \in DOMAIN value.map : IsList(kept[i])
    BY OneInList, EmptyList DEF KeptParts
  <2> HIDE DEF kept
  <2>3. IsList(kept) /\ DOMAIN kept = DOMAIN value.map
    BY <2>1, ListMade DEF ValueMade
  <2> QED BY <2>2, <2>3, Flattened
<1> HIDE DEF kept, items
<1>9. OneLeft(left) /\ (~property => left # <<>>)
  <2>1. \A v : <<v>> # <<>>
    BY OneInList
  <2>2. Is(value, "map") => ValueMade(Map(FlattenSeq(kept)))
    BY <1>8, ScalarsMade
  <2>3. ValueMade(List(items))
    BY <1>7, ScalarsMade
  <2> HIDE DEF left
  <2> QED BY <1>6, <2>1, <2>2, <2>3 DEF OneLeft
<1> QED BY <1>2, <1>4, <1>9 DEF of, s
LEMMA StripTopLevelMade ==
  ASSUME NEW reg, NEW e, ValueMade(e.val)
  PROVE  FieldsMade(StripTopLevel(reg, e).left)
<1> DEFINE root == reg[CHOOSE i \in TriggeredBy(reg, e.key) : TRUE].root
           group == Strip(<<root>>, e.val, <<e.key>>, FALSE)
           single == Strip(PropertySchema(<<BaseRoot(reg)>>, e.key), e.val, <<e.key>>, TRUE)
           left == StripTopLevel(reg, e).left
<1>1. OneLeft(group.left) /\ group.left # <<>>
  BY StripMade
<1>2. OneLeft(single.left)
  BY StripMade
<1>3. \/ left = <<e>>
      \/ left = <<>>
      \/ left = <<Entry(e.key, group.left[1])>>
      \/ single.left # <<>> /\ left = <<Entry(e.key, single.left[1])>>
  <2> HIDE DEF group, single
  <2> QED BY DEF StripTopLevel, GroupLeft, group, single
<1> HIDE DEF group, single, left
<1>4. \A v : <<v>>[1] = v
  OBVIOUS
<1>5. /\ ValueMade(group.left[1])
      /\ single.left # <<>> => ValueMade(single.left[1])
  BY <1>1, <1>2, <1>4 DEF OneLeft
<1>6. \A k, v : Entry(k, v).val = v
  BY DEF Entry
<1>7. FieldsMade(left)
  BY <1>3, <1>5, <1>6, NoFields, OneField
<1> QED BY <1>7 DEF left

LEMMA RemoveReadOnlyFieldsMade ==
  ASSUME NEW reg, NEW fields, FieldsMade(fields)
  PROVE  FieldsMade(RemoveReadOnlyFields(reg, fields).left)
<1> DEFINE parts == [i \in DOMAIN fields |-> StripTopLevel(reg, fields[i])]
           lefts == [i \in DOMAIN parts |-> parts[i].left]
<1>1. RemoveReadOnlyFields(reg, fields).left = FlattenSeq(lefts)
  BY DEF RemoveReadOnlyFields, Together
<1>2. parts = [i \in DOMAIN fields |-> parts[i]]
  OBVIOUS
<1>3. lefts = [i \in DOMAIN parts |-> lefts[i]]
  BY Zenon
<1>4. \A i \in DOMAIN fields : FieldsMade(parts[i].left)
  BY StripTopLevelMade DEF FieldsMade
<1>5. \A i \in DOMAIN parts : lefts[i] = parts[i].left
  BY Zenon
<1> HIDE DEF lefts
<1> HIDE DEF parts
<1>6. IsList(parts) /\ DOMAIN parts = DOMAIN fields
  BY <1>2, ListMade DEF FieldsMade
<1>7. IsList(lefts) /\ DOMAIN lefts = DOMAIN parts
  BY <1>3, <1>6, ListMade
<1> QED BY <1>1, <1>4, <1>5, <1>6, <1>7, FieldsFlattened

LEMMA WithoutMade ==
  ASSUME NEW fields, FieldsMade(fields), NEW key
  PROVE  FieldsMade(Without(fields, key))
<1> DEFINE keep == {e \in ToSet(fields) : e.key # key}
<1>1. Without(fields, key) = Only(fields, keep)
  BY DEF Without
<1> HIDE DEF keep
<1>2. IsList(Only(fields, keep)) /\ Elements(Only(fields, keep)) = Elements(fields) \cap keep
  BY ListOnly DEF FieldsMade
<1>3. IsList(fields)
  BY DEF FieldsMade
<1> QED BY <1>1, <1>2, <1>3, FieldsElements

LEMMA PrepareStateMade ==
  ASSUME NEW reg, NEW state, StateMade(state), NEW field, ~IsError(PrepareState(reg, state, field))
  PROVE  StateMade(PrepareState(reg, state, field).state)
<1> DEFINE stripped == RemoveReadOnlyFields(reg, Without(state.fields, field))
           match == Selected(state, field)
           left == [state EXCEPT !.match = match, !.fields = stripped.left]
           p == PrepareState(reg, state, field)
<1>1. FieldsMade(stripped.left)
  BY WithoutMade, RemoveReadOnlyFieldsMade DEF StateMade
<1> HIDE DEF stripped
<1>2. p.state = state \/ p.state = MatchType(left)
  <2>1. IsError(Err("NoMatchField"))
    BY ErrIsError
  <2> QED BY <2>1 DEF PrepareState, Prepared, stripped
<1> HIDE DEF p, match
<1>3. DOMAIN left = DOMAIN state /\ left.fields = stripped.left
  BY DEF StateMade
<1>4. StateMade(left)
  <2> HIDE DEF left
  <2> QED BY <1>1, <1>3, StateLike
<1> HIDE DEF left
<1>5. DOMAIN MatchType(left) = DOMAIN left /\ MatchType(left).fields = left.fields
  BY <1>4 DEF MatchType, StateMade
<1>6. StateMade(MatchType(left))
  <2> DEFINE made == MatchType(left)
  <2>1. DOMAIN made = DOMAIN left /\ FieldsMade(made.fields)
    BY <1>4, <1>5 DEF StateMade
  <2> HIDE DEF made
  <2>2. StateMade(made)
    BY <1>4, <2>1, StateLike
  <2> QED BY <2>2 DEF made
<1> QED BY <1>2, <1>6 DEF p

\* What is prepared is of the list of states without their matches, each of
\* them prepared by itself.
LEMMA PrepareForApplyIs ==
  ASSUME NEW reg, NEW states, NEW field, IsList(states)
  PROVE  LET fresh == [i \in DOMAIN states |-> Unmatched(reg, states[i])]
             made == [i \in DOMAIN fresh |-> PrepareState(reg, fresh[i], field)]
             prepared == [i \in DOMAIN made |-> made[i].state]
             o == PrepareForApply(reg, states, field)
         IN  \/ IsError(o)
             \/ /\ InputViolations(reg, fresh) = {}
                /\ \A i \in DOMAIN made : ~IsError(made[i])
                /\ FinalViolations(reg, prepared) = {}
                /\ IsList(prepared)
                /\ o = [states |-> prepared,
                        warnings |-> FlattenSeq([i \in DOMAIN made |-> made[i].warnings])]
<1> DEFINE fresh == [i \in DOMAIN states |-> Unmatched(reg, states[i])]
           made == [i \in DOMAIN fresh |-> PrepareState(reg, fresh[i], field)]
           prepared == [i \in DOMAIN made |-> made[i].state]
           o == PrepareForApply(reg, states, field)
           errors == {i \in DOMAIN made : IsError(made[i])}
<1>1. fresh = [i \in DOMAIN states |-> fresh[i]]
  OBVIOUS
<1>2. made = [i \in DOMAIN fresh |-> made[i]]
  BY Zenon
<1>3. prepared = [i \in DOMAIN made |-> prepared[i]]
  BY Zenon
<1>4. o = PrepareFresh(reg, Listed(fresh), field)
  BY DEF PrepareForApply
<1>5. PrepareFresh(reg, fresh, field)
        = IF InputViolations(reg, fresh) # {} THEN Err("Validation")
          ELSE ThenAll(made, LAMBDA all : AllPrepared(reg, all))
  BY DEF PrepareFresh
<1>6. AllPrepared(reg, made)
        = IF FinalViolations(reg, prepared) # {} THEN Err("Validation")
          ELSE [states |-> Listed(prepared),
                warnings |-> FlattenSeq([i \in DOMAIN made |-> made[i].warnings])]
  BY DEF AllPrepared
<1> HIDE DEF fresh
<1>7. IsList(fresh) /\ Listed(fresh) = fresh
  BY <1>1, ListMade
<1> HIDE DEF made
<1>8. IsList(made) /\ Listed(made) = made
  BY <1>2, <1>7, ListMade
<1> HIDE DEF prepared
<1>9. IsList(prepared) /\ Listed(prepared) = prepared
  BY <1>3, <1>8, ListMade
<1>10. ThenAll(made, LAMBDA all : AllPrepared(reg, all))
         = IF errors = {} THEN AllPrepared(reg, made)
           ELSE made[CHOOSE i \in errors : \A j \in errors : i <= j]
  BY <1>8 DEF ThenAll
<1>11. errors # {} => IsError(made[CHOOSE i \in errors : \A j \in errors : i <= j])
  BY <1>8, FirstError
<1> HIDE DEF o
<1>12. \/ IsError(o)
       \/ /\ InputViolations(reg, fresh) = {} /\ errors = {}
          /\ FinalViolations(reg, prepared) = {}
          /\ o = [states |-> prepared,
                  warnings |-> FlattenSeq([i \in DOMAIN made |-> made[i].warnings])]
  BY <1>4, <1>5, <1>6, <1>7, <1>9, <1>10, <1>11, ErrIsError
<1>13. \/ IsError(o)
       \/ /\ InputViolations(reg, fresh) = {}
          /\ \A i \in DOMAIN made : ~IsError(made[i])
          /\ FinalViolations(reg, prepared) = {}
          /\ IsList(prepared)
          /\ o = [states |-> prepared,
                  warnings |-> FlattenSeq([i \in DOMAIN made |-> made[i].warnings])]
  BY <1>9, <1>12
<1> QED BY <1>13 DEF fresh, made, prepared, o

LEMMA UnmatchedMade ==
  ASSUME NEW reg, NEW state, StateMade(state)
  PROVE  StateMade(Unmatched(reg, state))
BY DEF Unmatched, StateMade

LEMMA PreparedMade ==
  ASSUME NEW reg, NEW states, NEW field, StatesMade(states)
  PROVE  LET o == PrepareForApply(reg, states, field)
         IN  IsError(o) \/ StatesMade(o.states)
<1> DEFINE fresh == [i \in DOMAIN states |-> Unmatched(reg, states[i])]
           made == [i \in DOMAIN fresh |-> PrepareState(reg, fresh[i], field)]
           prepared == [i \in DOMAIN made |-> made[i].state]
           o == PrepareForApply(reg, states, field)
           warnings == FlattenSeq([i \in DOMAIN made |-> made[i].warnings])
<1>1. \/ IsError(o)
      \/ /\ InputViolations(reg, fresh) = {}
         /\ \A i \in DOMAIN made : ~IsError(made[i])
         /\ FinalViolations(reg, prepared) = {}
         /\ IsList(prepared)
         /\ o = [states |-> prepared, warnings |-> warnings]
  BY PrepareForApplyIs DEF StatesMade
<1>2. \A i \in DOMAIN states : StateMade(fresh[i])
  BY UnmatchedMade DEF StatesMade
<1>3. DOMAIN fresh = DOMAIN states
  OBVIOUS
<1> HIDE DEF fresh
<1>4. DOMAIN made = DOMAIN fresh
  OBVIOUS
<1>5. ASSUME NEW i \in DOMAIN made, ~IsError(made[i])
      PROVE  StateMade(made[i].state)
  <2>1. made[i] = PrepareState(reg, fresh[i], field)
    BY <1>5
  <2>2. StateMade(fresh[i])
    BY <1>2, <1>3, <1>4
  <2> HIDE DEF made
  <2> QED BY <1>5, <2>1, <2>2, PrepareStateMade
<1> HIDE DEF made
<1>6. DOMAIN prepared = DOMAIN made /\ \A i \in DOMAIN made : prepared[i] = made[i].state
  BY Zenon
<1> HIDE DEF prepared, warnings, o
<1>7. IsError(o) \/ StatesMade(o.states)
  BY <1>1, <1>5, <1>6 DEF StatesMade
<1> QED BY <1>7 DEF o
-----------------------------------------------------------------------------
(* What there is. *)

WellMade ==
  /\ DOMAIN disk = File /\ Filed(disk) /\ StatesMade(origin)
  /\ phase \in {"observed", "prepared"} => StatesMade(observed.states)
  /\ phase = "prepared" => IsError(outcome) \/ StatesMade(outcome.states)

LEMMA NoStates == StatesMade(<<>>)
BY EmptyList DEF StatesMade

LEMMA FiledExcept ==
  ASSUME NEW d, NEW file, NEW value, DOMAIN d = File, Filed(d), FileMade(value)
  PROVE  DOMAIN [d EXCEPT ![file] = value] = File /\ Filed([d EXCEPT ![file] = value])
BY DEF Filed

LEMMA WellMadeInit == Init => WellMade
<1>1. FileMade(Absent)
  BY DEF FileMade, YamlMade, OneTag, Absent, Is
<1> QED BY <1>1, NoStates DEF Init, WellMade, Filed

LEMMA StatesConcat ==
  ASSUME NEW s, NEW t, StatesMade(s), StatesMade(t)
  PROVE  StatesMade(s \o t)
<1>1. IsList(s) /\ IsList(t)
  BY DEF StatesMade
<1>2. IsList(s \o t) /\ Elements(s \o t) = Elements(s) \cup Elements(t)
  BY <1>1, ListTwo
<1> QED BY <1>1, <1>2 DEF StatesMade, Elements

LEMMA WellMadeStep ==
  ASSUME WellMade, [Next]_vars
  PROVE  WellMade'
<1> USE DEF WellMade
<1>1. ASSUME NEW ext \in Extensions, Extend(ext)
      PROVE  WellMade'
  BY <1>1 DEF Extend, files, program, Filed
<1>2. ASSUME NEW inventory \in Inventories, Query(inventory)
      PROVE  WellMade'
  <2> DEFINE devices == [i \in DOMAIN inventory.devices |-> DeviceState(inventory.devices[i])]
             states == devices \o inventory.foreign
  <2>1. StatesMade(devices)
    <3>1. devices = [i \in DOMAIN inventory.devices |-> devices[i]]
      OBVIOUS
    <3>2. \A i \in DOMAIN inventory.devices : StateMade(devices[i])
      BY DocumentsAssumption, DeviceStateMade
    <3> HIDE DEF devices
    <3>3. IsList(devices) /\ DOMAIN devices = DOMAIN inventory.devices
      BY <3>1, DocumentsAssumption, ListMade
    <3> QED BY <3>2, <3>3 DEF StatesMade
  <2> HIDE DEF devices
  <2>2. StatesMade(states)
    BY <2>1, DocumentsAssumption, StatesConcat
  <2>3. /\ disk' = [disk EXCEPT ![QueryFile] = ToYamlQuery(registry, states)]
        /\ origin' = states /\ phase = "idle" /\ phase' = phase
    BY <1>2 DEF Query, QueryStates, Change, program, devices
  <2>4. FileMade(ToYamlQuery(registry, states))
    BY <2>2, Rendered DEF ToYamlQuery
  <2>5. DOMAIN disk' = File /\ Filed(disk')
    BY <2>3, <2>4, FiledExcept
  <2> QED BY <2>2, <2>3, <2>5 DEF Filed
<1>3. ASSUME NEW i \in 1 .. 2, NEW edit \in Edits, Edit(i, edit)
      PROVE  WellMade'
  <2> DEFINE file == disk[QueryFile]
  <2>1. phase = "idle" /\ phase' = phase /\ origin' = origin
    BY <1>3 DEF Edit, Change, program
  <2>2. QueryFile \in File => FileMade(file)
    BY DEF Filed
  <2>3. CASE /\ Is(file, "map") /\ i = 1
             /\ disk' = [disk EXCEPT ![QueryFile] = Mapping(Edited(file.map, edit))]
    <3>1. FileMade(Mapping(Edited(file.map, edit)))
      <4>1. DocumentMade(file.map)
        BY <2>2, <2>3, DocumentsAssumption DEF FileMade
      <4>2. DocumentMade(Edited(file.map, edit))
        BY <4>1, DocumentsAssumption, EditedMade
      <4> QED BY <4>2, MappingIsFile
    <3>2. DOMAIN disk' = File /\ Filed(disk')
      BY <2>3, <3>1, FiledExcept
    <3> QED BY <2>1, <3>2 DEF Filed
  <2>4. CASE /\ Is(file, "seq") /\ i \in DOMAIN file.seq /\ Is(file.seq[i], "map")
             /\ disk' = [disk EXCEPT ![QueryFile].seq[i] = Mapping(Edited(file.seq[i].map, edit))]
    <3> DEFINE new == Mapping(Edited(file.seq[i].map, edit))
               changed == [file EXCEPT !.seq[i] = new]
    <3>1. disk' = [disk EXCEPT ![QueryFile] = changed]
      BY <2>4
    <3>2. FileMade(file) /\ IsList(file.seq) /\ OneTag(file)
      BY <2>2, <2>4, DocumentsAssumption DEF FileMade, YamlMade
    <3>3. DocumentMade(file.seq[i].map)
      BY <2>4, <3>2 DEF FileMade
    <3>4. DocumentMade(Edited(file.seq[i].map, edit))
      BY <3>3, DocumentsAssumption, EditedMade
    <3>5. new = Mapping(Edited(file.seq[i].map, edit)) /\ Mapping(Edited(file.seq[i].map, edit)).map
            = Edited(file.seq[i].map, edit)
      BY DEF Mapping
    <3>6. DocumentMade(new.map)
      BY <3>4, <3>5
    <3>7. DOMAIN changed = DOMAIN file /\ changed.seq = [file.seq EXCEPT ![i] = new]
      BY <2>4 DEF Is
    <3> DEFINE seq == file.seq
    <3>8. /\ IsList([seq EXCEPT ![i] = new]) /\ DOMAIN [seq EXCEPT ![i] = new] = DOMAIN seq
          /\ \A j \in DOMAIN seq : [seq EXCEPT ![i] = new][j] = IF j = i THEN new ELSE seq[j]
      <4> HIDE DEF seq, new
      <4>1. IsList(seq)
        BY <3>2 DEF seq
      <4> QED BY <4>1, ListExcept
    <3>9. DOMAIN file = {"seq"}
      BY <2>4, <3>2 DEF OneTag, Is
    <3>10. \A j \in DOMAIN changed.seq :
             Is(changed.seq[j], "map") => DocumentMade(changed.seq[j].map)
      <4> HIDE DEF new
      <4>1. \A j \in DOMAIN seq : Is(seq[j], "map") => DocumentMade(seq[j].map)
        BY <2>4, <3>2 DEF FileMade
      <4> HIDE DEF changed
      <4> QED BY <3>6, <3>7, <3>8, <4>1
    <3>11. FileMade(changed)
      <4> HIDE DEF changed, new
      <4> QED BY <3>7, <3>8, <3>9, <3>10 DEF FileMade, YamlMade, OneTag, Is
    <3>12. DOMAIN disk' = File /\ Filed(disk')
      <4> HIDE DEF changed
      <4> QED BY <3>1, <3>11, FiledExcept
    <3> QED BY <2>1, <3>12 DEF Filed
  <2> QED BY <1>3, <2>3, <2>4 DEF Edit
<1>4. ASSUME NEW h \in Handwritten, Handwrite(h.file, h.document)
      PROVE  WellMade'
  <2>1. /\ disk' = [disk EXCEPT ![h.file] = h.document]
        /\ origin' \in {<<>>, origin} /\ phase = "idle" /\ phase' = phase
    BY <1>4 DEF Handwrite, Change, program
  <2>2. DOMAIN disk' = File /\ Filed(disk')
    BY <2>1, DocumentsAssumption, FiledExcept
  <2> QED BY <2>1, <2>2, NoStates DEF Filed
<1>5. ASSUME NEW mode \in {"query", "policy", "candidate"}, Decode(mode)
      PROVE  WellMade'
  <2>1. /\ disk' = disk /\ origin' = origin
        /\ phase' = IF IsError(observed') THEN "failed" ELSE "observed"
        /\ observed' \in {FromYaml(registry, disk[QueryFile]),
                          DecodeYaml(registry, disk[QueryFile], mode)}
    BY <1>5 DEF Decode, files
  <2>2. FileMade(disk[QueryFile])
    BY DocumentsAssumption DEF Filed
  <2>3. IsError(observed') \/ StatesMade(observed'.states)
    BY <2>1, <2>2, FromYamlNumbered, DecodeYamlNumbered, StatesNumberedAreMade
  <2> QED BY <2>1, <2>3 DEF Filed
<1>6. ASSUME Observe
      PROVE  WellMade'
  BY <1>6 DEF Observe, files, Filed
<1>7. ASSUME NEW field \in FieldsOfMatch, PrepareStates(field)
      PROVE  WellMade'
  <2>1. /\ disk' = disk /\ origin' = origin /\ observed' = observed
        /\ phase = "observed" /\ outcome' = PrepareForApply(registry, observed.states, field)
    BY <1>7 DEF PrepareStates, files
  <2>2. IsError(outcome') \/ StatesMade(outcome'.states)
    BY <2>1, PreparedMade
  <2> QED BY <2>1, <2>2 DEF Filed
<1>8. ASSUME Save
      PROVE  WellMade'
  <2>1. /\ disk' = [disk EXCEPT ![QueryFile] = ToYamlPolicy(registry, outcome.states)]
        /\ origin' = <<>> /\ phase' = "saved" /\ StatesMade(outcome.states)
    BY <1>8 DEF Save
  <2>2. FileMade(ToYamlPolicy(registry, outcome.states))
    BY <2>1, Rendered DEF ToYamlPolicy
  <2>3. DOMAIN disk' = File /\ Filed(disk')
    BY <2>1, <2>2, FiledExcept
  <2> QED BY <2>1, <2>3, NoStates DEF Filed
<1>9. ASSUME NEW field \in FieldsOfMatch, Load(field)
      PROVE  WellMade'
  BY <1>9 DEF Load, files, Filed
<1>10. ASSUME Insert
       PROVE  WellMade'
  BY <1>10 DEF Insert, files, Filed
<1>11. ASSUME ProduceFromSet
       PROVE  WellMade'
  BY <1>11 DEF ProduceFromSet, files, Filed
<1>12. ASSUME Finish
       PROVE  WellMade'
  BY <1>12 DEF Finish, files, Filed
<1>13. CASE UNCHANGED vars
  BY <1>13 DEF vars, files, program, Filed
<1> QED BY <1>1, <1>2, <1>3, <1>4, <1>5, <1>6, <1>7, <1>8, <1>9, <1>10, <1>11, <1>12, <1>13
        DEF Next
-----------------------------------------------------------------------------
(* Every document is one policy. *)

Counted ==
  /\ phase = "loaded" => ~IsError(loaded) /\ Outcome(loaded, DocumentsUpTo[Len(Directory)])
  /\ Unique(set)

LEMMA DocumentsUpToSame ==
  ASSUME disk' = disk
  PROVE  DocumentsUpTo' = DocumentsUpTo
BY DEF DocumentsUpTo, Loadable

LEMMA CountedInit == Init => Counted
BY EmptyList DEF Init, Counted, Unique

LEMMA InsertUnique ==
  ASSUME NEW policies, NEW policy, Unique(policies), InsertError(policies, policy) = "none"
  PROVE  Unique(Append(policies, policy))
<1> DEFINE all == Append(policies, policy)
           n == Len(policies)
<1>1. n \in Nat /\ DOMAIN policies = 1 .. n
  BY ListLen DEF Unique
<1>2. policy.name \notin Names(policies)
  BY DEF InsertError
<1>3. \A i \in 1 .. n : policies[i].name # policy.name
  BY <1>1, <1>2 DEF Names, ToSet
<1>4. /\ IsList(all) /\ Len(all) = n + 1 /\ all[n + 1] = policy
      /\ \A i \in 1 .. n : all[i] = policies[i]
  BY ListAppend DEF Unique
<1> HIDE DEF all, n
<1>5. DOMAIN all = 1 .. n + 1
  BY <1>4, ListLen
<1>6. \A i \in 1 .. n + 1 : i \in 1 .. n \/ i = n + 1
  BY <1>1
<1>7. \A i, j \in 1 .. n + 1 : all[i].name = all[j].name => i = j
  BY <1>1, <1>3, <1>4, <1>6 DEF Unique
<1> QED BY <1>4, <1>5, <1>7 DEF Unique, all

LEMMA CountedStep ==
  ASSUME WellMade, Counted, [Next]_vars
  PROVE  Counted'
<1>1. ASSUME phase' # "loaded", set' \in {set, <<>>}
      PROVE  Counted'
  <2>1. Unique(set) /\ Unique(<<>>)
    BY EmptyList DEF Counted, Unique
  <2> QED BY <1>1, <2>1 DEF Counted
<1>2. ASSUME NEW ext \in Extensions, Extend(ext)
      PROVE  Counted'
  BY <1>1, <1>2 DEF Extend, program
<1>3. ASSUME NEW inventory \in Inventories, Query(inventory)
      PROVE  Counted'
  BY <1>1, <1>3 DEF Query, Change, program
<1>4. ASSUME NEW i \in 1 .. 2, NEW edit \in Edits, Edit(i, edit)
      PROVE  Counted'
  BY <1>1, <1>4 DEF Edit, Change, program
<1>5. ASSUME NEW h \in Handwritten, Handwrite(h.file, h.document)
      PROVE  Counted'
  BY <1>1, <1>5 DEF Handwrite, Change, program
<1>6. ASSUME NEW mode \in {"query", "policy", "candidate"}, Decode(mode)
      PROVE  Counted'
  BY <1>1, <1>6 DEF Decode
<1>7. ASSUME Observe
      PROVE  Counted'
  BY <1>1, <1>7 DEF Observe
<1>8. ASSUME NEW field \in FieldsOfMatch, PrepareStates(field)
      PROVE  Counted'
  BY <1>1, <1>8 DEF PrepareStates
<1>9. ASSUME Save
      PROVE  Counted'
  BY <1>1, <1>9 DEF Save
<1>10. ASSUME NEW field \in FieldsOfMatch, Load(field)
       PROVE  Counted'
  <2>1. /\ disk' = disk /\ set' = set /\ loaded' = LoadPolicyDir(disk, field)
        /\ phase' = IF IsError(loaded') THEN "failed" ELSE "loaded"
    BY <1>10 DEF Load, files
  <2>2. Outcome(loaded', DocumentsUpTo[Len(Directory)])
    BY <2>1, LoadPolicyDirCounts DEF WellMade
  <2>3. DocumentsUpTo' = DocumentsUpTo
    BY <2>1, DocumentsUpToSame
  <2> QED BY <2>1, <2>2, <2>3 DEF Counted
<1>11. ASSUME Insert
       PROVE  Counted'
  <2>1. disk' = disk /\ loaded' = loaded /\ phase = "loaded"
    BY <1>11 DEF Insert, files
  <2>2. DocumentsUpTo' = DocumentsUpTo
    BY <2>1, DocumentsUpToSame
  <2>3. set' = set \/ (InsertError(set, loaded.policies[next]) = "none"
                       /\ set' = Append(set, loaded.policies[next]))
    BY <1>11 DEF Insert
  <2>4. Unique(set')
    BY <2>3, InsertUnique DEF Counted
  <2> QED BY <2>1, <2>2, <2>4 DEF Counted
<1>12. ASSUME ProduceFromSet
       PROVE  Counted'
  BY <1>1, <1>12 DEF ProduceFromSet
<1>13. ASSUME Finish
       PROVE  Counted'
  BY <1>1, <1>13 DEF Finish
<1>14. CASE UNCHANGED vars
  <2>1. disk' = disk /\ loaded' = loaded /\ phase' = phase /\ set' = set
    BY <1>14 DEF vars, files, program
  <2>2. DocumentsUpTo' = DocumentsUpTo
    BY <2>1, DocumentsUpToSame
  <2> QED BY <2>1, <2>2 DEF Counted
<1> QED BY <1>2, <1>3, <1>4, <1>5, <1>6, <1>7, <1>8, <1>9, <1>10, <1>11, <1>12, <1>13, <1>14
        DEF Next

LEMMA CountedImplies ==
  ASSUME Counted
  PROVE  EveryDocumentIsOnePolicy
BY UniqueCounts DEF Counted, Outcome, EveryDocumentIsOnePolicy

LEMMA WellMadeHolds == Spec => []WellMade
<1>1. Init => WellMade
  BY WellMadeInit
<1>2. WellMade /\ [Next]_vars => WellMade'
  BY WellMadeStep
<1> QED BY <1>1, <1>2, PTL DEF Spec

\* A load gives one policy for each document, or nothing, and the names of a
\* set of policies are distinct (load_policy_dir and PolicySet::insert).
THEOREM DocumentsArePolicies == Spec => []EveryDocumentIsOnePolicy
<1>1. Init => Counted
  BY CountedInit
<1>2. WellMade /\ Counted /\ [Next]_vars => Counted'
  BY CountedStep
<1>3. Counted => EveryDocumentIsOnePolicy
  BY CountedImplies
<1> QED BY <1>1, <1>2, <1>3, WellMadeHolds, PTL DEF Spec
-----------------------------------------------------------------------------
(* Every policy that is loaded produces. *)

\* What production asks of a policy.
Fit(p) ==
  /\ p.name # "" /\ p.match # NoMatch /\ FieldsMade(p.fields)
  /\ ValidateWritable(ProviderRegistry, CandidateState(p)) = {}
Fitting(o) == IsError(o) \/ (IsList(o.policies) /\ \A p \in Elements(o.policies) : Fit(p))

\* Of a field something stays, or a provider is declared for it.
LEMMA SplitGives ==
  ASSUME NEW p, NEW e, ValueMade(e.val)
  PROVE  LET split == Split(p, e)
         IN  /\ IsList(split.left) /\ IsList(split.removed)
             /\ split.left # <<>> \/ split.removed # <<>>
<1> DEFINE split == Split(p, e)
           triggers == {x \in ToSet(e.val.map) : Registration(e.key, x.key) # {}}
           taken == Only(e.val.map, triggers)
           left == Only(e.val.map, ToSet(e.val.map) \ triggers)
           declared == [i \in DOMAIN taken |->
                          Declared(p, CHOOSE q \in Registration(e.key, taken[i].key) : TRUE,
                                   taken[i].val.map)]
<1>1. CASE ~Is(e.val, "map")
  <2>1. split.left = <<e>> /\ split.removed = <<>>
    BY <1>1 DEF Split
  <2> QED BY <2>1, OneInList, EmptyList
<1>2. CASE Is(e.val, "map")
  <2>1. split.left = (IF Emptied(left, taken) THEN <<>> ELSE <<Entry(e.key, Map(left))>>)
        /\ split.removed = declared
    BY <1>2 DEF Split
  <2>2. IsList(taken)
    BY <1>2, ListOnly DEF ValueMade
  <2>3. declared = [i \in DOMAIN taken |-> declared[i]]
    OBVIOUS
  <2>4. Emptied(left, taken) => taken # <<>>
    BY DEF Emptied
  <2> HIDE DEF split, taken, declared, left
  <2>5. IsList(declared) /\ Len(declared) = Len(taken)
    BY <2>2, <2>3, ListMade
  <2>6. taken # <<>> => declared # <<>>
    BY <2>2, <2>5, ListEmpty
  <2>7. IsList(split.left)
    BY <2>1, OneInList, EmptyList
  <2>8. ~Emptied(left, taken) => split.left # <<>>
    BY <2>1, OneInList
  <2>9. IsList(split.left) /\ IsList(split.removed) /\ (split.left # <<>> \/ split.removed # <<>>)
    BY <2>1, <2>4, <2>5, <2>6, <2>7, <2>8
  <2> QED BY <2>9 DEF split
<1> QED BY <1>1, <1>2

LEMMA FitProduces ==
  ASSUME NEW p, Fit(p), IsError(Produce(p))
  PROVE  Produce(p).error = "EmptyPolicy" /\ p.fields = <<>>
<1> DEFINE parts == [i \in DOMAIN p.fields |-> Split(p, p.fields[i])]
           lefts == [i \in DOMAIN parts |-> parts[i].left]
           removeds == [i \in DOMAIN parts |-> parts[i].removed]
           split == Together(parts)
<1>1. Produce(p) = Produced(p, split)
  BY DEF Produce, Fit
<1>2. split.left = FlattenSeq(lefts) /\ split.removed = FlattenSeq(removeds)
  BY DEF Together
<1>3. parts = [i \in DOMAIN p.fields |-> parts[i]]
  OBVIOUS
<1>4. /\ lefts = [i \in DOMAIN parts |-> lefts[i]] /\ removeds = [i \in DOMAIN parts |-> removeds[i]]
      /\ \A i \in DOMAIN parts : lefts[i] = parts[i].left /\ removeds[i] = parts[i].removed
  BY Zenon
<1>5. \A i \in DOMAIN p.fields : /\ IsList(parts[i].left) /\ IsList(parts[i].removed)
                                 /\ parts[i].left # <<>> \/ parts[i].removed # <<>>
  BY SplitGives DEF Fit, FieldsMade
<1> HIDE DEF lefts, removeds, split
<1> HIDE DEF parts
<1>6. IsList(parts) /\ DOMAIN parts = DOMAIN p.fields /\ IsList(p.fields)
  BY <1>3, ListMade DEF Fit, FieldsMade
<1>7. IsList(lefts) /\ DOMAIN lefts = DOMAIN parts
  BY <1>4, <1>6, ListMade
<1>8. IsList(removeds) /\ DOMAIN removeds = DOMAIN parts
  BY <1>4, <1>6, ListMade
<1>9. split.left = <<>> /\ split.removed = <<>> /\ Produce(p) = Err("EmptyPolicy")
  <2>1. ~IsError([states |-> IF split.left = <<>> /\ p.device_type = "" THEN <<>>
                             ELSE <<[CandidateState(p) EXCEPT
                                       !.fields = split.left, !.priority = StaticPriority(p)]>>,
                  providers |-> split.removed])
    BY DEF IsError, Is
  <2> QED BY <1>1, <2>1 DEF Produced
<1>10. FlattenSeq(lefts) = <<>> => \A i \in DOMAIN lefts : lefts[i] = <<>>
  BY <1>4, <1>5, <1>6, <1>7, Flattened
<1>11. FlattenSeq(removeds) = <<>> => \A i \in DOMAIN removeds : removeds[i] = <<>>
  BY <1>4, <1>5, <1>6, <1>8, Flattened
<1>12. DOMAIN p.fields = {}
  BY <1>2, <1>4, <1>5, <1>6, <1>7, <1>8, <1>9, <1>10, <1>11
<1>13. p.fields = <<>>
  <2>1. Len(p.fields) \in Nat /\ DOMAIN p.fields = 1 .. Len(p.fields)
    BY <1>6, ListLen
  <2> DEFINE n == Len(p.fields)
  <2>2. n \in Nat /\ 1 .. n = {}
    BY <1>12, <2>1
  <2> HIDE DEF n
  <2>3. n = 0
    BY <2>2
  <2> QED BY <1>6, <2>3, ListEmpty DEF n
<1> QED BY <1>9, <1>13 DEF Err

\* Validation looks at the fields and the device type alone.
LEMMA SameViolations ==
  ASSUME NEW reg, NEW s, NEW t, s.fields = t.fields, s.device_type = t.device_type
  PROVE  ValidateWritable(reg, s) = ValidateWritable(reg, t) /\ Validate(reg, s) = Validate(reg, t)
BY DEF ValidateWritable, Validate, ValidateInner, FragmentViolations

LEMMA MatchesSomething ==
  ASSUME NEW field, NEW text, NEW match
  PROVE  /\ Matching(field, text) # NoMatch
         /\ Constrained(match, field, text) # NoMatch
<1>1. DOMAIN NoMatch = {}
  BY DEF NoMatch
<1>2. field \in DOMAIN Matching(field, text) /\ field \in DOMAIN Constrained(match, field, text)
  BY DEF Matching, Constrained
<1> QED BY <1>1, <1>2

\* What is prepared matches something.
LEMMA PreparedMatches ==
  ASSUME NEW reg, NEW state, StateMade(state), NEW field, ~IsError(PrepareState(reg, state, field))
  PROVE  PrepareState(reg, state, field).state.match # NoMatch
<1> DEFINE stripped == RemoveReadOnlyFields(reg, Without(state.fields, field))
           match == Selected(state, field)
           left == [state EXCEPT !.match = match, !.fields = stripped.left]
           p == PrepareState(reg, state, field)
<1>1. match # NoMatch
  BY MatchesSomething DEF Selected
<1> HIDE DEF match
<1> HIDE DEF stripped
<1>2. (p.state = state /\ state.match # NoMatch) \/ p.state = MatchType(left)
  <2>1. IsError(Err("NoMatchField"))
    BY ErrIsError
  <2> QED BY <2>1 DEF PrepareState, Prepared, stripped, match
<1> HIDE DEF p
<1>3. left.match = match /\ "match" \in DOMAIN left
  BY DEF StateMade
<1> HIDE DEF left
<1>4. MatchType(left).match = IF left.device_type = "" THEN match
                              ELSE Constrained(match, "type", left.device_type)
  BY <1>3 DEF MatchType
<1>5. MatchType(left).match # NoMatch
  BY <1>1, <1>4, MatchesSomething
<1> QED BY <1>2, <1>5 DEF p

\* A state that a policy may be made of.
FitState(state) ==
  /\ StateMade(state) /\ state.match # NoMatch
  /\ ValidateWritable(ProviderRegistry, state) = {}

LEMMA PreparedStateFits ==
  ASSUME NEW mapping, NEW state, StateMade(state), NEW field,
         ~IsError(PreparedState(mapping, state, field))
  PROVE  FitState(PreparedState(mapping, state, field).states[1])
<1> DEFINE p == PreparedState(mapping, state, field)
           reg == ProviderRegistry
           one == <<state>>
           o == PrepareForApply(reg, one, field)
<1>1. IsList(one) /\ DOMAIN one = {1} /\ one[1] = state
  <2>1. IsList(one) /\ Len(one) = 1 /\ one[1] = state
    BY OneInList
  <2>2. DOMAIN one = 1 .. 1
    BY <2>1, ListLen
  <2> QED BY <2>1, <2>2
<1>2. CASE state.match = NoMatch
  <2> DEFINE fresh == [i \in DOMAIN one |-> Unmatched(reg, one[i])]
             made == [i \in DOMAIN fresh |-> PrepareState(reg, fresh[i], field)]
             prepared == [i \in DOMAIN made |-> made[i].state]
             first == Unmatched(reg, state)
  <2>1. p = o
    BY <1>2, ErrIsError DEF PreparedState
  <2>2. \/ IsError(o)
        \/ /\ InputViolations(reg, fresh) = {}
           /\ \A i \in DOMAIN made : ~IsError(made[i])
           /\ FinalViolations(reg, prepared) = {}
           /\ IsList(prepared)
           /\ o = [states |-> prepared, warnings |-> FlattenSeq([i \in DOMAIN made |-> made[i].warnings])]
    <3> HIDE DEF reg
    <3> QED BY <1>1, PrepareForApplyIs
  <2>3. DOMAIN fresh = {1} /\ fresh[1] = first
    BY <1>1
  <2> HIDE DEF fresh, first, p, o, reg
  <2>4. DOMAIN made = {1} /\ made[1] = PrepareState(reg, first, field)
    BY <2>3, Zenon
  <2> HIDE DEF made
  <2>5. DOMAIN prepared = {1} /\ prepared[1] = made[1].state
    BY <2>4, Zenon
  <2> HIDE DEF prepared
  <2>6. ~IsError(o) /\ p = o
    BY <2>1 DEF p
  <2>7. ~IsError(made[1]) /\ FinalViolations(reg, prepared) = {} /\ o.states = prepared
    BY <2>2, <2>4, <2>6
  <2>8. StateMade(first)
    BY UnmatchedMade DEF first
  <2>9. StateMade(prepared[1]) /\ prepared[1].match # NoMatch
    BY <2>4, <2>5, <2>7, <2>8, PrepareStateMade, PreparedMatches
  <2>10. ValidateWritable(reg, prepared[1]) = {}
    BY <2>5, <2>7 DEF FinalViolations
  <2> QED BY <2>6, <2>7, <2>9, <2>10 DEF FitState, p, reg
<1>3. CASE state.match # NoMatch
  <2>1. p = [states |-> one, warnings |-> <<>>] /\ ValidateWritable(reg, state) = {}
    <3> HIDE DEF reg
    <3> QED BY <1>3, ErrIsError DEF PreparedState, reg
  <2> QED BY <1>1, <1>3, <2>1 DEF FitState
<1> QED BY <1>2, <1>3

LEMMA CandidateMade ==
  ASSUME NEW mapping, DocumentMade(mapping)
  PROVE  DocumentMade(Candidate(mapping))
<1> PICK S : Candidate(mapping) = Only(mapping, S)
  BY DEF Candidate
<1>1. IsList(Only(mapping, S)) /\ Elements(Only(mapping, S)) = Elements(mapping) \cap S
  BY ListOnly DEF DocumentMade
<1>2. IsList(mapping)
  BY DEF DocumentMade
<1> QED BY <1>1, <1>2, DocumentElements

LEMMA PolicyFits ==
  ASSUME NEW mapping, DocumentMade(mapping), NEW fallback, fallback # "", NEW field
  PROVE  Fitting(PolicyFromMapping(mapping, fallback, field))
<1> DEFINE error == HeaderError(mapping, Metadata(mapping))
           name == IF Explicit(mapping) THEN ExplicitName(mapping) ELSE fallback
           state == MappingToState(ProviderRegistry, Candidate(mapping))
           prepared == PreparedState(mapping, state, field)
           made == PolicyFromMapping(mapping, fallback, field)
<1>1. CASE error # "none"
  BY <1>1, ErrIsError DEF PolicyFromMapping, Fitting
<1>2. CASE error = "none" /\ IsError(state)
  BY <1>2 DEF PolicyFromMapping, Fitting, Then
<1>3. CASE error = "none" /\ ~IsError(state) /\ IsError(prepared)
  BY <1>3 DEF PolicyFromMapping, Fitting, Then
<1>4. CASE error = "none" /\ ~IsError(state) /\ ~IsError(prepared)
  <2>1. made = PolicyOf(mapping, name, Metadata(mapping), prepared)
    BY <1>4 DEF PolicyFromMapping, Then
  <2>2. StateMade(state)
    BY <1>4, CandidateMade, MappingToStateMade, NumberedIsMade
  <2> DEFINE first == prepared.states[1]
  <2>3. FitState(first)
    <3> HIDE DEF state
    <3> QED BY <1>4, <2>2, PreparedStateFits
  <2>4. name # ""
    <3>1. Explicit(mapping) => ExplicitName(mapping) # ""
      BY <1>4 DEF HeaderError
    <3> QED BY <3>1
  <2> HIDE DEF name, state
  <2> DEFINE p == [name |-> name,
                   match |-> first.match, device_type |-> first.device_type, fields |-> first.fields,
                   priority |-> IF YHas(mapping, "priority") THEN {YAt(mapping, "priority").num} ELSE {},
                   metadata |-> IF YHas(mapping, "metadata") THEN {Metadata(mapping)} ELSE {}]
  <2> HIDE DEF prepared, made
  <2>5. made.policies = <<p>>
    BY <2>1 DEF PolicyOf
  <2>6. p.name = name /\ p.match = first.match /\ p.fields = first.fields
        /\ p.device_type = first.device_type
    OBVIOUS
  <2> HIDE DEF p, first
  <2>7. CandidateState(p).fields = first.fields /\ CandidateState(p).device_type = first.device_type
    BY <2>6 DEF CandidateState, NewState
  <2>8. Fit(p)
    BY <2>3, <2>4, <2>6, <2>7, SameViolations DEF Fit, FitState, StateMade
  <2> QED BY <2>5, <2>8, OneInList DEF Fitting, made
<1> QED BY <1>1, <1>2, <1>3, <1>4

LEMMA JoinedFits ==
  ASSUME NEW o, NEW more, Fitting(o), Fitting(more)
  PROVE  Fitting(Joined(o, more))
<1> DEFINE names == Names(o.policies) \cap Names(more.policies)
<1>1. CASE ~IsError(o) /\ ~IsError(more) /\ names = {}
  <2>1. Joined(o, more).policies = o.policies \o more.policies
    BY <1>1 DEF Joined
  <2> QED BY <1>1, <2>1, ListTwo DEF Fitting
<1>2. CASE IsError(o) \/ IsError(more) \/ names # {}
  BY <1>2, ErrIsError DEF Joined, Fitting
<1> QED BY <1>1, <1>2

LEMMA NoPoliciesFit == Fitting(NoPolicies)
BY EmptyList DEF Fitting, NoPolicies, Elements

LEMMA JoinedAllFits ==
  ASSUME NEW all, IsList(all), \A i \in DOMAIN all : Fitting(all[i])
  PROVE  Fitting(JoinedAll(all))
<1>1. PICK f : Joins(f, all) /\ JoinedAll(all) = f[Len(all)]
  BY JoinedAllIs
<1>2. Len(all) \in Nat /\ DOMAIN all = 1 .. Len(all)
  BY ListLen
<1> DEFINE Q == {n \in 0 .. Len(all) : Fitting(f[n])}
<1>3. 0 \in Q
  BY <1>1, <1>2, NoPoliciesFit DEF Joins
<1>4. ASSUME NEW n \in 0 .. Len(all) - 1, n \in Q
      PROVE  n + 1 \in Q
  <2>1. n + 1 \in 1 .. Len(all) /\ (n + 1) - 1 = n /\ n + 1 # 0 /\ n + 1 \in 0 .. Len(all)
    BY <1>2
  <2>2. f[n + 1] = Joined(f[n], all[n + 1])
    BY <1>1, <2>1 DEF Joins
  <2> QED BY <1>2, <1>4, <2>1, <2>2, JoinedFits
<1> HIDE DEF Q
<1>5. 0 .. Len(all) \subseteq Q
  BY <1>2, <1>3, <1>4, UpTo
<1>6. Len(all) \in Q
  BY <1>2, <1>5
<1> QED BY <1>1, <1>6 DEF Q

\* A number after a name makes no empty name.
NumberedNamesAreNames ==
  \A entry \in Elements(Directory), n \in Nat : Numbered(entry.stem, n) # ""

LEMMA LoadDocumentFits ==
  ASSUME NumberedNamesAreNames, NEW entry \in Elements(Directory), entry.stem # "",
         NEW file, FileMade(file), NEW field
  PROVE  Fitting(LoadDocument(file, entry.stem, field))
<1> DEFINE o == LoadDocument(file, entry.stem, field)
           all == [i \in DOMAIN file.seq |->
                     PolicyFromMapping(file.seq[i].map, Numbered(entry.stem, i), field)]
<1> DEFINE parsed == ~(Is(file, "unreadable") \/ Is(file, "multi") \/ Is(file, "malformed"))
           mappings == Is(file, "seq") /\ \A i \in DOMAIN file.seq : Is(file.seq[i], "map")
<1>4. /\ parsed /\ Is(file, "map") => o = PolicyFromMapping(file.map, entry.stem, field)
      /\ parsed /\ ~Is(file, "map") /\ mappings => o = JoinedAll(all)
      /\ ~parsed => IsError(o)
      /\ ~Is(file, "map") /\ ~mappings => IsError(o)
  <2>1. parsed /\ Is(file, "map") => o = PolicyFromMapping(file.map, entry.stem, field)
    BY DEF LoadDocument, FileMade, YamlMade, OneTag, Is
  <2>2. parsed /\ ~Is(file, "map") /\ mappings => o = JoinedAll(all)
    BY DEF LoadDocument, FileMade, YamlMade, OneTag, Is
  <2>3. ~parsed => IsError(o)
    BY ErrIsError DEF LoadDocument, FileMade, YamlMade, OneTag, Is
  <2>4. ~Is(file, "map") /\ ~mappings => IsError(o)
    BY ErrIsError DEF LoadDocument, FileMade, YamlMade, OneTag, Is
  <2> QED BY <2>1, <2>2, <2>3, <2>4
<1>2. CASE Is(file, "map") /\ o = PolicyFromMapping(file.map, entry.stem, field)
  <2>1. DocumentMade(file.map)
    BY <1>2 DEF FileMade
  <2> QED BY <1>2, <2>1, PolicyFits
<1>3. CASE /\ Is(file, "seq") /\ \A i \in DOMAIN file.seq : Is(file.seq[i], "map")
           /\ o = JoinedAll(all)
  <2>1. IsList(file.seq) /\ \A i \in DOMAIN file.seq : i \in Nat
    BY <1>3, ListIndices DEF FileMade, YamlMade
  <2>2. \A i \in DOMAIN file.seq : DocumentMade(file.seq[i].map) /\ Numbered(entry.stem, i) # ""
    BY <1>3, <2>1 DEF FileMade, NumberedNamesAreNames
  <2>3. \A i \in DOMAIN file.seq : Fitting(all[i])
    BY <2>2, PolicyFits
  <2>4. all = [i \in DOMAIN file.seq |-> all[i]]
    OBVIOUS
  <2> HIDE DEF all
  <2>5. IsList(all) /\ DOMAIN all = DOMAIN file.seq
    BY <2>1, <2>4, ListMade
  <2> QED BY <1>3, <2>3, <2>5, JoinedAllFits
<1>5. IsError(o) => Fitting(o)
  BY DEF Fitting
<1> HIDE DEF o, all
<1> QED BY <1>2, <1>3, <1>4, <1>5 DEF o

LEMMA LoadPolicyDirFits ==
  ASSUME NumberedNamesAreNames, Filed(disk), NEW field
  PROVE  Fitting(LoadPolicyDir(disk, field))
<1> DEFINE all == [i \in DOMAIN Directory |->
                     IF i \in Loadable(disk)
                     THEN LoadDocument(disk[Directory[i].file], Directory[i].stem, field)
                     ELSE NoPolicies]
<1>1. LoadPolicyDir(disk, field) = JoinedAll(all)
  BY DEF LoadPolicyDir
<1>2. \A i \in DOMAIN Directory : Fitting(all[i])
  <2> SUFFICES ASSUME NEW i \in DOMAIN Directory
               PROVE  Fitting(all[i])
    OBVIOUS
  <2>1. FileMade(disk[Directory[i].file])
    BY DEF Filed, File
  <2>2. Directory[i] \in Elements(Directory) /\ Directory[i].stem # ""
    BY PolicyAssumption DEF Elements
  <2>3. Fitting(LoadDocument(disk[Directory[i].file], Directory[i].stem, field))
    BY <2>1, <2>2, LoadDocumentFits
  <2> QED BY <2>3, NoPoliciesFit
<1>3. all = [i \in DOMAIN Directory |-> all[i]]
  OBVIOUS
<1> HIDE DEF all
<1>4. IsList(all) /\ DOMAIN all = DOMAIN Directory
  BY <1>3, PolicyAssumption, ListMade
<1> QED BY <1>1, <1>2, <1>4, JoinedAllFits

LoadedFit == phase = "loaded" => Fitting(loaded) /\ ~IsError(loaded)

LEMMA LoadedFitStep ==
  ASSUME NumberedNamesAreNames, WellMade, LoadedFit, [Next]_vars
  PROVE  LoadedFit'
<1>1. CASE \E field \in FieldsOfMatch : Load(field)
  <2>1. PICK field : /\ loaded' = LoadPolicyDir(disk, field)
                     /\ phase' = IF IsError(loaded') THEN "failed" ELSE "loaded"
    BY <1>1 DEF Load
  <2> QED BY <2>1, LoadPolicyDirFits DEF WellMade, LoadedFit
<1>2. CASE Insert
  BY <1>2 DEF Insert, LoadedFit
<1>3. CASE UNCHANGED <<phase, loaded>>
  BY <1>3 DEF LoadedFit
<1>4. CASE phase' # "loaded"
  BY <1>4 DEF LoadedFit
<1>5. \/ \E field \in FieldsOfMatch : Load(field)
      \/ Insert \/ UNCHANGED <<phase, loaded>> \/ phase' # "loaded"
  <2>1. ASSUME NEW ext \in Extensions, Extend(ext)
        PROVE  UNCHANGED <<phase, loaded>>
    BY <2>1 DEF Extend, program
  <2>2. ASSUME NEW inventory \in Inventories, Query(inventory)
        PROVE  UNCHANGED <<phase, loaded>>
    BY <2>2 DEF Query, program
  <2>3. ASSUME NEW i \in 1 .. 2, NEW edit \in Edits, Edit(i, edit)
        PROVE  UNCHANGED <<phase, loaded>>
    BY <2>3 DEF Edit, program
  <2>4. ASSUME NEW h \in Handwritten, Handwrite(h.file, h.document)
        PROVE  UNCHANGED <<phase, loaded>>
    BY <2>4 DEF Handwrite, program
  <2>5. ASSUME NEW mode \in {"query", "policy", "candidate"}, Decode(mode)
        PROVE  phase' # "loaded"
    BY <2>5 DEF Decode
  <2>6. ASSUME NEW field \in FieldsOfMatch, PrepareStates(field)
        PROVE  phase' # "loaded"
    BY <2>6 DEF PrepareStates
  <2>7. Observe \/ Save \/ ProduceFromSet \/ Finish => phase' # "loaded"
    BY DEF Observe, Save, ProduceFromSet, Finish
  <2>8. UNCHANGED vars => UNCHANGED <<phase, loaded>>
    BY DEF vars, program
  <2> QED BY <2>1, <2>2, <2>3, <2>4, <2>5, <2>6, <2>7, <2>8 DEF Next
<1> QED BY <1>1, <1>2, <1>3, <1>4, <1>5

LEMMA LoadedFitImplies ==
  ASSUME LoadedFit
  PROVE  LoadedPoliciesProduce
BY FitProduces DEF LoadedFit, Fitting, LoadedPoliciesProduce, ToSet, Elements

\* A policy that was loaded produces, unless there is nothing in it: loading
\* refuses whatever production would (policy_from_mapping and produce).
THEOREM LoadedProduces ==
  ASSUME NumberedNamesAreNames
  PROVE  Spec => []LoadedPoliciesProduce
<1>1. Init => LoadedFit
  BY DEF Init, LoadedFit
<1>2. WellMade /\ LoadedFit /\ [Next]_vars => LoadedFit'
  BY LoadedFitStep
<1>3. LoadedFit => LoadedPoliciesProduce
  BY LoadedFitImplies
<1> QED BY <1>1, <1>2, <1>3, WellMadeHolds, PTL DEF Spec

-----------------------------------------------------------------------------
(* The nodes of a schema. *)

Nodes(f, tops) ==
  f = [d \in 0 .. MaxDepth |->
         IF d = 0 THEN tops ELSE f[d - 1] \cup UNION {NodesBelow(at) : at \in f[d - 1]}]

LEMMA NodesExist ==
  ASSUME NEW tops
  PROVE  \E f : Nodes(f, tops)
<1> DEFINE more(nodes) == nodes \cup UNION {NodesBelow(at) : at \in nodes}
           Upto(f, k) == f = [d \in 0 .. k |-> IF d = 0 THEN tops ELSE more(f[d - 1])]
           Q == {k \in 0 .. MaxDepth : \E f : Upto(f, k)}
<1> HIDE DEF more
<1>1. MaxDepth \in Nat
  BY TreesAssumption
<1>2. 0 \in Q
  <2> DEFINE f == [d \in 0 .. 0 |-> tops]
  <2>1. f = [d \in 0 .. 0 |-> IF d = 0 THEN tops ELSE more(f[d - 1])]
    OBVIOUS
  <2> HIDE DEF f
  <2> QED BY <1>1, <2>1
<1>3. ASSUME NEW k \in 0 .. MaxDepth - 1, k \in Q
      PROVE  k + 1 \in Q
  <2>1. PICK f : Upto(f, k)
    BY <1>3
  <2> DEFINE g == [d \in 0 .. k + 1 |-> IF d = k + 1 THEN more(f[k]) ELSE f[d]]
  <2>2. ASSUME NEW d \in 0 .. k + 1
        PROVE  g[d] = IF d = 0 THEN tops ELSE more(g[d - 1])
    <3>1. CASE d = k + 1
      <4>1. d # 0 /\ d - 1 = k /\ k \in 0 .. k + 1 /\ k # k + 1
        BY <1>1, <3>1
      <4> QED BY <3>1, <4>1
    <3>2. CASE d \in 0 .. k
      <4>1. g[d] = f[d] /\ (d # 0 => g[d - 1] = f[d - 1])
        BY <1>1, <3>2
      <4>2. f[d] = IF d = 0 THEN tops ELSE more(f[d - 1])
        BY <2>1, <3>2
      <4> QED BY <4>1, <4>2
    <3> QED BY <1>1, <3>1, <3>2
  <2>3. g = [d \in 0 .. k + 1 |-> g[d]]
    OBVIOUS
  <2> HIDE DEF g
  <2>4. Upto(g, k + 1)
    BY <2>2, <2>3
  <2> QED BY <1>1, <2>4
<1> HIDE DEF Q
<1>4. 0 .. MaxDepth \subseteq Q
  BY <1>1, <1>2, <1>3, UpTo
<1>5. MaxDepth \in Q
  BY <1>1, <1>4
<1> QED BY <1>5 DEF Q, Nodes, more

\* What holds of the tops and goes down the tree holds of every node; the tops
\* and what is below them are among the nodes.
LEMMA NodesReached ==
  ASSUME NEW tops, NEW R, R = Reached(NodesBelow, tops)
  PROVE  /\ tops \subseteq R
         /\ \A at \in tops : NodesBelow(at) \subseteq R
         /\ \A C : tops \subseteq C /\ (\A at \in C : NodesBelow(at) \cap R \subseteq C)
                   => R \subseteq C
<1> DEFINE f == CHOOSE f : Nodes(f, tops)
<1>1. Nodes(f, tops)
  BY NodesExist
<1>2. R = f[MaxDepth]
  BY DEF Reached, Nodes
<1> HIDE DEF f
<1>3. MaxDepth \in Nat /\ MaxDepth # 0
  BY TreesAssumption
<1>4. f[0] = tops
  BY <1>1, <1>3 DEF Nodes
<1>5. ASSUME NEW d \in 0 .. MaxDepth - 1
      PROVE  f[d + 1] = f[d] \cup UNION {NodesBelow(at) : at \in f[d]}
  <2>1. d + 1 \in 0 .. MaxDepth /\ d + 1 # 0 /\ (d + 1) - 1 = d
    BY <1>3
  <2> QED BY <1>1, <2>1 DEF Nodes
<1>6. ASSUME NEW e \in 0 .. MaxDepth
      PROVE  f[e] \subseteq R
  <2> DEFINE Q == {m \in 0 .. MaxDepth : e <= m => f[e] \subseteq f[m]}
  <2>1. 0 \in Q
    BY <1>3
  <2>2. ASSUME NEW m \in 0 .. MaxDepth - 1, m \in Q
        PROVE  m + 1 \in Q
    <3>1. m + 1 \in 0 .. MaxDepth /\ (e <= m + 1 => e <= m \/ e = m + 1)
      BY <1>3
    <3>2. f[m] \subseteq f[m + 1]
      BY <1>5
    <3> QED BY <2>2, <3>1, <3>2
  <2> HIDE DEF Q
  <2>3. 0 .. MaxDepth \subseteq Q
    BY <1>3, <2>1, <2>2, UpTo
  <2> QED BY <1>2, <1>3, <2>3 DEF Q
<1>7. \A at \in tops : NodesBelow(at) \subseteq R
  <2>1. 0 \in 0 .. MaxDepth - 1 /\ 0 + 1 = 1 /\ 1 \in 0 .. MaxDepth
    BY <1>3
  <2>2. f[1] = f[0] \cup UNION {NodesBelow(at) : at \in f[0]}
    BY <1>5, <2>1
  <2> QED BY <1>4, <1>6, <2>1, <2>2
<1>8. ASSUME NEW C, tops \subseteq C, \A at \in C : NodesBelow(at) \cap R \subseteq C
      PROVE  R \subseteq C
  <2> DEFINE Q == {m \in 0 .. MaxDepth : f[m] \subseteq C}
  <2>1. 0 \in Q
    BY <1>3, <1>4, <1>8
  <2>2. ASSUME NEW m \in 0 .. MaxDepth - 1, m \in Q
        PROVE  m + 1 \in Q
    <3>1. m + 1 \in 0 .. MaxDepth
      BY <1>3
    <3>2. f[m + 1] \subseteq R
      BY <1>6, <3>1
    <3>3. f[m] \subseteq C
      BY <2>2
    <3>4. ASSUME NEW x \in f[m + 1]
          PROVE  x \in C
      <4>1. x \in f[m] \/ \E at \in f[m] : x \in NodesBelow(at)
        BY <1>5
      <4>2. x \in R
        BY <3>2
      <4> QED BY <1>8, <3>3, <4>1, <4>2
    <3> QED BY <3>1, <3>4
  <2> HIDE DEF Q
  <2>3. 0 .. MaxDepth \subseteq Q
    BY <1>3, <2>1, <2>2, UpTo
  <2> QED BY <1>2, <1>3, <2>3 DEF Q
<1>9. tops \subseteq R
  BY <1>3, <1>4, <1>6
<1> QED BY <1>7, <1>8, <1>9

\* A set of nodes that are fit for a registry, each with the nodes below it.
Growing(S) ==
  \A n \in S :
    /\ NodeMade(n) /\ SemanticType(n) # "none"
    /\ \A k \in DOMAIN n.props : n.props[k] \in S
    /\ \A i \in DOMAIN n.items : n.items[i] \in S

LEMMA GrowingIsValid ==
  ASSUME NEW S, Growing(S), NEW root \in S
  PROVE  ValidNode(root)
<1> DEFINE tops == {[path |-> <<>>, node |-> root, field |-> FALSE]}
           R == Reached(NodesBelow, tops)
           C == {at \in R : at.node \in S}
<1>1. SchemaNodes(root) = R
  BY DEF SchemaNodes
<1> HIDE DEF R
<1>2. tops \subseteq R
  BY NodesReached DEF R
<1>3. tops \subseteq C
  BY <1>2
<1>4. \A at \in C : NodesBelow(at) \cap R \subseteq C
  BY DEF NodesBelow, Growing
<1> HIDE DEF C, tops
<1>5. R \subseteq C
  <2>1. \A D : tops \subseteq D /\ (\A at \in D : NodesBelow(at) \cap R \subseteq D) => R \subseteq D
    BY NodesReached DEF R
  <2> QED BY <1>3, <1>4, <2>1
<1> QED BY <1>1, <1>5 DEF ValidNode, C, Growing

\* The nodes of a schema of an extension.
LEMMA ExtensionGrows ==
  ASSUME NEW node, SchemaMade(node), ValidNode(node)
  PROVE  \E S : node \in S /\ Growing(S)
<1> DEFINE top == [path |-> <<>>, node |-> node, field |-> FALSE]
           S == {at.node : at \in SchemaNodes(node)}
<1>1. top \in SchemaNodes(node)
  <2>1. {top} \subseteq Reached(NodesBelow, {top})
    BY NodesReached
  <2> QED BY <2>1 DEF SchemaNodes
<1>2. node \in S
  BY <1>1
<1>3. ASSUME NEW at \in SchemaNodes(node)
      PROVE  /\ NodeMade(at.node) /\ SemanticType(at.node) # "none"
             /\ \A k \in DOMAIN at.node.props : at.node.props[k] \in S
             /\ \A i \in DOMAIN at.node.items : at.node.items[i] \in S
  <2>1. NodesBelow(at) \subseteq SchemaNodes(node)
    BY DEF SchemaMade
  <2>2. \A b \in NodesBelow(at) : b.node \in S
    BY <2>1
  <2> HIDE DEF S
  <2>3. \A k \in DOMAIN at.node.props :
          [path |-> Append(at.path, k), node |-> at.node.props[k], field |-> TRUE] \in NodesBelow(at)
    BY DEF NodesBelow
  <2>4. \A i \in DOMAIN at.node.items :
          [path |-> at.path, node |-> at.node.items[i], field |-> FALSE] \in NodesBelow(at)
    BY DEF NodesBelow
  <2>5. NodeMade(at.node) /\ SemanticType(at.node) # "none"
    BY DEF SchemaMade, ValidNode
  <2>6. \A k \in DOMAIN at.node.props : at.node.props[k] \in S
    BY <2>2, <2>3
  <2>7. \A i \in DOMAIN at.node.items : at.node.items[i] \in S
    BY <2>2, <2>4
  <2> QED BY <2>5, <2>6, <2>7
<1> QED BY <1>2, <1>3 DEF Growing
-----------------------------------------------------------------------------
(* Extending a schema. *)

\* A node with a child is the node but for that.
LEMMA HavingMade ==
  ASSUME NEW parent, NodeMade(parent), NEW name, NEW child
  PROVE  LET n == Having(parent, name, child)
         IN  /\ NodeMade(n) /\ n.items = parent.items
             /\ SemanticType(n) = SemanticType(parent)
             /\ DOMAIN n.props = DOMAIN parent.props \cup {name}
             /\ n.props[name] = child
             /\ \A k \in DOMAIN parent.props : k = name \/ n.props[k] = parent.props[k]
             /\ name \in DOMAIN parent.props /\ child = parent.props[name] => n = parent
<1> DEFINE props == [k \in DOMAIN parent.props \cup {name} |->
                       IF k = name THEN child ELSE parent.props[k]]
           n == [parent EXCEPT !.props = props]
<1>1. Having(parent, name, child) = n
  BY DEF Having
<1>2. /\ props = [k \in DOMAIN props |-> props[k]]
      /\ DOMAIN props = DOMAIN parent.props \cup {name}
      /\ props[name] = child
      /\ \A k \in DOMAIN parent.props : k = name \/ props[k] = parent.props[k]
      /\ name \in DOMAIN parent.props /\ child = parent.props[name] => props = parent.props
  BY DEF NodeMade
<1> HIDE DEF props
<1>3. parent = [f \in DOMAIN Blank |-> parent[f]] /\ DOMAIN parent = DOMAIN Blank
  BY DEF NodeMade
<1>4. {"props", "items", "type", "cidr"} \subseteq DOMAIN Blank
  BY DEF Blank
<1>5. n = [f \in DOMAIN Blank |-> n[f]] /\ n.props = props /\ n.items = parent.items
      /\ n.type = parent.type /\ n.cidr = parent.cidr
  BY <1>3, <1>4
<1>6. props = parent.props => n = parent
  BY <1>3, <1>4
<1> HIDE DEF n
<1>7. NodeMade(n)
  BY <1>2, <1>5 DEF NodeMade
<1>8. SemanticType(n) = SemanticType(parent)
  BY <1>5 DEF SemanticType
<1> QED BY <1>1, <1>2, <1>5, <1>6, <1>7, <1>8

\* The nodes on the way down a path.
Ons(f, root, path) ==
  f = [n \in 0 .. Len(path) - 1 |-> IF n = 0 THEN root ELSE Child(f[n - 1], path[n])]

LEMMA OnsExist ==
  ASSUME NEW root, NEW path, IsList(path), Len(path) # 0
  PROVE  \E f : Ons(f, root, path)
<1> DEFINE last == Len(path) - 1
           Upto(f, k) == f = [n \in 0 .. k |-> IF n = 0 THEN root ELSE Child(f[n - 1], path[n])]
           Q == {k \in 0 .. last : \E f : Upto(f, k)}
<1>1. last \in Nat
  BY ListLen
<1> HIDE DEF last
<1>2. 0 \in Q
  <2> DEFINE f == [n \in 0 .. 0 |-> root]
  <2>1. f = [n \in 0 .. 0 |-> IF n = 0 THEN root ELSE Child(f[n - 1], path[n])]
    OBVIOUS
  <2> HIDE DEF f
  <2> QED BY <1>1, <2>1
<1>3. ASSUME NEW k \in 0 .. last - 1, k \in Q
      PROVE  k + 1 \in Q
  <2>1. PICK f : Upto(f, k)
    BY <1>3
  <2> DEFINE g == [n \in 0 .. k + 1 |-> IF n = k + 1 THEN Child(f[k], path[n]) ELSE f[n]]
  <2>2. ASSUME NEW n \in 0 .. k + 1
        PROVE  g[n] = IF n = 0 THEN root ELSE Child(g[n - 1], path[n])
    <3>1. CASE n = k + 1
      <4>1. n # 0 /\ n - 1 = k /\ k \in 0 .. k + 1 /\ k # k + 1
        BY <1>1, <3>1
      <4> QED BY <3>1, <4>1
    <3>2. CASE n \in 0 .. k
      <4>1. g[n] = f[n] /\ (n # 0 => g[n - 1] = f[n - 1])
        BY <1>1, <3>2
      <4>2. f[n] = IF n = 0 THEN root ELSE Child(f[n - 1], path[n])
        BY <2>1, <3>2
      <4> QED BY <4>1, <4>2
    <3> QED BY <1>1, <3>1, <3>2
  <2>3. g = [n \in 0 .. k + 1 |-> g[n]]
    OBVIOUS
  <2> HIDE DEF g
  <2>4. Upto(g, k + 1)
    BY <2>2, <2>3
  <2> QED BY <1>1, <2>4
<1> HIDE DEF Q
<1>4. 0 .. last \subseteq Q
  BY <1>1, <1>2, <1>3, UpTo
<1>5. last \in Q
  BY <1>1, <1>4
<1> QED BY <1>5 DEF Q, Ons, last

\* What comes of a node on the way, from what comes of the next.
Grafted(on, path, node, n, below) ==
  IF n = Len(path) THEN Placed(on[n - 1], path[n], node)
  ELSE IF on[n].type # "object"
       THEN [error |-> "NotAnObject", root |-> Having(on[n - 1], path[n], on[n])]
  ELSE [error |-> below.error, root |-> Having(on[n - 1], path[n], below.root)]
Grafts(f, on, path, node) ==
  f = [n \in 1 .. Len(path) |-> Grafted(on, path, node, n, f[n + 1])]

LEMMA GraftsExist ==
  ASSUME NEW on, NEW path, IsList(path), Len(path) # 0, NEW node
  PROVE  \E f : Grafts(f, on, path, node)
<1> DEFINE len == Len(path)
           here(n, below) == Grafted(on, path, node, n, below)
           From(f, k) == f = [n \in len - k .. len |-> here(n, f[n + 1])]
           Q == {k \in 0 .. len - 1 : \E f : From(f, k)}
<1>1. len \in Nat /\ len # 0 /\ len - 1 \in Nat
  BY ListLen
<1>2. \A x, y : here(len, x) = here(len, y)
  BY DEF Grafted
<1> HIDE DEF len, here
<1>3. 0 \in Q
  <2> DEFINE f == [n \in len - 0 .. len |-> here(n, {})]
  <2>1. \A n \in len - 0 .. len : n = len
    BY <1>1
  <2>2. f = [n \in len - 0 .. len |-> here(n, f[n + 1])]
    BY <1>2, <2>1
  <2> HIDE DEF f
  <2> QED BY <1>1, <2>2
<1>4. ASSUME NEW k \in 0 .. (len - 1) - 1, k \in Q
      PROVE  k + 1 \in Q
  <2>1. PICK f : From(f, k)
    BY <1>4
  <2> DEFINE low == len - (k + 1)
             g == [n \in low .. len |-> IF n = low THEN here(n, f[n + 1]) ELSE f[n]]
  <2>2. low \in Nat /\ low + 1 = len - k /\ low + 1 <= len
    BY <1>1
  <2> HIDE DEF low
  <2>3. ASSUME NEW n \in low .. len
        PROVE  g[n] = here(n, g[n + 1])
    <3>1. CASE n = low
      <4>1. n + 1 \in low .. len /\ n + 1 # low
        BY <1>1, <2>2, <3>1
      <4>2. g[n + 1] = f[n + 1]
        BY <4>1
      <4> QED BY <3>1, <4>2
    <3>2. CASE n # low
      <4>1. n \in len - k .. len
        BY <1>1, <2>2, <3>2
      <4>2. f[n] = here(n, f[n + 1]) /\ g[n] = f[n]
        BY <2>1, <3>2, <4>1
      <4>3. n = len \/ g[n + 1] = f[n + 1]
        BY <1>1, <2>2, <3>2
      <4> QED BY <1>2, <4>2, <4>3
    <3> QED BY <3>1, <3>2
  <2>4. g = [n \in low .. len |-> g[n]]
    OBVIOUS
  <2> HIDE DEF g
  <2>5. From(g, k + 1)
    BY <2>3, <2>4 DEF low
  <2>6. k + 1 \in 0 .. len - 1
    BY <1>1
  <2> QED BY <2>5, <2>6
<1> HIDE DEF Q
<1>5. 0 .. len - 1 \subseteq Q
  BY <1>1, <1>3, <1>4, UpTo
<1>6. len - 1 \in Q
  BY <1>1, <1>5
<1>7. PICK f : From(f, len - 1)
  BY <1>6 DEF Q
<1>8. len - (len - 1) = 1
  BY <1>1
<1> QED BY <1>7, <1>8 DEF Grafts, len, here

LEMMA GraftIs ==
  ASSUME NEW root, NEW path, IsList(path), Len(path) # 0, NEW node
  PROVE  \E on, f : /\ Ons(on, root, path) /\ Grafts(f, on, path, node)
                    /\ Graft(root, path, node) = f[1]
<1> DEFINE on == CHOOSE f : Ons(f, root, path)
           f == CHOOSE f : Grafts(f, on, path, node)
<1>1. Ons(on, root, path)
  BY OnsExist
<1>2. Grafts(f, on, path, node)
  BY GraftsExist
<1>3. Graft(root, path, node) = f[1]
  BY DEF Graft, Ons, Grafts, Grafted
<1> QED BY <1>1, <1>2, <1>3
LEMMA WritableObjectMade ==
  /\ NodeMade(WritableObject) /\ WritableObject.type = "object"
  /\ SemanticType(WritableObject) = "object"
  /\ DOMAIN WritableObject.props = {} /\ DOMAIN WritableObject.items = {}
<1> DEFINE w == WritableObject
<1>1. w = [Blank EXCEPT !.type = "object", !.writable = TRUE]
  BY DEF WritableObject, Writable
<1>2. /\ {"type", "writable", "props", "items", "cidr"} \subseteq DOMAIN Blank
      /\ ~Blank.cidr /\ Blank.items = <<>> /\ Blank.props = [k \in {} |-> {}]
      /\ Blank = [f \in DOMAIN Blank |-> Blank[f]]
  BY DEF Blank
<1>3. /\ w = [f \in DOMAIN Blank |-> w[f]] /\ w.type = "object" /\ ~w.cidr
      /\ w.items = <<>> /\ w.props = [k \in {} |-> {}]
  BY <1>1, <1>2
<1> HIDE DEF w
<1>4. NodeMade(w) /\ SemanticType(w) = "object" /\ DOMAIN w.props = {} /\ DOMAIN w.items = {}
  BY <1>3 DEF NodeMade, SemanticType
<1> QED BY <1>3, <1>4 DEF w

\* The nodes on the way are of the schema, or new objects.
LEMMA OnsAre ==
  ASSUME NEW S, Growing(S), NEW root \in S, NEW path, IsList(path), Len(path) # 0,
         NEW on, Ons(on, root, path)
  PROVE  \A n \in 0 .. Len(path) - 1 : on[n] \in S \cup {WritableObject}
<1> DEFINE last == Len(path) - 1
           A == S \cup {WritableObject}
           Q == {n \in 0 .. last : on[n] \in A}
<1>1. last \in Nat
  BY ListLen
<1>2. \A n \in 0 .. last : on[n] = IF n = 0 THEN root ELSE Child(on[n - 1], path[n])
  BY DEF Ons
<1>3. \A n \in A : \A k : Child(n, k) \in A
  BY WritableObjectMade DEF Child, Growing
<1> HIDE DEF last, A
<1>4. 0 \in Q
  BY <1>1, <1>2 DEF A
<1>5. ASSUME NEW n \in 0 .. last - 1, n \in Q
      PROVE  n + 1 \in Q
  <2>1. n + 1 \in 0 .. last /\ n + 1 # 0 /\ (n + 1) - 1 = n
    BY <1>1
  <2>2. on[n + 1] = Child(on[n], path[n + 1])
    BY <1>2, <2>1
  <2> QED BY <1>3, <1>5, <2>1, <2>2
<1> HIDE DEF Q
<1>6. 0 .. last \subseteq Q
  BY <1>1, <1>4, <1>5, UpTo
<1> QED BY <1>6 DEF Q, last, A

\* An extension that is refused leaves the root of the fragment as it was: the
\* way ends in an object just made only if there is nothing in the way.
LEMMA GraftRefused ==
  ASSUME NEW S, Growing(S), NEW root \in S, NEW path, IsList(path), Len(path) # 0, NEW node
  PROVE  LET g == Graft(root, path, node)
         IN  /\ g.error \in {"none", "NotAnObject", "Exists"}
             /\ g.error # "none" => g.root = root
<1> PICK on, f : /\ Ons(on, root, path) /\ Grafts(f, on, path, node)
                 /\ Graft(root, path, node) = f[1]
  BY GraftIs
<1> DEFINE len == Len(path)
<1>1. len \in Nat /\ len # 0 /\ len - 1 \in Nat
  BY ListLen
<1>2. ASSUME NEW n \in 1 .. len
      PROVE  /\ NodeMade(on[n - 1]) /\ f[n] = Grafted(on, path, node, n, f[n + 1])
             /\ n # len => on[n] = Child(on[n - 1], path[n])
  <2>1. n - 1 \in 0 .. len - 1 /\ (n # len => n \in 0 .. len - 1 /\ n # 0)
    BY <1>1
  <2>2. \A m \in 0 .. len - 1 : on[m] \in S \cup {WritableObject}
    BY OnsAre
  <2>3. NodeMade(on[n - 1])
    BY <2>1, <2>2, WritableObjectMade DEF Growing
  <2> QED BY <2>1, <2>3 DEF Ons, Grafts
<1> HIDE DEF len
<1> DEFINE P(n) == /\ f[n].error \in {"none", "NotAnObject", "Exists"}
                   /\ DOMAIN on[n - 1].props = {} => f[n].error = "none"
                   /\ f[n].error # "none" => f[n].root = on[n - 1]
           Q == {k \in 0 .. len - 1 : P(len - k)}
<1>3. P(len)
  <2>1. f[len] = Placed(on[len - 1], path[len], node)
    <3>1. len \in 1 .. len
      BY <1>1
    <3>2. f[len] = Grafted(on, path, node, len, f[len + 1])
      BY <1>2, <3>1
    <3> QED BY <3>2 DEF Grafted, len
  <2> QED BY <2>1 DEF Placed
<1>4. ASSUME NEW n \in 1 .. len, n # len, P(n + 1)
      PROVE  P(n)
  <2> DEFINE o == on[n - 1]
             p == path[n]
             c == on[n]
  <2>1. NodeMade(o) /\ c = Child(o, p) /\ f[n] = Grafted(on, path, node, n, f[n + 1])
    BY <1>2, <1>4
  <2>2. n # Len(path) /\ (n + 1) - 1 = n
    BY <1>1, <1>4 DEF len
  <2>3. f[n] = IF c.type # "object" THEN [error |-> "NotAnObject", root |-> Having(o, p, c)]
               ELSE [error |-> f[n + 1].error, root |-> Having(o, p, f[n + 1].root)]
    BY <2>1, <2>2 DEF Grafted
  <2>4. /\ f[n + 1].error \in {"none", "NotAnObject", "Exists"}
        /\ DOMAIN c.props = {} => f[n + 1].error = "none"
        /\ f[n + 1].error # "none" => f[n + 1].root = c
    BY <1>4, <2>2
  <2> HIDE DEF o, p, c
  <2>5. CASE p \in DOMAIN o.props
    <3>1. c = o.props[p]
      BY <2>1, <2>5 DEF Child
    <3>2. Having(o, p, c) = o
      BY <2>1, <2>5, <3>1, HavingMade
    <3>3. f[n].error \in {"none", "NotAnObject", "Exists"} /\ (f[n].error # "none" => f[n].root = o)
      BY <2>3, <2>4, <3>2
    <3> QED BY <2>5, <3>3 DEF o
  <2>6. CASE p \notin DOMAIN o.props
    <3>1. c = WritableObject
      BY <2>1, <2>6 DEF Child
    <3>2. f[n + 1].error = "none" /\ c.type = "object"
      BY <2>4, <3>1, WritableObjectMade
    <3>3. f[n].error = "none"
      BY <2>3, <3>2
    <3> QED BY <3>3 DEF o
  <2> QED BY <2>5, <2>6
<1> HIDE DEF P
<1>5. 0 \in Q
  BY <1>1, <1>3
<1>6. ASSUME NEW k \in 0 .. (len - 1) - 1, k \in Q
      PROVE  k + 1 \in Q
  <2>1. len - (k + 1) \in 1 .. len /\ len - (k + 1) # len /\ (len - (k + 1)) + 1 = len - k
        /\ k + 1 \in 0 .. len - 1
    BY <1>1
  <2> QED BY <1>4, <1>6, <2>1
<1> HIDE DEF Q
<1>7. 0 .. len - 1 \subseteq Q
  BY <1>1, <1>5, <1>6, UpTo
<1>8. len - 1 \in Q /\ len - (len - 1) = 1
  BY <1>1, <1>7
<1>9. P(1)
  BY <1>8 DEF Q
<1>10. on[1 - 1] = root
  BY <1>1 DEF Ons, len
<1> QED BY <1>9, <1>10 DEF P

\* What an extension leaves is a schema again, and the root is the root but for
\* the property that the path begins with.
LEMMA GraftGrows ==
  ASSUME NEW S, Growing(S), NEW root \in S, NEW path, IsList(path), Len(path) # 0,
         NEW T, Growing(T), NEW node \in T
  PROVE  LET new == Graft(root, path, node).root
         IN  /\ \E U : new \in U /\ Growing(U)
             /\ new.items = root.items
             /\ DOMAIN new.props \subseteq DOMAIN root.props \cup {path[1]}
<1> PICK on, f : /\ Ons(on, root, path) /\ Grafts(f, on, path, node)
                 /\ Graft(root, path, node) = f[1]
  BY GraftIs
<1> DEFINE len == Len(path)
           A == S \cup {WritableObject} \cup T
           Roots == {f[n].root : n \in 1 .. len}
           U == A \cup Roots
<1>1. len \in Nat /\ len # 0
  BY ListLen
<1>2. Growing(A)
  BY WritableObjectMade DEF Growing
<1>3. ASSUME NEW n \in 1 .. len
      PROVE  /\ on[n - 1] \in A
             /\ \/ f[n].root = on[n - 1]
                \/ \E c \in U : f[n].root = Having(on[n - 1], path[n], c)
  <2>1. n - 1 \in 0 .. len - 1 /\ (n # len => n \in 0 .. len - 1 /\ n + 1 \in 1 .. len)
    BY <1>1
  <2>2. on[n - 1] \in A /\ (n # len => on[n] \in A)
    BY <2>1, OnsAre
  <2>3. n # len => f[n + 1].root \in Roots
    BY <2>1
  <2>4. f[n] = Grafted(on, path, node, n, f[n + 1])
    BY DEF Grafts
  <2>5. node \in A
    OBVIOUS
  <2> HIDE DEF A, Roots
  <2> QED BY <2>2, <2>3, <2>4, <2>5 DEF Grafted, Placed
<1>4. ASSUME NEW n \in 1 .. len
      PROVE  LET r == f[n].root
                 o == on[n - 1]
             IN  /\ NodeMade(r) /\ SemanticType(r) # "none" /\ r.items = o.items
                 /\ DOMAIN r.props \subseteq DOMAIN o.props \cup {path[n]}
                 /\ \A k \in DOMAIN r.props : r.props[k] \in U
                 /\ \A i \in DOMAIN r.items : r.items[i] \in U
  <2> DEFINE o == on[n - 1]
             r == f[n].root
  <2>1. /\ NodeMade(o) /\ SemanticType(o) # "none"
        /\ \A k \in DOMAIN o.props : o.props[k] \in A
        /\ \A i \in DOMAIN o.items : o.items[i] \in A
    BY <1>2, <1>3 DEF Growing
  <2>2. r = o \/ \E c \in U : r = Having(o, path[n], c)
    BY <1>3
  <2>3. A \subseteq U
    OBVIOUS
  <2> HIDE DEF o, r, A, U
  <2>4. CASE r = o
    BY <2>1, <2>3, <2>4 DEF o, r
  <2>5. CASE \E c \in U : r = Having(o, path[n], c)
    <3>1. PICK c \in U : r = Having(o, path[n], c)
      BY <2>5
    <3>2. /\ NodeMade(r) /\ r.items = o.items /\ SemanticType(r) = SemanticType(o)
          /\ DOMAIN r.props = DOMAIN o.props \cup {path[n]}
          /\ r.props[path[n]] = c
          /\ \A k \in DOMAIN o.props : k = path[n] \/ r.props[k] = o.props[k]
      BY <2>1, <3>1, HavingMade
    <3>3. \A k \in DOMAIN r.props : r.props[k] \in U
      BY <2>1, <2>3, <3>1, <3>2
    <3>4. \A i \in DOMAIN r.items : r.items[i] \in U
      BY <2>1, <2>3, <3>2
    <3> QED BY <2>1, <3>2, <3>3, <3>4 DEF o, r
  <2> QED BY <2>2, <2>4, <2>5
<1>5. Growing(U)
  <2>1. \A m \in Roots : \E n \in 1 .. len : m = f[n].root
    OBVIOUS
  <2>2. A \subseteq U /\ \A m \in U : m \in A \/ m \in Roots
    OBVIOUS
  <2> HIDE DEF A, Roots, U
  <2> QED BY <1>2, <1>4, <2>1, <2>2 DEF Growing
<1>6. f[1].root \in U /\ on[1 - 1] = root /\ 1 \in 1 .. len
  BY <1>1 DEF Ons
<1> HIDE DEF U, len
<1> QED BY <1>4, <1>5, <1>6
-----------------------------------------------------------------------------
(* The schemas the program brings. *)

\* A node with nothing below it.
Leaf(n) ==
  /\ NodeMade(n) /\ SemanticType(n) # "none"
  /\ DOMAIN n.props = {} /\ DOMAIN n.items = {}

LEMMA BlankIs ==
  /\ DOMAIN Blank = {"type", "cidr", "writable", "min", "max", "enum", "props", "required",
                     "items", "open", "implied"}
  /\ ~Blank.cidr /\ Blank.items = <<>> /\ Blank.props = [k \in {} |-> {}]
  /\ ~Blank.writable /\ Blank.required = <<>>
  /\ Blank = [f \in DOMAIN Blank |-> Blank[f]]
BY DEF Blank

LEMMA LeavesMade ==
  ASSUME NEW type, type # "none"
  PROVE  Leaf(ReadOnly(type)) /\ Leaf(Writable(type))
<1> DEFINE r == [Blank EXCEPT !.type = type]
           w == [Blank EXCEPT !.type = type, !.writable = TRUE]
<1>1. ReadOnly(type) = r /\ Writable(type) = w
  BY DEF ReadOnly, Writable
<1>2. /\ r = [f \in DOMAIN Blank |-> r[f]] /\ r.type = type /\ ~r.cidr
      /\ r.items = <<>> /\ r.props = [k \in {} |-> {}]
  BY BlankIs
<1>3. /\ w = [f \in DOMAIN Blank |-> w[f]] /\ w.type = type /\ ~w.cidr
      /\ w.items = <<>> /\ w.props = [k \in {} |-> {}]
  BY BlankIs
<1> HIDE DEF r, w
<1>4. Leaf(r)
  BY <1>2 DEF Leaf, NodeMade, SemanticType
<1>5. Leaf(w)
  BY <1>3 DEF Leaf, NodeMade, SemanticType
<1> QED BY <1>1, <1>4, <1>5

LEMMA LeafBounded ==
  ASSUME NEW n, Leaf(n), NEW x, NEW m,
         \/ m = [n EXCEPT !.min = x]
         \/ m = [n EXCEPT !.max = x]
         \/ m = [n EXCEPT !.enum = x]
  PROVE  Leaf(m)
<1>1. n = [f \in DOMAIN Blank |-> n[f]]
  BY DEF Leaf, NodeMade
<1>2. /\ m = [f \in DOMAIN Blank |-> m[f]] /\ m.type = n.type /\ m.cidr = n.cidr
      /\ m.props = n.props /\ m.items = n.items
  BY <1>1, BlankIs
<1> QED BY <1>2 DEF Leaf, NodeMade, SemanticType

LEMMA CidrLeaf == Leaf([Writable("string") EXCEPT !.cidr = TRUE])
<1> DEFINE n == Writable("string")
           m == [n EXCEPT !.cidr = TRUE]
<1>1. n.type = "string"
  BY BlankIs DEF Writable
<1>2. Leaf(n)
  BY LeavesMade
<1>3. n = [f \in DOMAIN Blank |-> n[f]]
  BY <1>2 DEF Leaf, NodeMade
<1> HIDE DEF n
<1>4. /\ m = [f \in DOMAIN Blank |-> m[f]] /\ m.type = "string" /\ m.cidr
      /\ m.props = n.props /\ m.items = n.items
  BY <1>1, <1>3, BlankIs
<1> HIDE DEF m
<1>5. SemanticType(m) = "ip-network"
  BY <1>4 DEF SemanticType
<1>6. Leaf(m)
  BY <1>2, <1>4, <1>5 DEF Leaf, NodeMade
<1> QED BY <1>6 DEF m, n

LEMMA ObjectMade ==
  ASSUME NEW props, props = [k \in DOMAIN props |-> props[k]]
  PROVE  LET o == ObjectOf(props)
         IN  /\ NodeMade(o) /\ SemanticType(o) = "object" /\ o.props = props
             /\ o.items = <<>> /\ o.required = <<>> /\ DOMAIN o.items = {}
<1> DEFINE o == [Blank EXCEPT !.type = "object", !.props = props]
<1>1. ObjectOf(props) = o
  BY DEF ObjectOf
<1>2. /\ o = [f \in DOMAIN Blank |-> o[f]] /\ o.type = "object" /\ ~o.cidr
      /\ o.items = <<>> /\ o.props = props /\ o.required = <<>>
  BY BlankIs
<1> HIDE DEF o
<1>3. NodeMade(o) /\ SemanticType(o) = "object"
  BY <1>2 DEF NodeMade, SemanticType
<1> QED BY <1>1, <1>2, <1>3

\* An object of leaves is a schema.
LEMMA LeavesGrow ==
  ASSUME NEW n, NodeMade(n), SemanticType(n) # "none", DOMAIN n.items = {},
         \A k \in DOMAIN n.props : Leaf(n.props[k])
  PROVE  \E S : n \in S /\ Growing(S)
<1> DEFINE S == {n} \cup {n.props[k] : k \in DOMAIN n.props}
<1>1. \A m \in S : m = n \/ Leaf(m)
  OBVIOUS
<1>2. n \in S /\ \A k \in DOMAIN n.props : n.props[k] \in S
  OBVIOUS
<1> HIDE DEF S
<1>3. Growing(S)
  BY <1>1, <1>2 DEF Growing, Leaf
<1> QED BY <1>2, <1>3

LEMMA BaseIs ==
  /\ DOMAIN Base.props = {"type", "name", "mac", "driver", "carrier", "enabled", "mtu"}
  /\ \A k \in DOMAIN Base.props : Leaf(Base.props[k])
  /\ NodeMade(Base) /\ SemanticType(Base) = "object" /\ Base.items = <<>> /\ Base.required = <<>>
<1> DEFINE mtu == [Writable("integer") EXCEPT !.min = {68}, !.max = {65535}]
           props == [type |-> ReadOnly("string"), name |-> ReadOnly("string"),
                     mac |-> ReadOnly("string"), driver |-> ReadOnly("string"),
                     carrier |-> ReadOnly("boolean"), enabled |-> Writable("boolean"),
                     mtu |-> mtu]
<1>1. Leaf(mtu)
  <2> DEFINE m == [Writable("integer") EXCEPT !.min = {68}]
  <2>1. mtu = [m EXCEPT !.max = {65535}]
    OBVIOUS
  <2>2. Leaf(m)
    BY LeavesMade, LeafBounded
  <2> HIDE DEF m, mtu
  <2> QED BY <2>1, <2>2, LeafBounded
<1>2. Leaf(ReadOnly("string")) /\ Leaf(ReadOnly("boolean")) /\ Leaf(Writable("boolean"))
  BY LeavesMade
<1>3. Base = ObjectOf(props)
  BY DEF Base
<1> HIDE DEF mtu
<1>4. /\ DOMAIN props = {"type", "name", "mac", "driver", "carrier", "enabled", "mtu"}
      /\ props = [k \in DOMAIN props |-> props[k]]
      /\ \A k \in DOMAIN props : props[k] \in {ReadOnly("string"), ReadOnly("boolean"),
                                               Writable("boolean"), mtu}
  OBVIOUS
<1> HIDE DEF props
<1> QED BY <1>1, <1>2, <1>3, <1>4, ObjectMade

LEMMA EthernetGrows == \E S : Ethernet \in S /\ Growing(S)
<1> DEFINE duplex == [ReadOnly("string") EXCEPT !.enum = {"full", "half", "unknown"}]
           props == [speed |-> ReadOnly("integer"), autoneg |-> ReadOnly("boolean"),
                     duplex |-> duplex]
           o == ObjectOf(props)
           e == [o EXCEPT !.implied = "ethernet"]
<1>1. Leaf(duplex) /\ Leaf(ReadOnly("integer")) /\ Leaf(ReadOnly("boolean"))
  BY LeavesMade, LeafBounded
<1>2. Ethernet = e
  BY DEF Ethernet
<1> HIDE DEF duplex
<1>3. /\ props = [k \in DOMAIN props |-> props[k]]
      /\ \A k \in DOMAIN props : Leaf(props[k])
  BY <1>1
<1> HIDE DEF props
<1>4. NodeMade(o) /\ SemanticType(o) = "object" /\ o.props = props /\ DOMAIN o.items = {}
  BY <1>3, ObjectMade
<1> HIDE DEF o
<1>5. /\ e = [f \in DOMAIN Blank |-> e[f]] /\ e.props = props /\ e.items = o.items
      /\ e.type = o.type /\ e.cidr = o.cidr
  BY <1>4, BlankIs DEF NodeMade
<1> HIDE DEF e
<1>6. NodeMade(e) /\ SemanticType(e) = "object"
  BY <1>3, <1>4, <1>5 DEF NodeMade, SemanticType
<1> QED BY <1>2, <1>3, <1>4, <1>5, <1>6, LeavesGrow

LEMMA Ipv4Grows == \E S : Ipv4 \in S /\ Growing(S)
<1> DEFINE ip == [Writable("string") EXCEPT !.cidr = TRUE]
           lft == Writable("integer")
           parts == [ip |-> ip, valid_lft |-> lft, preferred_lft |-> lft]
           o == ObjectOf(parts)
           item == [o EXCEPT !.required = <<"ip">>]
           w == Writable("array")
           addresses == [w EXCEPT !.items = <<item>>]
           props == [addresses |-> addresses]
           S == {Ipv4, addresses, item, ip, lft}
<1>1. Leaf(ip) /\ Leaf(lft)
  BY CidrLeaf, LeavesMade
<1>2. Ipv4 = ObjectOf(props)
  BY DEF Ipv4
<1>3. Leaf(w) /\ SemanticType(w) = "array"
  BY LeavesMade, BlankIs DEF Writable, SemanticType
<1> HIDE DEF ip, lft, w
<1>4. /\ parts = [k \in DOMAIN parts |-> parts[k]]
      /\ \A k \in DOMAIN parts : parts[k] \in {ip, lft}
  OBVIOUS
<1> HIDE DEF parts
<1>5. NodeMade(o) /\ SemanticType(o) = "object" /\ o.props = parts /\ DOMAIN o.items = {}
  BY <1>4, ObjectMade
<1> HIDE DEF o
<1>6. NodeMade(item) /\ SemanticType(item) = "object" /\ item.props = parts /\ DOMAIN item.items = {}
  <2>1. /\ item = [f \in DOMAIN Blank |-> item[f]] /\ item.props = o.props
        /\ item.items = o.items /\ item.type = o.type /\ item.cidr = o.cidr
    BY <1>5, BlankIs DEF NodeMade
  <2> HIDE DEF item
  <2> QED BY <1>4, <1>5, <2>1 DEF NodeMade, SemanticType
<1> HIDE DEF item
<1>7. /\ NodeMade(addresses) /\ SemanticType(addresses) = "array"
      /\ DOMAIN addresses.props = {} /\ addresses.items = <<item>>
  <2>1. /\ addresses = [f \in DOMAIN Blank |-> addresses[f]] /\ addresses.props = w.props
        /\ addresses.items = <<item>> /\ addresses.type = w.type /\ addresses.cidr = w.cidr
    BY <1>3, BlankIs DEF Leaf, NodeMade
  <2> HIDE DEF addresses
  <2> QED BY <1>3, <2>1 DEF Leaf, NodeMade, SemanticType
<1> HIDE DEF addresses
<1>8. props = [k \in DOMAIN props |-> props[k]] /\ \A k \in DOMAIN props : props[k] = addresses
  OBVIOUS
<1> HIDE DEF props
<1>9. NodeMade(Ipv4) /\ SemanticType(Ipv4) = "object" /\ Ipv4.props = props /\ DOMAIN Ipv4.items = {}
  BY <1>2, <1>8, ObjectMade
<1>10. \A i \in DOMAIN <<item>> : <<item>>[i] = item
  OBVIOUS
<1>11. Growing(S)
  BY <1>1, <1>4, <1>6, <1>7, <1>8, <1>9, <1>10 DEF Growing, Leaf
<1> QED BY <1>11
-----------------------------------------------------------------------------
(* The registry. *)

\* What a registry is, whatever was added: three fragments, each a schema with
\* the flat map of its fields, and no property of the base fragment has the
\* name of another.
FragmentMade(f) ==
  /\ f = [name |-> f.name, trigger |-> f.trigger, root |-> f.root,
          fields |-> DerivedFields(f.root)]
  /\ \E S : f.root \in S /\ Growing(S)
RegistryMade(reg) ==
  /\ reg = [i \in {1, 2, 3} |-> reg[i]]
  /\ \A i \in {1, 2, 3} : FragmentMade(reg[i])
  /\ reg[1].name = "base" /\ reg[1].trigger = ""
  /\ reg[2].name = "ipv4" /\ reg[2].trigger = "ipv4"
  /\ reg[3].name = "ethernet" /\ reg[3].trigger = "ethernet"
  /\ DOMAIN reg[1].root.items = {}
  /\ DOMAIN reg[1].root.props \cap {"ipv4", "ethernet"} = {}

LEMMA FragmentIs ==
  ASSUME NEW name, NEW trigger, NEW root, NEW S, root \in S, Growing(S),
         NEW f, f = Fragment(name, trigger, root)
  PROVE  FragmentMade(f) /\ f.name = name /\ f.trigger = trigger /\ f.root = root
<1> DEFINE fields == DerivedFields(root)
<1>1. f = [name |-> name, trigger |-> trigger, root |-> root, fields |-> fields]
  BY DEF Fragment
<1> HIDE DEF fields
<1>2. f.name = name /\ f.trigger = trigger /\ f.root = root /\ f.fields = fields
  BY <1>1
<1> QED BY <1>1, <1>2 DEF FragmentMade, fields

LEMMA EmbeddedMade == RegistryMade(EmbeddedRegistry)
<1> DEFINE r == EmbeddedRegistry
<1>1. /\ r = [i \in 1 .. 3 |-> r[i]]
      /\ r[1] = Fragment("base", "", Base)
      /\ r[2] = Fragment("ipv4", "ipv4", Ipv4)
      /\ r[3] = Fragment("ethernet", "ethernet", Ethernet)
  BY DEF EmbeddedRegistry
<1>2. \E S : Base \in S /\ Growing(S)
  BY BaseIs, LeavesGrow
<1> HIDE DEF r
<1>3. 1 .. 3 = {1, 2, 3}
  OBVIOUS
<1>4. r = [i \in {1, 2, 3} |-> r[i]]
  BY <1>1, <1>3
<1>6. FragmentMade(r[1]) /\ r[1].name = "base" /\ r[1].trigger = "" /\ r[1].root = Base
  <2> DEFINE f == r[1]
  <2>1. PICK S : Base \in S /\ Growing(S)
    BY <1>2
  <2>2. f = Fragment("base", "", Base)
    BY <1>1
  <2> HIDE DEF f
  <2> DEFINE root == Base
             trigger == ""
  <2>3. root \in S /\ f = Fragment("base", trigger, root)
    BY <2>1, <2>2
  <2> HIDE DEF root, trigger
  <2>4. FragmentMade(f) /\ f.name = "base" /\ f.trigger = trigger /\ f.root = root
    BY <2>1, <2>3, FragmentIs
  <2> QED BY <2>4 DEF f, root, trigger
<1>7. FragmentMade(r[2]) /\ r[2].name = "ipv4" /\ r[2].trigger = "ipv4"
  <2> DEFINE f == r[2]
  <2>1. PICK S : Ipv4 \in S /\ Growing(S)
    BY Ipv4Grows
  <2>2. f = Fragment("ipv4", "ipv4", Ipv4)
    BY <1>1
  <2> HIDE DEF f
  <2>3. FragmentMade(f) /\ f.name = "ipv4" /\ f.trigger = "ipv4" /\ f.root = Ipv4
    BY <2>1, <2>2, FragmentIs
  <2> QED BY <2>3 DEF f
<1>8. FragmentMade(r[3]) /\ r[3].name = "ethernet" /\ r[3].trigger = "ethernet"
  <2> DEFINE f == r[3]
  <2>1. PICK S : Ethernet \in S /\ Growing(S)
    BY EthernetGrows
  <2>2. f = Fragment("ethernet", "ethernet", Ethernet)
    BY <1>1
  <2> HIDE DEF f
  <2>3. FragmentMade(f) /\ f.name = "ethernet" /\ f.trigger = "ethernet" /\ f.root = Ethernet
    BY <2>1, <2>2, FragmentIs
  <2> QED BY <2>3 DEF f
<1>9. DOMAIN r[1].root.items = {} /\ DOMAIN r[1].root.props \cap {"ipv4", "ethernet"} = {}
  <2>1. DOMAIN Base.items = {}
    BY BaseIs, EmptyList
  <2>2. "ipv4" \notin DOMAIN Base.props /\ "ethernet" \notin DOMAIN Base.props
    BY BaseIs
  <2>3. DOMAIN Base.props \cap {"ipv4", "ethernet"} = {}
    BY <2>2
  <2> QED BY <1>6, <2>1, <2>3
<1>10. \A i \in {1, 2, 3} : FragmentMade(r[i])
  BY <1>6, <1>7, <1>8
<1>11. RegistryMade(r)
  BY <1>4, <1>6, <1>7, <1>8, <1>9, <1>10 DEF RegistryMade
<1> QED BY <1>11 DEF r

LEMMA TriggersAre ==
  ASSUME NEW reg, RegistryMade(reg)
  PROVE  /\ Triggers(reg) = {"ipv4", "ethernet"} /\ DOMAIN reg = {1, 2, 3}
         /\ FragmentNamed(reg, "base") = {1} /\ BaseRoot(reg) = reg[1].root
         /\ \A name : \A i \in FragmentNamed(reg, name) : i \in {1, 2, 3} /\ reg[i].name = name
<1>1. DOMAIN reg = {1, 2, 3}
  BY DEF RegistryMade
<1>2. /\ reg[1].name = "base" /\ reg[1].trigger = ""
      /\ reg[2].name = "ipv4" /\ reg[2].trigger = "ipv4"
      /\ reg[3].name = "ethernet" /\ reg[3].trigger = "ethernet"
  BY DEF RegistryMade
<1>3. Triggers(reg) = {"ipv4", "ethernet"}
  BY <1>1, <1>2 DEF Triggers
<1>4. (CHOOSE i \in DOMAIN reg : reg[i].trigger = "") = 1
  BY <1>1, <1>2
<1>5. BaseRoot(reg) = reg[1].root
  BY <1>4 DEF BaseRoot
<1>6. FragmentNamed(reg, "base") = {1}
  BY <1>1, <1>2 DEF FragmentNamed
<1> QED BY <1>1, <1>3, <1>5, <1>6 DEF FragmentNamed

LEMMA ListHead ==
  ASSUME NEW s, IsList(s), s # <<>>
  PROVE  Len(s) # 0 /\ Head(s) = s[1]
<1> DEFINE T == {s[i] : i \in DOMAIN s}
<1>1. s \in Seq(T)
  BY DEF IsList
<1> HIDE DEF T
<1> QED BY <1>1

\* Adding a node keeps a registry one, and a refusal changes nothing of it.
LEMMA AddMade ==
  ASSUME NEW reg, RegistryMade(reg), NEW fragment, NEW path, IsList(path), NEW node,
         ValidNode(node) => \E T : node \in T /\ Growing(T)
  PROVE  LET added == AddSchemaNode(reg, fragment, path, node)
         IN  /\ RegistryMade(added.registry)
             /\ added.error # "none" => added.registry = reg
             /\ added.error \in {"none", "Malformed", "EmptyPath", "Collision",
                                 "UnknownFragment", "NotAnObject", "Exists"}
<1> DEFINE error == AddError(reg, fragment, path, node)
           i == CHOOSE i \in FragmentNamed(reg, fragment) : TRUE
           root == reg[i].root
           g == Graft(root, path, node)
           rooted == [reg EXCEPT ![i].root = g.root]
           fielded == [rooted EXCEPT ![i].fields = DerivedFields(g.root)]
           added == AddSchemaNode(reg, fragment, path, node)
<1>1. added = IF error # "none" THEN [error |-> error, registry |-> reg]
              ELSE IF g.error # "none" THEN [error |-> g.error, registry |-> rooted]
              ELSE [error |-> "none", registry |-> fielded]
  BY DEF AddSchemaNode
<1>2. error \in {"none", "Malformed", "EmptyPath", "Collision", "UnknownFragment"}
  BY DEF AddError
<1>3. CASE error # "none"
  <2> HIDE DEF error
  <2>1. added = [error |-> error, registry |-> reg]
    BY <1>1, <1>3
  <2> HIDE DEF added
  <2>2. added.error = error /\ added.registry = reg
    BY <2>1
  <2> QED BY <1>2, <2>2 DEF added
<1>4. CASE error = "none"
  <2>1. /\ FragmentNamed(reg, fragment) # {} /\ path # <<>> /\ ValidNode(node)
        /\ ~(/\ \E j \in FragmentNamed(reg, fragment) : reg[j].trigger = ""
             /\ Head(path) \in Triggers(reg))
    BY <1>4 DEF AddError
  <2>2. i \in FragmentNamed(reg, fragment)
    BY <2>1
  <2>3. i \in {1, 2, 3} /\ (i = 1 => Head(path) \notin {"ipv4", "ethernet"})
    BY <2>1, <2>2, TriggersAre DEF RegistryMade
  <2>4. Len(path) # 0 /\ Head(path) = path[1]
    BY <2>1, ListHead
  <2> HIDE DEF i, error
  <2>5. FragmentMade(reg[i]) /\ reg = [j \in {1, 2, 3} |-> reg[j]]
    BY <2>3 DEF RegistryMade
  <2>6. PICK S : root \in S /\ Growing(S)
    BY <2>5 DEF FragmentMade
  <2>7. PICK T : node \in T /\ Growing(T)
    BY <2>1
  <2>8. /\ g.error \in {"none", "NotAnObject", "Exists"}
        /\ g.error # "none" => g.root = root
    BY <2>4, <2>6, GraftRefused
  <2>9. /\ \E U : g.root \in U /\ Growing(U)
        /\ g.root.items = root.items
        /\ DOMAIN g.root.props \subseteq DOMAIN root.props \cup {path[1]}
    BY <2>4, <2>6, <2>7, GraftGrows
  <2> HIDE DEF g
  <2> DEFINE f == reg[i]
             new(fields) == [name |-> f.name, trigger |-> f.trigger, root |-> g.root,
                             fields |-> fields]
  <2>10. f = [name |-> f.name, trigger |-> f.trigger, root |-> root,
              fields |-> DerivedFields(root)]
    BY <2>5 DEF FragmentMade
  <2>11. rooted = [j \in {1, 2, 3} |-> IF j = i THEN new(DerivedFields(root)) ELSE reg[j]]
    <3>1. [f EXCEPT !.root = g.root] = new(DerivedFields(root))
      BY <2>10
    <3> HIDE DEF f, new
    <3>2. rooted = [reg EXCEPT ![i] = new(DerivedFields(root))]
      BY <3>1 DEF f
    <3> QED BY <2>5, <3>2
  <2>12. g.root = root => rooted = reg
    <3>1. g.root = root => new(DerivedFields(root)) = reg[i]
      BY <2>10
    <3> HIDE DEF f, new, rooted
    <3> QED BY <2>5, <2>11, <3>1
  <2>13. RegistryMade(fielded)
    <3>1. fielded = [j \in {1, 2, 3} |-> IF j = i THEN new(DerivedFields(g.root)) ELSE reg[j]]
      <4>1. rooted[i] = new(DerivedFields(root)) /\ DOMAIN rooted = {1, 2, 3}
        BY <2>3, <2>11
      <4>2. [new(DerivedFields(root)) EXCEPT !.fields = DerivedFields(g.root)]
              = new(DerivedFields(g.root))
        OBVIOUS
      <4> HIDE DEF rooted, new
      <4>3. fielded = [rooted EXCEPT ![i] = new(DerivedFields(g.root))]
        BY <4>1, <4>2
      <4> QED BY <2>11, <4>1, <4>3
    <3> HIDE DEF fielded
    <3>2. /\ FragmentMade(new(DerivedFields(g.root)))
          /\ new(DerivedFields(g.root)).root = g.root
          /\ new(DerivedFields(g.root)).name = reg[i].name
          /\ new(DerivedFields(g.root)).trigger = reg[i].trigger
      BY <2>9 DEF FragmentMade
    <3> HIDE DEF new, f, rooted
    <3>3. ASSUME NEW j \in {1, 2, 3}
          PROVE  /\ fielded[j].name = reg[j].name /\ fielded[j].trigger = reg[j].trigger
                 /\ fielded[j].root = (IF j = i THEN g.root ELSE reg[j].root)
                 /\ FragmentMade(fielded[j])
      BY <3>1, <3>2 DEF RegistryMade
    <3>4. fielded = [j \in {1, 2, 3} |-> fielded[j]]
      BY <3>1
    <3>5. /\ DOMAIN reg[1].root.props \cap {"ipv4", "ethernet"} = {}
          /\ DOMAIN reg[1].root.items = {}
      BY DEF RegistryMade
    <3>6. fielded[1].root = (IF 1 = i THEN g.root ELSE reg[1].root)
      BY <3>3
    <3>7. DOMAIN fielded[1].root.items = {}
      BY <2>9, <3>5, <3>6
    <3>8. DOMAIN fielded[1].root.props \cap {"ipv4", "ethernet"} = {}
      BY <2>3, <2>4, <2>9, <3>5, <3>6
    <3> QED BY <3>3, <3>4, <3>7, <3>8 DEF RegistryMade
  <2> HIDE DEF rooted, fielded
  <2>14. \/ added.error = g.error /\ g.error # "none" /\ added.registry = rooted
         \/ added.error = "none" /\ added.registry = fielded
    <3>1. added = IF g.error # "none" THEN [error |-> g.error, registry |-> rooted]
                  ELSE [error |-> "none", registry |-> fielded]
      BY <1>1, <1>4
    <3> HIDE DEF added
    <3> QED BY <3>1
  <2> HIDE DEF added
  <2>15. /\ RegistryMade(added.registry)
         /\ added.error # "none" => added.registry = reg
         /\ added.error \in {"none", "NotAnObject", "Exists"}
    BY <2>8, <2>12, <2>13, <2>14
  <2> QED BY <2>15 DEF added
<1> QED BY <1>3, <1>4
LEMMA RegisteredMade ==
  ASSUME NEW reg, RegistryMade(reg), NEW p, NEW S, p.schema \in S, Growing(S)
  PROVE  RegistryMade(Registered(reg, p))
<1>1. IsList(<<p.key>>) /\ IsList(<<p.domain, p.key>>)
  BY OneInList, TwoInList
<1> DEFINE tree == p.schema
           domain == p.domain
           one == <<p.key>>
           two == <<p.domain, p.key>>
<1>2. tree \in S
  OBVIOUS
<1>3. Registered(reg, p) = IF domain = "ipv4" THEN AddSchemaNode(reg, "ipv4", one, tree).registry
                           ELSE AddSchemaNode(reg, "base", two, tree).registry
  BY DEF Registered
<1>4. IsList(one) /\ IsList(two)
  BY <1>1
<1> HIDE DEF tree, domain, one, two
<1>5. RegistryMade(AddSchemaNode(reg, "ipv4", one, tree).registry)
  BY <1>2, <1>4, AddMade
<1>6. RegistryMade(AddSchemaNode(reg, "base", two, tree).registry)
  BY <1>2, <1>4, AddMade
<1> QED BY <1>3, <1>5, <1>6

LEMMA SchemasGrow ==
  (\E S : Dhcp4 \in S /\ Growing(S)) /\ (\E S : OpenParams \in S /\ Growing(S))
<1> DEFINE flag == Writable("boolean")
           metric == [Writable("integer") EXCEPT !.min = {0}]
           props == [k \in {"send-hostname", "route-metric"} |->
                       IF k = "send-hostname" THEN flag ELSE metric]
<1>1. Leaf(flag)
  BY LeavesMade
<1>2. Leaf(metric)
  BY LeavesMade, LeafBounded
<1>3. Dhcp4 = [WritableObject EXCEPT !.props = props]
  BY DEF Dhcp4
<1>4. OpenParams = [WritableObject EXCEPT !.open = TRUE]
  BY DEF OpenParams
<1> HIDE DEF flag, metric
<1>5. /\ props = [k \in DOMAIN props |-> props[k]]
      /\ \A k \in DOMAIN props : Leaf(props[k])
  BY <1>1, <1>2
<1> HIDE DEF props
<1> DEFINE w == WritableObject
<1>6. /\ NodeMade(w) /\ SemanticType(w) = "object" /\ DOMAIN w.items = {} /\ DOMAIN w.props = {}
  BY WritableObjectMade
<1> HIDE DEF w
<1>7. /\ NodeMade(Dhcp4) /\ SemanticType(Dhcp4) = "object"
      /\ DOMAIN Dhcp4.items = {} /\ Dhcp4.props = props
  <2> DEFINE d == [w EXCEPT !.props = props]
  <2>1. /\ d = [f \in DOMAIN Blank |-> d[f]] /\ d.props = props
        /\ d.items = w.items /\ d.type = w.type /\ d.cidr = w.cidr
    BY <1>6, BlankIs DEF NodeMade
  <2>2. Dhcp4 = d
    BY <1>3 DEF w
  <2> HIDE DEF d
  <2> QED BY <1>5, <1>6, <2>1, <2>2 DEF NodeMade, SemanticType
<1>8. /\ NodeMade(OpenParams) /\ SemanticType(OpenParams) = "object"
      /\ DOMAIN OpenParams.items = {} /\ DOMAIN OpenParams.props = {}
  <2> DEFINE d == [w EXCEPT !.open = TRUE]
  <2>1. /\ d = [f \in DOMAIN Blank |-> d[f]] /\ d.props = w.props
        /\ d.items = w.items /\ d.type = w.type /\ d.cidr = w.cidr
    BY <1>6, BlankIs DEF NodeMade
  <2>2. OpenParams = d
    BY <1>4 DEF w
  <2> HIDE DEF d
  <2> QED BY <1>6, <2>1, <2>2 DEF NodeMade, SemanticType
<1>9. \E S : Dhcp4 \in S /\ Growing(S)
  BY <1>5, <1>7, LeavesGrow
<1>10. \E S : OpenParams \in S /\ Growing(S)
  BY <1>8, LeavesGrow
<1> QED BY <1>9, <1>10

LEMMA ProvidersMade == RegistryMade(ProviderRegistry)
<1> DEFINE p == Providers[1]
           q == Providers[2]
           r == Providers[3]
<1>1. p.schema = Dhcp4 /\ q.schema = OpenParams /\ r.schema = OpenParams
  BY DEF Providers, Provider
<1>2. ProviderRegistry = Registered(Registered(Registered(EmbeddedRegistry, p), q), r)
  BY DEF ProviderRegistry
<1> HIDE DEF p, q, r
<1>3. RegistryMade(Registered(EmbeddedRegistry, p))
  BY <1>1, SchemasGrow, EmbeddedMade, RegisteredMade
<1>4. RegistryMade(Registered(Registered(EmbeddedRegistry, p), q))
  BY <1>1, <1>3, SchemasGrow, RegisteredMade
<1>5. RegistryMade(Registered(Registered(Registered(EmbeddedRegistry, p), q), r))
  BY <1>1, <1>4, SchemasGrow, RegisteredMade
<1> QED BY <1>2, <1>5

LEMMA RegistryInit == Init => RegistryMade(registry) /\ refused = "none" /\ extended = 0
  BY EmbeddedMade, ProvidersMade DEF Init

LEMMA RegistryStep ==
  ASSUME RegistryMade(registry), extended \in Nat, [Next]_vars
  PROVE  /\ RegistryMade(registry')
         /\ refused' \in {refused, "none", "Malformed", "EmptyPath", "Collision",
                          "UnknownFragment", "NotAnObject", "Exists"}
         /\ extended' # extended /\ refused' # "none" => registry' = registry
         /\ extended' = extended => registry' = registry
<1>1. ASSUME NEW ext \in Extensions, Extend(ext)
      PROVE  /\ RegistryMade(registry')
             /\ refused' \in {"none", "Malformed", "EmptyPath", "Collision",
                              "UnknownFragment", "NotAnObject", "Exists"}
             /\ refused' # "none" => registry' = registry
             /\ extended' # extended
  <2> DEFINE node == ext.node
             path == ext.path
             fragment == ext.fragment
             added == AddSchemaNode(registry, fragment, path, node)
  <2>1. IsList(path) /\ SchemaMade(node)
    BY DocumentsAssumption
  <2>2. registry' = added.registry /\ refused' = added.error
    BY <1>1 DEF Extend
  <2>3. extended' = extended + 1
    BY <1>1 DEF Extend
  <2> HIDE DEF node, path, fragment
  <2>4. ValidNode(node) => \E T : node \in T /\ Growing(T)
    BY <2>1, ExtensionGrows
  <2>5. /\ RegistryMade(added.registry)
        /\ added.error # "none" => added.registry = registry
        /\ added.error \in {"none", "Malformed", "EmptyPath", "Collision",
                            "UnknownFragment", "NotAnObject", "Exists"}
    BY <2>1, <2>4, AddMade
  <2> QED BY <2>2, <2>3, <2>5
<1>2. CASE Next /\ ~(\E ext \in Extensions : Extend(ext))
  <2>1. UNCHANGED schema
    BY <1>2 DEF Next, Query, Edit, Handwrite, Decode, Observe, PrepareStates, Save, Load,
                Insert, ProduceFromSet, Finish
  <2> QED BY <2>1 DEF schema
<1>3. CASE UNCHANGED vars
  BY <1>3 DEF vars, schema
<1> QED BY <1>1, <1>2, <1>3
-----------------------------------------------------------------------------
(* Type correctness. *)

Phases == {"idle", "failed", "observed", "prepared", "saved", "loaded", "collected", "produced"}
Refusals == {"none", "Malformed", "EmptyPath", "Collision", "UnknownFragment", "NotAnObject",
             "Exists"}
WellTyped ==
  /\ RegistryMade(registry) /\ refused \in Refusals
  /\ phase \in Phases /\ by \in FieldsOfMatch
  /\ changes \in 0 .. MaxChanges /\ extended \in 0 .. MaxExtensions /\ loads \in 0 .. MaxLoads
  /\ next \in 1 .. 1 + (IF IsError(loaded) THEN 0 ELSE Len(loaded.policies))

LEMMA NothingLoaded == ~IsError(NoPolicies) /\ Len(NoPolicies.policies) = 0
BY EmptyList DEF NoPolicies, IsError, Is

LEMMA TypedInit == Init => WellTyped
<1> SUFFICES ASSUME Init PROVE WellTyped
  OBVIOUS
<1>1. RegistryMade(registry) /\ refused = "none" /\ extended = 0
  BY RegistryInit
<1>2. /\ phase = "idle" /\ by = "name" /\ loaded = NoPolicies /\ next = 1
      /\ changes = 0 /\ loads = 0
  BY DEF Init
<1>3. next \in 1 .. 1 + (IF IsError(loaded) THEN 0 ELSE Len(loaded.policies))
  BY <1>2, NothingLoaded
<1>4. 0 \in 0 .. MaxChanges /\ 0 \in 0 .. MaxExtensions /\ 0 \in 0 .. MaxLoads
  BY DocumentsAssumption
<1> QED BY <1>1, <1>2, <1>3, <1>4 DEF WellTyped, Phases, Refusals, FieldsOfMatch

\* The counters and what a step leaves of them.
Counting ==
  /\ changes \in 0 .. MaxChanges /\ extended \in 0 .. MaxExtensions /\ loads \in 0 .. MaxLoads

LEMMA CountingStep ==
  ASSUME Counting, [Next]_vars
  PROVE  Counting'
<1>0. MaxChanges \in Nat /\ MaxExtensions \in Nat /\ MaxLoads \in Nat
  BY DocumentsAssumption
<1>1. ASSUME NEW ext \in Extensions, Extend(ext)
      PROVE  Counting'
  BY <1>0, <1>1 DEF Extend, Counting, files
<1>2. ASSUME Change, UNCHANGED <<schema, loads>>
      PROVE  Counting'
  BY <1>0, <1>2 DEF Change, Counting, schema
<1>3. ASSUME NEW field \in FieldsOfMatch, Load(field)
      PROVE  Counting'
  BY <1>0, <1>3 DEF Load, Counting, schema, files
<1>4. ASSUME Finish
      PROVE  Counting'
  BY <1>0, <1>4 DEF Finish, Counting, schema, files
<1>5. ASSUME UNCHANGED <<schema, changes, loads>>
      PROVE  Counting'
  BY <1>5 DEF Counting, schema
<1>6. ASSUME NEW inventory \in Inventories, Query(inventory)
      PROVE  Counting'
  BY <1>2, <1>6 DEF Query
<1>7. ASSUME NEW i \in 1 .. 2, NEW edit \in Edits, Edit(i, edit)
      PROVE  Counting'
  BY <1>2, <1>7 DEF Edit
<1>8. ASSUME NEW h \in Handwritten, Handwrite(h.file, h.document)
      PROVE  Counting'
  BY <1>2, <1>8 DEF Handwrite
<1>9. ASSUME NEW mode \in {"query", "policy", "candidate"}, Decode(mode)
      PROVE  Counting'
  BY <1>5, <1>9 DEF Decode, files
<1>10. ASSUME NEW field \in FieldsOfMatch, PrepareStates(field)
       PROVE  Counting'
  BY <1>5, <1>10 DEF PrepareStates, files
<1>11. Observe \/ Save \/ Insert \/ ProduceFromSet => Counting'
  BY <1>5 DEF Observe, Save, Insert, ProduceFromSet, files
<1>12. UNCHANGED vars => Counting'
  BY <1>5 DEF vars, files
<1> QED BY <1>1, <1>3, <1>4, <1>6, <1>7, <1>8, <1>9, <1>10, <1>11, <1>12 DEF Next

\* The variables of the program that have a type of their own.
Positioned ==
  /\ phase \in Phases /\ by \in FieldsOfMatch
  /\ next \in 1 .. 1 + (IF IsError(loaded) THEN 0 ELSE Len(loaded.policies))

LEMMA PositionedStep ==
  ASSUME Positioned, WellMade, Counted, [Next]_vars
  PROVE  Positioned'
<1>1. ASSUME UNCHANGED <<next, loaded>>, phase' \in Phases, by' \in FieldsOfMatch
      PROVE  Positioned'
  BY <1>1 DEF Positioned
<1>2. ASSUME NEW field \in FieldsOfMatch, Load(field)
      PROVE  Positioned'
  <2>1. /\ loaded' = LoadPolicyDir(disk, field) /\ next' = 1 /\ by' = field
        /\ phase' = IF IsError(loaded') THEN "failed" ELSE "loaded"
    BY <1>2 DEF Load
  <2>2. IsError(loaded') \/ IsList(loaded'.policies)
    BY <2>1, LoadPolicyDirCounts DEF Outcome, Unique, WellMade
  <2>3. ~IsError(loaded') => Len(loaded'.policies) \in Nat
    BY <2>2, ListLen
  <2> QED BY <2>1, <2>3 DEF Positioned, Phases
<1>3. ASSUME Insert
      PROVE  Positioned'
  <2>1. ~IsError(loaded) /\ Len(loaded.policies) \in Nat
    BY <1>3, ListLen DEF Insert, Counted, Outcome, Unique
  <2>2. loaded' = loaded /\ by' = by
    BY <1>3 DEF Insert
  <2>3. \/ phase' \in {"collected", "failed", phase} /\ next' = next
        \/ phase' = phase /\ next' = next + 1 /\ ~(next > Len(loaded.policies))
    BY <1>3 DEF Insert
  <2> QED BY <2>1, <2>2, <2>3 DEF Positioned, Phases
<1>4. ASSUME Finish
      PROVE  Positioned'
  BY <1>4, NothingLoaded DEF Finish, Positioned, Phases, FieldsOfMatch
<1>5. UNCHANGED <<phase, by, next, loaded>> => Positioned'
  BY DEF Positioned
<1>6. ASSUME NEW ext \in Extensions, Extend(ext)
      PROVE  Positioned'
  BY <1>5, <1>6 DEF Extend, program
<1>7. ASSUME NEW inventory \in Inventories, Query(inventory)
      PROVE  Positioned'
  BY <1>5, <1>7 DEF Query, program
<1>8. ASSUME NEW i \in 1 .. 2, NEW edit \in Edits, Edit(i, edit)
      PROVE  Positioned'
  BY <1>5, <1>8 DEF Edit, program
<1>9. ASSUME NEW h \in Handwritten, Handwrite(h.file, h.document)
      PROVE  Positioned'
  BY <1>5, <1>9 DEF Handwrite, program
<1>10. ASSUME NEW mode \in {"query", "policy", "candidate"}, Decode(mode)
       PROVE  Positioned'
  BY <1>1, <1>10 DEF Decode, Phases, Positioned
<1>11. ASSUME NEW field \in FieldsOfMatch, PrepareStates(field)
       PROVE  Positioned'
  BY <1>1, <1>11 DEF PrepareStates, Phases, Positioned
<1>12. Observe \/ Save \/ ProduceFromSet => Positioned'
  BY <1>1 DEF Observe, Save, ProduceFromSet, Phases, Positioned
<1>13. UNCHANGED vars => Positioned'
  BY <1>5 DEF vars, program
<1> QED BY <1>2, <1>3, <1>4, <1>6, <1>7, <1>8, <1>9, <1>10, <1>11, <1>12, <1>13 DEF Next

LEMMA TypedStep ==
  ASSUME WellTyped, WellMade, Counted, [Next]_vars
  PROVE  WellTyped'
<1>1. Counting' /\ Positioned'
  BY CountingStep, PositionedStep DEF WellTyped, Counting, Positioned
<1>2. extended \in Nat
  BY DEF WellTyped
<1>3. RegistryMade(registry') /\ refused' \in Refusals
  BY <1>2, RegistryStep DEF WellTyped, Refusals
<1> QED BY <1>1, <1>3 DEF WellTyped, Counting, Positioned

LEMMA TypedImplies ==
  ASSUME WellTyped, WellMade
  PROVE  TypeOK
<1>1. \A i \in DOMAIN registry : ValidNode(registry[i].root)
  <2> SUFFICES ASSUME NEW i \in DOMAIN registry PROVE ValidNode(registry[i].root)
    OBVIOUS
  <2>1. i \in {1, 2, 3}
    BY TriggersAre DEF WellTyped
  <2>2. PICK S : registry[i].root \in S /\ Growing(S)
    BY <2>1 DEF WellTyped, RegistryMade, FragmentMade
  <2> QED BY <2>2, GrowingIsValid
<1> QED BY <1>1 DEF WellTyped, WellMade, TypeOK, Phases, Refusals

LEMMA TypedHolds == Spec => [](WellTyped /\ WellMade)
<1>1. Init => WellTyped /\ Counted
  BY TypedInit, CountedInit
<1>2. WellMade /\ Counted /\ [Next]_vars => Counted'
  BY CountedStep
<1>3. WellTyped /\ WellMade /\ Counted /\ [Next]_vars => WellTyped'
  BY TypedStep
<1> QED BY <1>1, <1>2, <1>3, WellMadeHolds, PTL DEF Spec

\* The variables have their types: in particular every schema of the registry,
\* however extended, is a tree of nodes that have a type (schema.rs), and the
\* policy to insert next is one that was loaded or the end of them.
THEOREM DocumentsTyped == Spec => []TypeOK
<1>1. WellTyped /\ WellMade => TypeOK
  BY TypedImplies
<1> QED BY <1>1, TypedHolds, PTL

\* A refused extension changes nothing, and after any extension the flat map of
\* fields is that of the tree which validation walks.
LEMMA WholeStep ==
  ASSUME WellTyped, [Next]_vars, extended' # extended
  PROVE  /\ refused' # "none" => registry' = registry
         /\ \A i \in DOMAIN registry' :
              registry'[i].fields = DerivedFields(registry'[i].root)
<1>1. extended \in Nat /\ RegistryMade(registry)
  BY DEF WellTyped
<1>2. RegistryMade(registry') /\ (refused' # "none" => registry' = registry)
  BY <1>1, RegistryStep
<1>3. \A i \in DOMAIN registry' :
        registry'[i].fields = DerivedFields(registry'[i].root)
  <2> DEFINE reg == registry'
  <2> HIDE DEF reg
  <2>1. RegistryMade(reg) => \A i \in DOMAIN reg : reg[i].fields = DerivedFields(reg[i].root)
    <3> SUFFICES ASSUME RegistryMade(reg), NEW i \in DOMAIN reg
                 PROVE  reg[i].fields = DerivedFields(reg[i].root)
      OBVIOUS
    <3>1. FragmentMade(reg[i])
      BY TriggersAre DEF RegistryMade
    <3> DEFINE f == reg[i]
               fields == DerivedFields(f.root)
    <3>2. f = [name |-> f.name, trigger |-> f.trigger, root |-> f.root, fields |-> fields]
      BY <3>1 DEF FragmentMade
    <3> HIDE DEF f, fields
    <3>3. f.fields = fields
      BY <3>2
    <3> QED BY <3>3 DEF f, fields
  <2> QED BY <1>2, <2>1 DEF reg
<1> QED BY <1>2, <1>3

-----------------------------------------------------------------------------
(* What is prepared is final. *)

\* A node of a schema below its root: longer paths belong to nodes further down.
NodeBelow(at, root) ==
  /\ IsList(at.path) /\ at.path # <<>>
  /\ at.field /\ Len(at.path) = 1 =>
       \E k \in DOMAIN root.props :
         at.path = <<k>> /\ at.node = root.props[k]

LEMMA NodesAreBelow ==
  ASSUME NEW root, DOMAIN root.items = {}
  PROVE  \A at \in SchemaNodes(root) :
           at = [path |-> <<>>, node |-> root, field |-> FALSE] \/ NodeBelow(at, root)
<1> DEFINE top == [path |-> <<>>, node |-> root, field |-> FALSE]
           tops == {top}
           R == Reached(NodesBelow, tops)
           C == {at \in R : at = top \/ NodeBelow(at, root)}
<1>1. SchemaNodes(root) = R
  BY DEF SchemaNodes
<1> HIDE DEF R
<1>2. tops \subseteq R
  BY NodesReached DEF R
<1>3. tops \subseteq C
  BY <1>2
<1>4. ASSUME NEW at \in C, NEW new \in NodesBelow(at)
      PROVE  NodeBelow(new, root)
  <2>1. CASE at = top
    <3>1. at.path = <<>> /\ at.node = root
      BY <2>1
    <3>2. PICK k \in DOMAIN root.props :
            new = [path |-> Append(<<>>, k), node |-> root.props[k], field |-> TRUE]
      BY <3>1 DEF NodesBelow
    <3>3. new.path = <<k>> /\ new.node = root.props[k]
      BY <3>2
    <3>4. IsList(<<k>>) /\ <<k>> # <<>>
      BY OneInList
    <3> QED BY <3>3, <3>4 DEF NodeBelow
  <2>2. CASE at # top
    <3>1. NodeBelow(at, root)
      BY <2>2
    <3>2. \/ new.field = FALSE /\ new.path = at.path
          \/ \E k : new.path = Append(at.path, k)
      <4> DEFINE path == at.path
                 props == at.node.props
                 items == at.node.items
      <4>1. NodesBelow(at) =
              {[path |-> Append(path, k), node |-> props[k], field |-> TRUE] : k \in DOMAIN props}
              \cup {[path |-> path, node |-> items[i], field |-> FALSE] : i \in DOMAIN items}
        BY DEF NodesBelow
      <4> HIDE DEF path, props, items
      <4>2. \/ \E k \in DOMAIN props :
                 new = [path |-> Append(path, k), node |-> props[k], field |-> TRUE]
            \/ \E i \in DOMAIN items :
                 new = [path |-> path, node |-> items[i], field |-> FALSE]
        BY <1>4, <4>1
      <4>3. (new.field = FALSE /\ new.path = path) \/ \E k : new.path = Append(path, k)
        BY <4>2
      <4> QED BY <4>3 DEF path
    <3>3. CASE new.field = FALSE /\ new.path = at.path
      BY <3>1, <3>3 DEF NodeBelow
    <3>4. CASE \E k : new.path = Append(at.path, k)
      <4>1. PICK k : new.path = Append(at.path, k)
        BY <3>4
      <4> DEFINE path == at.path
      <4>2. IsList(path) /\ path # <<>>
        BY <3>1 DEF NodeBelow
      <4> HIDE DEF path
      <4>3. Len(path) \in Nat /\ Len(path) # 0
        BY <4>2, ListEmpty, ListLen
      <4>4. IsList(Append(path, k)) /\ Len(Append(path, k)) = Len(path) + 1
        BY <4>2, ListAppend
      <4>5. Append(path, k) # <<>> /\ Len(Append(path, k)) # 1
        BY <4>3, <4>4, ListEmpty
      <4>6. new.path = Append(path, k)
        BY <4>1 DEF path
      <4> QED BY <4>4, <4>5, <4>6 DEF NodeBelow
    <3> QED BY <3>2, <3>3, <3>4
  <2> QED BY <2>1, <2>2
<1>5. \A at \in C : NodesBelow(at) \cap R \subseteq C
  BY <1>4
<1> HIDE DEF C, tops
<1>6. R \subseteq C
  <2>1. \A D : tops \subseteq D /\ (\A at \in D : NodesBelow(at) \cap R \subseteq D) => R \subseteq D
    BY NodesReached DEF R
  <2> QED BY <1>3, <1>5, <2>1
<1> QED BY <1>1, <1>6 DEF C

\* The field of a key of the base fragment is the property of that name, and
\* no other fragment has the name.
LEMMA BaseFieldIs ==
  ASSUME NEW reg, RegistryMade(reg), NEW key, NEW f \in FieldInfo(reg, "base", <<key>>)
  PROVE  /\ key \in DOMAIN reg[1].root.props /\ key \notin Triggers(reg)
         /\ f.writable = reg[1].root.props[key].writable
<1> DEFINE b == reg[1]
           root == b.root
           fields == DerivedFields(root)
<1>1. FragmentMade(b) /\ DOMAIN root.items = {}
  BY DEF RegistryMade
<1>2. b.fields = fields
  <2>1. b = [name |-> b.name, trigger |-> b.trigger, root |-> b.root, fields |-> fields]
    BY <1>1 DEF FragmentMade
  <2> HIDE DEF b, fields
  <2> QED BY <2>1
<1>3. f \in b.fields /\ f.path = <<key>>
  BY TriggersAre DEF FieldInfo
<1> HIDE DEF b
<1>4. PICK at \in SchemaNodes(root) : at.field /\ f = FieldAt(at)
  BY <1>2, <1>3 DEF DerivedFields
<1>5. f.path = at.path /\ f.writable = at.node.writable
  BY <1>4 DEF FieldAt
<1>6. at = [path |-> <<>>, node |-> root, field |-> FALSE] \/ NodeBelow(at, root)
  BY <1>1, NodesAreBelow
<1>7. NodeBelow(at, root)
  BY <1>4, <1>6
<1>8. Len(<<key>>) = 1
  BY OneInList
<1>9. PICK k \in DOMAIN root.props : at.path = <<k>> /\ at.node = root.props[k]
  BY <1>3, <1>4, <1>5, <1>7, <1>8 DEF NodeBelow
<1>10. k = key
  <2>1. <<k>> = <<key>>
    BY <1>3, <1>5, <1>9
  <2>2. <<k>>[1] = k /\ <<key>>[1] = key
    OBVIOUS
  <2> QED BY <2>1, <2>2
<1>11. key \notin Triggers(reg)
  BY <1>9, <1>10, TriggersAre DEF RegistryMade, b
<1> QED BY <1>5, <1>9, <1>10, <1>11 DEF b

\* A state that may be written shows nothing that was observed but its type.
LEMMA WritableUnobserved ==
  ASSUME NEW reg, RegistryMade(reg), NEW state, ValidateWritable(reg, state) = {},
         state.device_type = ""
  PROVE  ~Observed(reg, state)
<1> SUFFICES ASSUME NEW k \in Keys(state.fields), NEW f \in FieldInfo(reg, "base", <<k>>),
                    ~f.writable
             PROVE  FALSE
  BY DEF Observed
<1>1. /\ k \in DOMAIN reg[1].root.props /\ k \notin Triggers(reg)
      /\ f.writable = reg[1].root.props[k].writable
  BY BaseFieldIs
<1> DEFINE root == reg[1].root
           triggers == Triggers(reg)
           found == MapViolations(root, state.fields, <<>>, triggers, TRUE)
<1>2. 1 \in DOMAIN reg /\ reg[1].trigger = ""
  BY DEF RegistryMade
<1>3. FragmentViolations(reg, reg[1], state, TRUE) = {}
  BY <1>2 DEF ValidateWritable, ValidateInner
<1>4. found \subseteq FragmentViolations(reg, reg[1], state, TRUE)
  BY <1>2 DEF FragmentViolations, WalkMap
<1>5. found = {}
  BY <1>3, <1>4
<1>6. k \in Keys(state.fields) \ triggers /\ k \in DOMAIN root.props /\ ~root.props[k].writable
  BY <1>1
<1> HIDE DEF root, triggers
<1>7. Those("ReadOnlyField", Append(<<>>, k), TRUE /\ ~root.props[k].writable) \subseteq found
  BY <1>6 DEF MapViolations
<1>8. Violation("ReadOnlyField", Append(<<>>, k)) \in found
  BY <1>6, <1>7 DEF Those
<1> QED BY <1>5, <1>8
\* States that preparing leaves as they are.
Final(reg, states) ==
  /\ StatesMade(states)
  /\ \A i \in DOMAIN states :
       /\ states[i].match # NoMatch /\ ~Observed(reg, states[i])
       /\ ValidateWritable(reg, states[i]) = {}

LEMMA FinalIsStable ==
  ASSUME NEW reg, NEW states, Final(reg, states), NEW field
  PROVE  PrepareForApply(reg, states, field) = [states |-> states, warnings |-> <<>>]
<1> DEFINE fresh == [i \in DOMAIN states |-> Unmatched(reg, states[i])]
           made == [i \in DOMAIN states |-> PrepareState(reg, states[i], field)]
           kept == [i \in DOMAIN states |-> [state |-> states[i], warnings |-> <<>>]]
           prepared == [i \in DOMAIN kept |-> kept[i].state]
           none == [i \in DOMAIN kept |-> kept[i].warnings]
           errors == {i \in DOMAIN kept : IsError(kept[i])}
<1>1. IsList(states)
  BY DEF Final, StatesMade
<1>2. states = [i \in DOMAIN states |-> states[i]]
  BY <1>1, ListLen
<1>3. fresh = states
  BY <1>2 DEF Unmatched, Final
<1>4. made = kept
  BY DEF PrepareState, Final
<1>5. prepared = states
  BY <1>2
<1>6. errors = {}
  BY DEF IsError, Is
<1>7. none = [i \in DOMAIN states |-> <<>>]
  OBVIOUS
<1>8. InputViolations(reg, states) = {} /\ FinalViolations(reg, states) = {}
  <2>1. \A i \in DOMAIN states :
          states[i].match # NoMatch /\ ValidateWritable(reg, states[i]) = {}
    BY DEF Final
  <2> QED BY <2>1 DEF InputViolations, FinalViolations
<1>9. FlattenSeq(none) = <<>>
  <2>1. DOMAIN none = DOMAIN states /\ \A i \in DOMAIN none : none[i] = <<>>
    BY <1>7
  <2>2. none = [i \in DOMAIN states |-> none[i]]
    BY <1>7
  <2> HIDE DEF none
  <2>3. IsList(none)
    BY <1>1, <2>2, ListMade
  <2>4. \A i \in DOMAIN none : IsList(none[i])
    BY <2>1, EmptyList
  <2> QED BY <2>1, <2>3, <2>4, Flattened
<1>10. PrepareForApply(reg, states, field) = PrepareFresh(reg, Listed(fresh), field)
  BY DEF PrepareForApply
<1>11. PrepareFresh(reg, states, field)
         = IF InputViolations(reg, states) # {} THEN Err("Validation")
           ELSE ThenAll(made, LAMBDA all : AllPrepared(reg, all))
  BY DEF PrepareFresh
<1>12. AllPrepared(reg, kept)
         = IF FinalViolations(reg, prepared) # {} THEN Err("Validation")
           ELSE [states |-> Listed(prepared), warnings |-> FlattenSeq(none)]
  BY DEF AllPrepared
<1>13. kept = [i \in DOMAIN states |-> kept[i]]
  OBVIOUS
<1> HIDE DEF kept, made, fresh, prepared, none
<1>14. Listed(states) = states
  BY <1>1, ListedSame
<1>15. Listed(kept) = kept
  BY <1>1, <1>13, ListMade
<1>16. ThenAll(kept, LAMBDA all : AllPrepared(reg, all))
         = IF errors = {} THEN AllPrepared(reg, kept)
           ELSE kept[CHOOSE i \in errors : \A j \in errors : i <= j]
  BY <1>15 DEF ThenAll
<1> HIDE DEF errors
<1> QED BY <1>3, <1>4, <1>5, <1>6, <1>8, <1>9, <1>10, <1>11, <1>12, <1>14, <1>16

\* What is prepared of one state is not observed.
LEMMA PreparedUnobserved ==
  ASSUME NEW reg, RegistryMade(reg), NEW state, StateMade(state), NEW field,
         NEW p, p = PrepareState(reg, Unmatched(reg, state), field), ~IsError(p),
         ValidateWritable(reg, p.state) = {}
  PROVE  ~Observed(reg, p.state)
<1> DEFINE fresh == Unmatched(reg, state)
           stripped == RemoveReadOnlyFields(reg, Without(fresh.fields, field))
           match == Selected(fresh, field)
           left == [fresh EXCEPT !.match = match, !.fields = stripped.left]
<1>1. \/ fresh.match # NoMatch /\ p.state = fresh
      \/ p.state = MatchType(left)
  <2>1. IsError(Err("NoMatchField"))
    BY ErrIsError
  <2>2. p = IF fresh.match # NoMatch THEN [state |-> fresh, warnings |-> <<>>]
            ELSE IF field \notin Keys(fresh.fields) THEN Err("NoMatchField")
            ELSE [state |-> MatchType(left), warnings |-> stripped.removed]
    BY DEF PrepareState, Prepared
  <2> HIDE DEF fresh, left, stripped
  <2> QED BY <2>1, <2>2
<1>2. CASE fresh.match # NoMatch /\ p.state = fresh
  <2>1. "match" \in DOMAIN state
    BY DEF StateMade
  <2>2. ~Observed(reg, state)
    BY <1>2, <2>1 DEF Unmatched
  <2> QED BY <1>2, <2>2 DEF Unmatched
<1>3. CASE p.state = MatchType(left)
  <2>1. "device_type" \in DOMAIN fresh
    BY DEF Unmatched, StateMade
  <2> HIDE DEF fresh, stripped, match
  <2>2. "device_type" \in DOMAIN left
    BY <2>1
  <2> HIDE DEF left
  <2>3. MatchType(left).device_type = ""
    BY <2>2 DEF MatchType
  <2> QED BY <1>3, <2>3, WritableUnobserved
<1> QED BY <1>1, <1>2, <1>3

LEMMA PreparedFinal ==
  ASSUME NEW reg, RegistryMade(reg), NEW states, StatesMade(states), NEW field,
         ~IsError(PrepareForApply(reg, states, field))
  PROVE  Final(reg, PrepareForApply(reg, states, field).states)
<1> DEFINE fresh == [i \in DOMAIN states |-> Unmatched(reg, states[i])]
           made == [i \in DOMAIN fresh |-> PrepareState(reg, fresh[i], field)]
           prepared == [i \in DOMAIN made |-> made[i].state]
           o == PrepareForApply(reg, states, field)
           warnings == FlattenSeq([i \in DOMAIN made |-> made[i].warnings])
<1>0. \/ IsError(o)
      \/ /\ InputViolations(reg, fresh) = {}
         /\ \A i \in DOMAIN made : ~IsError(made[i])
         /\ FinalViolations(reg, prepared) = {}
         /\ IsList(prepared)
         /\ o = [states |-> prepared, warnings |-> warnings]
  BY PrepareForApplyIs DEF StatesMade
<1>1. /\ \A i \in DOMAIN made : ~IsError(made[i])
      /\ FinalViolations(reg, prepared) = {}
      /\ o = [states |-> prepared, warnings |-> warnings]
  <2> HIDE DEF fresh, made, prepared, warnings
  <2> QED BY <1>0
<1>2. StatesMade(o.states)
  BY PreparedMade
<1>3. \A i \in DOMAIN states : StateMade(fresh[i]) /\ StateMade(states[i])
  BY UnmatchedMade DEF StatesMade
<1>4. DOMAIN fresh = DOMAIN states /\ \A i \in DOMAIN states : fresh[i] = Unmatched(reg, states[i])
  OBVIOUS
<1> HIDE DEF fresh
<1>5. DOMAIN made = DOMAIN states
      /\ \A i \in DOMAIN states : made[i] = PrepareState(reg, fresh[i], field)
  BY <1>4
<1> HIDE DEF made
<1>6. DOMAIN prepared = DOMAIN made /\ \A i \in DOMAIN made : prepared[i] = made[i].state
  BY Zenon
<1> HIDE DEF prepared, warnings, o
<1>7. o.states = prepared
  BY <1>1
<1>8. ASSUME NEW i \in DOMAIN prepared
      PROVE  /\ prepared[i].match # NoMatch /\ ~Observed(reg, prepared[i])
             /\ ValidateWritable(reg, prepared[i]) = {}
  <2> DEFINE p == made[i]
  <2>1. i \in DOMAIN states
    BY <1>5, <1>6
  <2>2. /\ p = PrepareState(reg, fresh[i], field) /\ ~IsError(p) /\ prepared[i] = p.state
        /\ fresh[i] = Unmatched(reg, states[i]) /\ StateMade(fresh[i]) /\ StateMade(states[i])
    BY <1>1, <1>3, <1>4, <1>5, <1>6, <2>1
  <2>3. ValidateWritable(reg, prepared[i]) = {}
    BY <1>1 DEF FinalViolations
  <2> HIDE DEF p
  <2>4. p.state.match # NoMatch
    BY <2>2, PreparedMatches
  <2>5. ~Observed(reg, p.state)
    BY <2>2, <2>3, PreparedUnobserved
  <2> QED BY <2>2, <2>3, <2>4, <2>5
<1>9. Final(reg, o.states)
  BY <1>2, <1>7, <1>8 DEF Final
<1> QED BY <1>9 DEF o

\* What has been prepared, for as long as the program keeps it.
PreparedStays == phase = "prepared" => IsError(outcome) \/ Final(registry, outcome.states)

LEMMA PreparedStaysStep ==
  ASSUME PreparedStays, WellTyped, WellMade, [Next]_vars
  PROVE  PreparedStays'
<1>1. ASSUME NEW field \in FieldsOfMatch, PrepareStates(field)
      PROVE  PreparedStays'
  <2>1. outcome' = PrepareForApply(registry, observed.states, field)
        /\ registry' = registry /\ phase = "observed"
    BY <1>1 DEF PrepareStates, schema
  <2>2. StatesMade(observed.states) /\ RegistryMade(registry)
    BY <2>1 DEF WellMade, WellTyped
  <2>3. IsError(outcome') \/ Final(registry, outcome'.states)
    BY <2>1, <2>2, PreparedFinal
  <2> QED BY <2>1, <2>3 DEF PreparedStays
<1>2. ASSUME UNCHANGED <<registry, phase, outcome>>
      PROVE  PreparedStays'
  BY <1>2 DEF PreparedStays
<1>3. ASSUME phase' # "prepared"
      PROVE  PreparedStays'
  BY <1>3 DEF PreparedStays
<1>4. ASSUME NEW ext \in Extensions, Extend(ext)
      PROVE  PreparedStays'
  BY <1>3, <1>4 DEF Extend, program
<1>5. ASSUME NEW inventory \in Inventories, Query(inventory)
      PROVE  PreparedStays'
  BY <1>2, <1>5 DEF Query, program, schema
<1>6. ASSUME NEW i \in 1 .. 2, NEW edit \in Edits, Edit(i, edit)
      PROVE  PreparedStays'
  BY <1>2, <1>6 DEF Edit, program, schema
<1>7. ASSUME NEW h \in Handwritten, Handwrite(h.file, h.document)
      PROVE  PreparedStays'
  BY <1>2, <1>7 DEF Handwrite, program, schema
<1>8. ASSUME NEW mode \in {"query", "policy", "candidate"}, Decode(mode)
      PROVE  PreparedStays'
  BY <1>3, <1>8 DEF Decode
<1>9. ASSUME NEW field \in FieldsOfMatch, Load(field)
      PROVE  PreparedStays'
  BY <1>3, <1>9 DEF Load
<1>10. Insert => PreparedStays'
  BY <1>3 DEF Insert
<1>11. Observe \/ Save \/ ProduceFromSet \/ Finish => PreparedStays'
  BY <1>3 DEF Observe, Save, ProduceFromSet, Finish
<1>12. UNCHANGED vars => PreparedStays'
  BY <1>2 DEF vars, program, schema
<1> QED BY <1>1, <1>4, <1>5, <1>6, <1>7, <1>8, <1>9, <1>10, <1>11, <1>12 DEF Next

\* Preparing what is prepared changes nothing and warns of nothing, whichever
\* field selects ("already prepared states are validated unchanged",
\* prepare_for_apply).
THEOREM PreparedStatesAreFinal == Spec => []PreparedIsFinal
<1>1. Init => PreparedStays
  BY DEF Init, PreparedStays
<1>2. PreparedStays /\ WellTyped /\ WellMade /\ [Next]_vars => PreparedStays'
  BY PreparedStaysStep
<1>3. PreparedStays => PreparedIsFinal
  BY FinalIsStable DEF PreparedStays, PreparedIsFinal
<1> QED BY <1>1, <1>2, <1>3, TypedHolds, PTL DEF Spec
-----------------------------------------------------------------------------
(* What the executor writes. *)

\* The places of a value, as the nodes of a schema.
Places(f, tops) ==
  f = [d \in 0 .. MaxDepth |->
         IF d = 0 THEN tops ELSE f[d - 1] \cup UNION {PlacesBelow(at) : at \in f[d - 1]}]

LEMMA PlacesExist ==
  ASSUME NEW tops
  PROVE  \E f : Places(f, tops)
<1> DEFINE more(nodes) == nodes \cup UNION {PlacesBelow(at) : at \in nodes}
           Upto(f, k) == f = [d \in 0 .. k |-> IF d = 0 THEN tops ELSE more(f[d - 1])]
           Q == {k \in 0 .. MaxDepth : \E f : Upto(f, k)}
<1> HIDE DEF more
<1>1. MaxDepth \in Nat
  BY TreesAssumption
<1>2. 0 \in Q
  <2> DEFINE f == [d \in 0 .. 0 |-> tops]
  <2>1. f = [d \in 0 .. 0 |-> IF d = 0 THEN tops ELSE more(f[d - 1])]
    OBVIOUS
  <2> HIDE DEF f
  <2> QED BY <1>1, <2>1
<1>3. ASSUME NEW k \in 0 .. MaxDepth - 1, k \in Q
      PROVE  k + 1 \in Q
  <2>1. PICK f : Upto(f, k)
    BY <1>3
  <2> DEFINE g == [d \in 0 .. k + 1 |-> IF d = k + 1 THEN more(f[k]) ELSE f[d]]
  <2>2. ASSUME NEW d \in 0 .. k + 1
        PROVE  g[d] = IF d = 0 THEN tops ELSE more(g[d - 1])
    <3>1. CASE d = k + 1
      <4>1. d # 0 /\ d - 1 = k /\ k \in 0 .. k + 1 /\ k # k + 1
        BY <1>1, <3>1
      <4> QED BY <3>1, <4>1
    <3>2. CASE d \in 0 .. k
      <4>1. g[d] = f[d] /\ (d # 0 => g[d - 1] = f[d - 1])
        BY <1>1, <3>2
      <4>2. f[d] = IF d = 0 THEN tops ELSE more(f[d - 1])
        BY <2>1, <3>2
      <4> QED BY <4>1, <4>2
    <3> QED BY <1>1, <3>1, <3>2
  <2>3. g = [d \in 0 .. k + 1 |-> g[d]]
    OBVIOUS
  <2> HIDE DEF g
  <2>4. Upto(g, k + 1)
    BY <2>2, <2>3
  <2> QED BY <1>1, <2>4
<1> HIDE DEF Q
<1>4. 0 .. MaxDepth \subseteq Q
  BY <1>1, <1>2, <1>3, UpTo
<1>5. MaxDepth \in Q
  BY <1>1, <1>4
<1> QED BY <1>5 DEF Q, Places, more

\* What holds of the tops and goes down the tree holds of every node; the tops
\* and what is below them are among the nodes.
LEMMA PlacesReached ==
  ASSUME NEW tops, NEW R, R = Reached(PlacesBelow, tops)
  PROVE  /\ tops \subseteq R
         /\ \A at \in tops : PlacesBelow(at) \subseteq R
         /\ \A C : tops \subseteq C /\ (\A at \in C : PlacesBelow(at) \cap R \subseteq C)
                   => R \subseteq C
<1> DEFINE f == CHOOSE f : Places(f, tops)
<1>1. Places(f, tops)
  BY PlacesExist
<1>2. R = f[MaxDepth]
  BY DEF Reached, Places
<1> HIDE DEF f
<1>3. MaxDepth \in Nat /\ MaxDepth # 0
  BY TreesAssumption
<1>4. f[0] = tops
  BY <1>1, <1>3 DEF Places
<1>5. ASSUME NEW d \in 0 .. MaxDepth - 1
      PROVE  f[d + 1] = f[d] \cup UNION {PlacesBelow(at) : at \in f[d]}
  <2>1. d + 1 \in 0 .. MaxDepth /\ d + 1 # 0 /\ (d + 1) - 1 = d
    BY <1>3
  <2> QED BY <1>1, <2>1 DEF Places
<1>6. ASSUME NEW e \in 0 .. MaxDepth
      PROVE  f[e] \subseteq R
  <2> DEFINE Q == {m \in 0 .. MaxDepth : e <= m => f[e] \subseteq f[m]}
  <2>1. 0 \in Q
    BY <1>3
  <2>2. ASSUME NEW m \in 0 .. MaxDepth - 1, m \in Q
        PROVE  m + 1 \in Q
    <3>1. m + 1 \in 0 .. MaxDepth /\ (e <= m + 1 => e <= m \/ e = m + 1)
      BY <1>3
    <3>2. f[m] \subseteq f[m + 1]
      BY <1>5
    <3> QED BY <2>2, <3>1, <3>2
  <2> HIDE DEF Q
  <2>3. 0 .. MaxDepth \subseteq Q
    BY <1>3, <2>1, <2>2, UpTo
  <2> QED BY <1>2, <1>3, <2>3 DEF Q
<1>7. \A at \in tops : PlacesBelow(at) \subseteq R
  <2>1. 0 \in 0 .. MaxDepth - 1 /\ 0 + 1 = 1 /\ 1 \in 0 .. MaxDepth
    BY <1>3
  <2>2. f[1] = f[0] \cup UNION {PlacesBelow(at) : at \in f[0]}
    BY <1>5, <2>1
  <2> QED BY <1>4, <1>6, <2>1, <2>2
<1>8. ASSUME NEW C, tops \subseteq C, \A at \in C : PlacesBelow(at) \cap R \subseteq C
      PROVE  R \subseteq C
  <2> DEFINE Q == {m \in 0 .. MaxDepth : f[m] \subseteq C}
  <2>1. 0 \in Q
    BY <1>3, <1>4, <1>8
  <2>2. ASSUME NEW m \in 0 .. MaxDepth - 1, m \in Q
        PROVE  m + 1 \in Q
    <3>1. m + 1 \in 0 .. MaxDepth
      BY <1>3
    <3>2. f[m + 1] \subseteq R
      BY <1>6, <3>1
    <3>3. f[m] \subseteq C
      BY <2>2
    <3>4. ASSUME NEW x \in f[m + 1]
          PROVE  x \in C
      <4>1. x \in f[m] \/ \E at \in f[m] : x \in PlacesBelow(at)
        BY <1>5
      <4>2. x \in R
        BY <3>2
      <4> QED BY <1>8, <3>3, <4>1, <4>2
    <3> QED BY <3>1, <3>4
  <2> HIDE DEF Q
  <2>3. 0 .. MaxDepth \subseteq Q
    BY <1>3, <2>1, <2>2, UpTo
  <2> QED BY <1>2, <1>3, <2>3 DEF Q
<1>9. tops \subseteq R
  BY <1>3, <1>4, <1>6
<1> QED BY <1>7, <1>8, <1>9

LEMMA WritableBase ==
  /\ {"mtu", "enabled"} \subseteq DOMAIN Base.props
  /\ \A k \in DOMAIN Base.props : Base.props[k].writable <=> k \in {"mtu", "enabled"}
  /\ Base.props["enabled"] = Writable("boolean")
  /\ LET mtu == Base.props["mtu"]
     IN  SemanticType(mtu) = "integer" /\ ~mtu.cidr /\ mtu.min = {68} /\ mtu.max = {65535}
<1> DEFINE limited == [Writable("integer") EXCEPT !.min = {68}, !.max = {65535}]
           props == [type |-> ReadOnly("string"), name |-> ReadOnly("string"),
                     mac |-> ReadOnly("string"), driver |-> ReadOnly("string"),
                     carrier |-> ReadOnly("boolean"), enabled |-> Writable("boolean"),
                     mtu |-> limited]
<1>1. Base.props = props
  <2>1. Base = ObjectOf(props)
    BY DEF Base
  <2>2. props = [k \in DOMAIN props |-> props[k]]
    OBVIOUS
  <2> HIDE DEF props
  <2> QED BY <2>1, <2>2, ObjectMade
<1>2. ~ReadOnly("string").writable /\ ~ReadOnly("boolean").writable /\ Writable("boolean").writable
  BY DEF ReadOnly, Writable, Blank
<1>3. /\ limited.writable /\ SemanticType(limited) = "integer" /\ ~limited.cidr
      /\ limited.min = {68} /\ limited.max = {65535}
  BY DEF Writable, Blank, SemanticType
<1> HIDE DEF limited
<1>4. /\ props["enabled"] = Writable("boolean") /\ props["mtu"] = limited
      /\ {"mtu", "enabled"} \subseteq DOMAIN props
      /\ \A k \in DOMAIN props :
           \/ k \in {"type", "name", "mac", "driver"} /\ props[k] = ReadOnly("string")
           \/ k = "carrier" /\ props[k] = ReadOnly("boolean")
           \/ k = "enabled" /\ props[k] = Writable("boolean")
           \/ k = "mtu" /\ props[k] = limited
  OBVIOUS
<1> HIDE DEF props
<1>5. \A k \in DOMAIN props : props[k].writable <=> k \in {"mtu", "enabled"}
  BY <1>2, <1>3, <1>4
<1> QED BY <1>1, <1>3, <1>4, <1>5

LEMMA WritableKeys ==
  \A k \in {"mtu", "enabled"} : k \in DOMAIN Base.props /\ Base.props[k].writable
<1> DEFINE props == Base.props
<1>1. /\ {"mtu", "enabled"} \subseteq DOMAIN props
      /\ \A k \in DOMAIN props : props[k].writable <=> k \in {"mtu", "enabled"}
  BY WritableBase
<1> HIDE DEF props
<1>2. \A k \in {"mtu", "enabled"} : k \in DOMAIN props /\ props[k].writable
  BY <1>1
<1> QED BY <1>2 DEF props

LEMMA EmbeddedBase ==
  /\ RegistryMade(EmbeddedRegistry) /\ EmbeddedRegistry[1].root = Base
  /\ Base.required = <<>> /\ DOMAIN Base.items = {}
<1>1. EmbeddedRegistry[1] = Fragment("base", "", Base)
  BY DEF EmbeddedRegistry
<1>2. EmbeddedRegistry[1].root = Base
  <2> DEFINE f == EmbeddedRegistry[1]
             root == Base
             trigger == ""
  <2>1. f = Fragment("base", trigger, root)
    BY <1>1
  <2>2. PICK S : root \in S /\ Growing(S)
    BY BaseIs, LeavesGrow, EmptyList
  <2> HIDE DEF f, root, trigger
  <2>3. f.root = root
    BY <2>1, <2>2, FragmentIs
  <2> QED BY <2>3 DEF f, root
<1> QED BY <1>2, EmbeddedMade, BaseIs, EmptyList

\* A key has a field, and a writable one, just if it is one of the two.
LEMMA EmbeddedFields ==
  ASSUME NEW k
  PROVE  LET info == FieldInfo(EmbeddedRegistry, "base", <<k>>)
         IN  (info # {} /\ \E f \in info : f.writable) <=> k \in {"mtu", "enabled"}
<1> DEFINE reg == EmbeddedRegistry
           info == FieldInfo(reg, "base", <<k>>)
<1>1. RegistryMade(reg) /\ reg[1].root = Base
  BY EmbeddedBase
<1> HIDE DEF reg
<1>2. ASSUME NEW f \in info, f.writable
      PROVE  k \in {"mtu", "enabled"}
  <2>1. k \in DOMAIN Base.props /\ f.writable = Base.props[k].writable
    BY <1>1, BaseFieldIs
  <2> QED BY <1>2, <2>1, WritableBase
<1>3. ASSUME k \in {"mtu", "enabled"}
      PROVE  \E f \in info : f.writable
  <2> DEFINE top == [path |-> <<>>, node |-> Base, field |-> FALSE]
             at == [path |-> <<k>>, node |-> Base.props[k], field |-> TRUE]
             tops == {top}
             R == Reached(NodesBelow, tops)
             fields == DerivedFields(Base)
  <2>1. k \in DOMAIN Base.props /\ Base.props[k].writable
    BY <1>3, WritableBase
  <2>2. at \in NodesBelow(top)
    <3>1. top.path = <<>> /\ top.node = Base /\ Append(<<>>, k) = <<k>>
      OBVIOUS
    <3> HIDE DEF top
    <3> QED BY <2>1, <3>1 DEF NodesBelow
  <2>3. R = SchemaNodes(Base)
    BY DEF SchemaNodes
  <2> HIDE DEF R
  <2>4. NodesBelow(top) \subseteq R
    <3>1. \A x \in tops : NodesBelow(x) \subseteq R
      <4> HIDE DEF tops
      <4> QED BY NodesReached DEF R
    <3> QED BY <3>1
  <2> HIDE DEF R
  <2>5. at \in SchemaNodes(Base) /\ at.field
    BY <2>2, <2>3, <2>4
  <2>6. FieldAt(at) \in fields
    BY <2>5 DEF DerivedFields
  <2>7. FieldAt(at).path = <<k>> /\ FieldAt(at).writable
    BY <2>1 DEF FieldAt
  <2> HIDE DEF fields, at
  <2>8. FragmentMade(reg[1])
    BY <1>1 DEF RegistryMade
  <2>9. reg[1].fields = fields
    <3> DEFINE b == reg[1]
               derived == DerivedFields(b.root)
    <3>1. b = [name |-> b.name, trigger |-> b.trigger, root |-> b.root, fields |-> derived]
      BY <2>8 DEF FragmentMade
    <3>2. b.root = Base
      BY <1>1
    <3> HIDE DEF b, derived
    <3>3. b.fields = derived
      BY <3>1
    <3> QED BY <3>2, <3>3 DEF b, derived, fields
  <2>10. FieldAt(at) \in info
    BY <1>1, <2>6, <2>7, <2>9, TriggersAre DEF FieldInfo
  <2> QED BY <2>7, <2>10
<1>4. (info # {} /\ \E f \in info : f.writable) <=> k \in {"mtu", "enabled"}
  BY <1>2, <1>3
<1> QED BY <1>4 DEF reg

\* The device type of a state that has none, by a name: the SMT backend cannot
\* take the empty string.
NoType == ""

\* A state with one of the two is valid just if its value is at its place.
LEMMA AloneIs ==
  ASSUME NEW k \in {"mtu", "enabled"}, NEW e, e.key = k, NEW alone,
         alone.fields = <<e>>, alone.device_type = NoType
  PROVE  ValidateWritable(EmbeddedRegistry, alone)
           = WalkPlaces({Place(Base.props[k], e.val, Append(<<>>, k))}, TRUE)
<1> DEFINE reg == EmbeddedRegistry
           places == PropertyPlaces(Base, alone.fields, <<>>, Triggers(reg))
           place == Place(Base.props[k], e.val, Append(<<>>, k))
<1>1. ToSet(alone.fields) = {e} /\ Keys(alone.fields) = {k}
  <2> DEFINE fields == <<e>>
  <2>1. Elements(fields) = {e}
    BY OneInList
  <2>2. alone.fields = fields
    OBVIOUS
  <2> HIDE DEF fields
  <2>3. ToSet(alone.fields) = {e}
    BY <2>1, <2>2 DEF ToSet, Elements
  <2> QED BY <2>3 DEF Keys
<1>2. /\ RegistryMade(reg) /\ reg[1].root = Base
      /\ Base.required = <<>> /\ Triggers(reg) = {"ipv4", "ethernet"}
  BY EmbeddedBase, TriggersAre
<1>3. k \in DOMAIN Base.props /\ Base.props[k].writable /\ k \notin Triggers(reg)
  <2>1. k \in DOMAIN Base.props /\ Base.props[k].writable
    BY WritableKeys
  <2>2. k \notin {"ipv4", "ethernet"}
    OBVIOUS
  <2> QED BY <1>2, <2>1, <2>2
<1> HIDE DEF reg
<1>4. places = {place}
  BY <1>1, <1>3 DEF PropertyPlaces
<1>5. MapViolations(Base, alone.fields, <<>>, Triggers(reg), TRUE) = {}
  <2> DEFINE found(q) ==
               IF q \notin DOMAIN Base.props
               THEN Those("UnknownField", Append(<<>>, q), ~Base.open)
               ELSE Those("ReadOnlyField", Append(<<>>, q), TRUE /\ ~Base.props[q].writable)
             missing == {Violation("MissingField", Append(<<>>, q)) :
                           q \in ToSet(Base.required) \ (Keys(alone.fields) \cup Triggers(reg))}
  <2>1. MapViolations(Base, alone.fields, <<>>, Triggers(reg), TRUE)
          = UNION {found(q) : q \in Keys(alone.fields) \ Triggers(reg)} \cup missing
    BY DEF MapViolations
  <2>2. missing = {}
    <3>1. ToSet(Base.required) = {}
      BY <1>2, EmptyList DEF ToSet
    <3> QED BY <3>1
  <2>3. found(k) = {}
    BY <1>3 DEF Those
  <2> HIDE DEF found, missing
  <2>4. Keys(alone.fields) \ Triggers(reg) = {k}
    BY <1>1, <1>3
  <2> QED BY <2>1, <2>2, <2>3, <2>4
<1> HIDE DEF places
<1>6. FragmentViolations(reg, reg[1], alone, TRUE) = WalkPlaces(places, TRUE)
  <2>1. reg[1].trigger = ""
    BY <1>2 DEF RegistryMade
  <2> QED BY <1>2, <1>5, <2>1 DEF FragmentViolations, WalkMap, places, NoType
<1>7. \A i \in {2, 3} : FragmentViolations(reg, reg[i], alone, TRUE) = {}
  <2>1. reg[2].trigger = "ipv4" /\ reg[3].trigger = "ethernet"
    BY <1>2 DEF RegistryMade
  <2> QED BY <1>1, <2>1 DEF FragmentViolations
<1>8. DOMAIN reg = {1, 2, 3}
  BY <1>2, TriggersAre
<1>9. ValidateWritable(reg, alone) = WalkPlaces(places, TRUE)
  BY <1>6, <1>7, <1>8 DEF ValidateWritable, ValidateInner
<1> QED BY <1>4, <1>9 DEF reg
LEMMA WalkOne ==
  ASSUME NEW place, NEW writableOnly
  PROVE  /\ NodeViolations(place, writableOnly) \subseteq WalkPlaces({place}, writableOnly)
         /\ PlacesBelow(place) = {} =>
              WalkPlaces({place}, writableOnly) = NodeViolations(place, writableOnly)
<1> DEFINE tops == {place}
           R == Reached(PlacesBelow, tops)
<1>1. WalkPlaces(tops, writableOnly) = UNION {NodeViolations(p, writableOnly) : p \in R}
  BY DEF WalkPlaces
<1> HIDE DEF R
<1>2. tops \subseteq R
  <2> HIDE DEF tops
  <2> QED BY PlacesReached DEF R
<1>3. PlacesBelow(place) = {} => R \subseteq tops
  <2>1. \A D : tops \subseteq D /\ (\A at \in D : PlacesBelow(at) \cap R \subseteq D) => R \subseteq D
    <3> HIDE DEF tops
    <3> QED BY PlacesReached DEF R
  <2>2. PlacesBelow(place) = {} => \A at \in tops : PlacesBelow(at) \cap R \subseteq tops
    OBVIOUS
  <2> HIDE DEF tops
  <2> QED BY <2>1, <2>2
<1>4. place \in R
  BY <1>2
<1>5. PlacesBelow(place) = {} => R = {place}
  BY <1>3, <1>4
<1> QED BY <1>1, <1>4, <1>5

LEMMA TypesAre ==
  ASSUME NEW value, ValueMade(value)
  PROVE  /\ ValueType(value) = "boolean" <=> Is(value, "bool")
         /\ ValueType(value) = "integer" <=> Is(value, "u64") \/ Is(value, "i64")
<1>1. PICK tag \in {"str", "u64", "i64", "bool", "ip", "net", "list", "map"} : Is(value, tag)
  BY DEF ValueMade
<1>2. \A other : Is(value, other) => other = tag
  BY <1>1 DEF ValueMade, OneTag, Is
<1>3. CASE tag = "bool"
  <2>1. ValueType(value) = "boolean"
    BY <1>1, <1>2, <1>3 DEF ValueType
  <2> QED BY <1>1, <1>2, <1>3, <2>1
<1>4. CASE tag \in {"u64", "i64"}
  <2>1. ValueType(value) = "integer"
    BY <1>1, <1>2, <1>4 DEF ValueType
  <2> QED BY <1>1, <1>2, <1>4, <2>1
<1>5. CASE tag \in {"str", "ip", "net", "list", "map"}
  <2>1. ValueType(value) \in {"string", "ip", "ip-network", "array", "object"}
    BY <1>1, <1>2, <1>5 DEF ValueType
  <2> QED BY <1>1, <1>2, <1>5, <2>1
<1> QED BY <1>1, <1>3, <1>4, <1>5

LEMMA EnabledNode ==
  LET node == Base.props["enabled"]
  IN  SemanticType(node) = "boolean" /\ ~node.cidr
<1>1. Base.props["enabled"] = Writable("boolean")
  BY WritableBase
<1>2. SemanticType(Writable("boolean")) = "boolean" /\ ~Writable("boolean").cidr
  BY DEF Writable, Blank, SemanticType
<1> QED BY <1>1, <1>2

LEMMA ScalarHasNoPlaces ==
  ASSUME NEW place, SemanticType(place.node) \notin {"object", "array"}
  PROVE  PlacesBelow(place) = {}
BY DEF PlacesBelow

\* What is wrong with a value at the place of one of the two, and the MTUs that
\* are right.
FoundAt(k, value) == WalkPlaces({Place(Base.props[k], value, Append(<<>>, k))}, TRUE)
MtuInRange(value) == Is(value, "u64") /\ value.u64 >= 68 /\ value.u64 <= 65535

LEMMA EnabledPlace ==
  ASSUME NEW value, ValueMade(value)
  PROVE  FoundAt("enabled", value) = {} <=> Is(value, "bool")
<1> DEFINE node == Base.props["enabled"]
           path == Append(<<>>, "enabled")
           place == Place(node, value, path)
<1>3. SemanticType(node) = "boolean" /\ ~node.cidr
  BY EnabledNode
<1> HIDE DEF node, path
<1>4. place.node = node /\ place.value = value
  BY DEF Place
<1> HIDE DEF place
<1>5. TypeAccepts(node, value) <=> Is(value, "bool")
  BY <1>3, TypesAre DEF TypeAccepts
<1>6. ~Is(value, "bool") => NodeViolations(place, TRUE) # {}
  BY <1>4, <1>5 DEF NodeViolations
<1>7. Is(value, "bool") => NodeViolations(place, TRUE) = {}
  BY <1>3, <1>4, <1>5 DEF NodeViolations, Those
<1>8. PlacesBelow(place) = {}
  BY <1>3, <1>4, ScalarHasNoPlaces
<1>9. WalkPlaces({place}, TRUE) = NodeViolations(place, TRUE)
  BY <1>8, WalkOne
<1>10. WalkPlaces({place}, TRUE) = {} <=> Is(value, "bool")
  BY <1>6, <1>7, <1>9
<1> QED BY <1>10 DEF place, node, path, FoundAt

LEMMA MtuPlace ==
  ASSUME NEW value, Numbered64(value)
  PROVE  FoundAt("mtu", value) = {} <=> MtuInRange(value)
<1> DEFINE node == Base.props["mtu"]
           path == Append(<<>>, "mtu")
           place == Place(node, value, path)
           out == IntegerOf(value) < 68 \/ IntegerOf(value) > 65535
<1>2. SemanticType(node) = "integer" /\ ~node.cidr /\ node.min = {68} /\ node.max = {65535}
  BY WritableBase
<1> HIDE DEF node, path
<1>3. place.node = node /\ place.value = value /\ place.path = path
  BY DEF Place
<1> HIDE DEF place
<1>4. ValueMade(value)
  BY DEF Numbered64
<1>5. TypeAccepts(node, value) <=> Is(value, "u64") \/ Is(value, "i64")
  BY <1>2, <1>4, TypesAre DEF TypeAccepts
<1>6. ~TypeAccepts(node, value) => NodeViolations(place, TRUE) # {}
  BY <1>3 DEF NodeViolations
<1>7. TypeAccepts(node, value) => NodeViolations(place, TRUE) = Those("OutOfRange", path, out)
  <2>1. (\/ \E b \in node.min : IntegerOf(value) < b
         \/ \E b \in node.max : IntegerOf(value) > b) <=> out
    BY <1>2
  <2> HIDE DEF out
  <2> QED BY <1>2, <1>3, <2>1 DEF NodeViolations, Those
<1>8. Is(value, "u64") => IntegerOf(value) = value.u64 /\ value.u64 \in Nat
  BY <1>4 DEF IntegerOf, ValueMade
<1>9. Is(value, "i64") => ~Is(value, "u64") /\ IntegerOf(value) = value.i64
                          /\ value.i64 \in Int /\ value.i64 < 0
  BY <1>4 DEF IntegerOf, ValueMade, Numbered64, OneTag, Is
<1>13. NodeViolations(place, TRUE) = {} <=> MtuInRange(value)
  <2>1. CASE Is(value, "u64")
    <3>1. out <=> ~MtuInRange(value)
      BY <1>8, <2>1 DEF MtuInRange
    <3> HIDE DEF out
    <3> QED BY <1>5, <1>7, <2>1, <3>1 DEF Those
  <2>2. CASE Is(value, "i64")
    <3>1. out /\ ~MtuInRange(value)
      BY <1>9, <2>2 DEF MtuInRange
    <3> HIDE DEF out
    <3> QED BY <1>5, <1>7, <2>2, <3>1 DEF Those
  <2>3. CASE ~Is(value, "u64") /\ ~Is(value, "i64")
    <3>1. ~MtuInRange(value)
      BY <2>3 DEF MtuInRange
    <3>2. ~TypeAccepts(node, value)
      BY <1>5, <2>3
    <3> HIDE DEF out
    <3>3. NodeViolations(place, TRUE) # {}
      BY <1>6, <3>2
    <3> QED BY <3>1, <3>3
  <2> QED BY <2>1, <2>2, <2>3
<1>14. WalkPlaces({place}, TRUE) = NodeViolations(place, TRUE)
  <2>1. PlacesBelow(place) = {}
    BY <1>2, <1>3, ScalarHasNoPlaces
  <2> QED BY <2>1, WalkOne
<1>15. WalkPlaces({place}, TRUE) = {} <=> MtuInRange(value)
  BY <1>13, <1>14
<1> QED BY <1>15 DEF place, node, path, FoundAt

LEMMA AloneValid ==
  ASSUME NEW e, NEW alone, alone.fields = <<e>>, alone.device_type = NoType
  PROVE  /\ e.key = "enabled" /\ ValueMade(e.val) =>
              (ValidateWritable(EmbeddedRegistry, alone) = {} <=> Is(e.val, "bool"))
         /\ e.key = "mtu" /\ Numbered64(e.val) =>
              (ValidateWritable(EmbeddedRegistry, alone) = {} <=> MtuInRange(e.val))
<1> DEFINE found == ValidateWritable(EmbeddedRegistry, alone)
<1>1. e.key = "enabled" => found = FoundAt("enabled", e.val)
  BY AloneIs DEF FoundAt
<1>2. e.key = "mtu" => found = FoundAt("mtu", e.val)
  BY AloneIs DEF FoundAt
<1> HIDE DEF found
<1>3. ValueMade(e.val) => (FoundAt("enabled", e.val) = {} <=> Is(e.val, "bool"))
  BY EnabledPlace
<1>4. Numbered64(e.val) => (FoundAt("mtu", e.val) = {} <=> MtuInRange(e.val))
  BY MtuPlace
<1>5. /\ e.key = "enabled" /\ ValueMade(e.val) => (found = {} <=> Is(e.val, "bool"))
      /\ e.key = "mtu" /\ Numbered64(e.val) => (found = {} <=> MtuInRange(e.val))
  BY <1>1, <1>2, <1>3, <1>4
<1> QED BY <1>5 DEF found

LEMMA NewStateWith ==
  ASSUME NEW fields, NEW alone, alone = [NewState(Kernel) EXCEPT !.fields = fields]
  PROVE  alone.fields = fields /\ alone.device_type = NoType
BY DEF NewState, NoType

\* One field of a decoded state.
LEMMA AssignmentAgrees ==
  ASSUME NEW e, Numbered64(e.val)
  PROVE  LET written == DecodeAssignment("base", <<e.key>>, e.val)
             alone == [NewState(Kernel) EXCEPT !.fields = <<e>>]
         IN  /\ (written.does = "write") =
                  (e.key \in {"mtu", "enabled"}
                     /\ ValidateWritable(EmbeddedRegistry, alone) = {})
             /\ written.does = "write" => written.value = e.val
<1> DEFINE k == e.key
           value == e.val
           info == FieldInfo(EmbeddedRegistry, "base", <<k>>)
           mtu == AsU32(value.u64)
           written == DecodeAssignment("base", <<k>>, value)
           alone == [NewState(Kernel) EXCEPT !.fields = <<e>>]
           valid == ValidateWritable(EmbeddedRegistry, alone) = {}
<1>1. alone.fields = <<e>> /\ alone.device_type = NoType
  BY NewStateWith
<1> HIDE DEF alone
<1>2. (info # {} /\ \E f \in info : f.writable) <=> k \in {"mtu", "enabled"}
  BY EmbeddedFields
<1>3. ASSUME NEW j
      PROVE  <<k>> = <<j>> <=> k = j
  <2>1. <<k>>[1] = k /\ <<j>>[1] = j
    OBVIOUS
  <2> QED BY <2>1
<1>4. written = IF info = {} THEN [does |-> "unsupported"]
                ELSE IF \A f \in info : ~f.writable THEN [does |-> "readonly"]
                ELSE IF k = "mtu" /\ Is(value, "u64") /\ mtu.fits /\ MtuAllowed(mtu.n)
                     THEN [does |-> "write", value |-> U64(mtu.n)]
                ELSE IF k = "enabled" /\ Is(value, "bool")
                     THEN [does |-> "write", value |-> value]
                ELSE [does |-> "unsupported"]
  BY <1>3 DEF DecodeAssignment
<1> HIDE DEF info, written
<1>5. k = "enabled" => (valid <=> Is(value, "bool"))
  BY <1>1, AloneValid DEF Numbered64
<1>6. k = "mtu" => (valid <=> MtuInRange(value))
  BY <1>1, AloneValid
<1>7. mtu.n = value.u64 /\ mtu.fits = (value.u64 <= U32Max)
  BY DEF AsU32
<1>8. Is(value, "u64") => /\ value.u64 \in Nat /\ U64(value.u64) = value
                          /\ MtuAllowed(value.u64) <=> MtuInRange(value)
  <2> SUFFICES ASSUME Is(value, "u64")
               PROVE  /\ value.u64 \in Nat /\ U64(value.u64) = value
                      /\ MtuAllowed(value.u64) <=> MtuInRange(value)
    OBVIOUS
  <2>1. value.u64 \in Nat /\ U64(value.u64) = value
    BY DEF Numbered64, ValueMade
  <2> DEFINE entry == Entry("mtu", U64(value.u64))
             other == [NewState(Kernel) EXCEPT !.fields = <<entry>>]
  <2>2. MtuAllowed(value.u64) <=> ValidateWritable(EmbeddedRegistry, other) = {}
    BY DEF MtuAllowed
  <2>3. other.fields = <<entry>> /\ other.device_type = NoType
    BY NewStateWith
  <2>4. entry.key = "mtu" /\ entry.val = value
    BY <2>1 DEF Entry
  <2> HIDE DEF other, entry
  <2>5. ValidateWritable(EmbeddedRegistry, other) = {}
          <=> MtuInRange(entry.val)
    BY <2>1, <2>3, <2>4, AloneValid
  <2> QED BY <2>1, <2>2, <2>4, <2>5
<1> HIDE DEF valid, mtu, value, k
<1>9. MtuInRange(value) => Is(value, "u64") /\ value.u64 <= U32Max
  BY <1>8, ObservationAssumption DEF MtuInRange
<1>10. CASE k = "mtu"
  <2>1. written = IF Is(value, "u64") /\ mtu.fits /\ MtuAllowed(mtu.n)
                  THEN [does |-> "write", value |-> U64(mtu.n)]
                  ELSE [does |-> "unsupported"]
    BY <1>2, <1>4, <1>10
  <2>2. (Is(value, "u64") /\ mtu.fits /\ MtuAllowed(mtu.n)) <=> valid
    BY <1>6, <1>7, <1>8, <1>9, <1>10
  <2>3. valid => written.does = "write" /\ written.value = value
    BY <1>6, <1>7, <1>8, <1>10, <2>1, <2>2
  <2>4. ~valid => written.does = "unsupported"
    BY <2>1, <2>2
  <2>5. (written.does = "write") = (k \in {"mtu", "enabled"} /\ valid)
    BY <1>10, <2>3, <2>4
  <2> QED BY <2>3, <2>4, <2>5 DEF k, value, valid, alone, written
<1>11. CASE k = "enabled"
  <2>1. written = IF Is(value, "bool") THEN [does |-> "write", value |-> value]
                  ELSE [does |-> "unsupported"]
    BY <1>2, <1>4, <1>11
  <2>2. valid => written.does = "write" /\ written.value = value
    BY <1>5, <1>11, <2>1
  <2>3. ~valid => written.does = "unsupported"
    BY <1>5, <1>11, <2>1
  <2>4. (written.does = "write") = (k \in {"mtu", "enabled"} /\ valid)
    BY <1>11, <2>2, <2>3
  <2> QED BY <2>2, <2>3, <2>4 DEF k, value, valid, alone, written
<1>12. CASE k \notin {"mtu", "enabled"}
  <2>1. written.does \in {"unsupported", "readonly"}
    BY <1>2, <1>4, <1>12
  <2>2. (written.does = "write") = (k \in {"mtu", "enabled"} /\ valid)
    BY <1>12, <2>1
  <2> QED BY <2>1, <2>2 DEF k, value, valid, alone, written
<1> QED BY <1>10, <1>11, <1>12

\* The MTU and the administrative state of a document are written as they are
\* if the schema accepts them and refused if it does not; nothing else is a
\* scalar to write (decode in executor.rs).
THEOREM ExecutorAgrees == Spec => []ExecutorAgreesWithTheSchema
<1>1. ASSUME WellMade
      PROVE  ExecutorAgreesWithTheSchema
  <2> DEFINE file == disk[QueryFile]
             decoded == IF \E t \in {"map", "seq"} : Is(file, t)
                        THEN FromYaml(registry, file) ELSE Err("none")
  <2>1. FileMade(file)
    BY <1>1, DocumentsAssumption DEF WellMade, Filed
  <2>2. IsError(decoded) \/ StatesNumbered(decoded.states)
    BY <2>1, FromYamlNumbered, ErrIsError
  <2> HIDE DEF decoded, file
  <2>3. ASSUME ~IsError(decoded), NEW state \in ToSet(decoded.states),
               NEW e \in ToSet(state.fields)
        PROVE  Numbered64(e.val)
    BY <2>2, <2>3 DEF StatesNumbered, StateNumbered, FieldsNumbered, ToSet
  <2>4. ASSUME ~IsError(decoded), NEW state \in ToSet(decoded.states),
               NEW e \in ToSet(state.fields)
        PROVE  LET written == DecodeAssignment("base", <<e.key>>, e.val)
                   alone == [NewState(Kernel) EXCEPT !.fields = <<e>>]
               IN  /\ (written.does = "write") =
                        (e.key \in {"mtu", "enabled"}
                           /\ ValidateWritable(EmbeddedRegistry, alone) = {})
                   /\ written.does = "write" => written.value = e.val
    BY <2>3, <2>4, AssignmentAgrees
  <2> QED BY <2>4 DEF ExecutorAgreesWithTheSchema, decoded, file
<1> QED BY <1>1, WellMadeHolds, PTL

-----------------------------------------------------------------------------
(* What an extension keeps. *)

\* What validation of the fields that were there asks of the root of a schema:
\* a property that is no object stays what it is.
RootKept(root, new) ==
  /\ new.open = root.open /\ new.required = root.required
  /\ \A k \in DOMAIN root.props :
       root.props[k].type # "object" => k \in DOMAIN new.props /\ new.props[k] = root.props[k]
Kept(reg, new) == \A i \in {1, 2, 3} : RootKept(reg[i].root, new[i].root)

LEMMA KeptSame ==
  ASSUME NEW reg
  PROVE  Kept(reg, reg)
BY DEF Kept, RootKept

LEMMA KeptStays ==
  ASSUME NEW a, NEW b, NEW c, Kept(a, b), Kept(b, c)
  PROVE  Kept(a, c)
<1> SUFFICES ASSUME NEW i \in {1, 2, 3}
             PROVE  RootKept(a[i].root, c[i].root)
  BY DEF Kept
<1> DEFINE x == a[i].root
           y == b[i].root
           z == c[i].root
<1>1. RootKept(x, y) /\ RootKept(y, z)
  BY DEF Kept
<1> HIDE DEF x, y, z
<1>2. RootKept(x, z)
  BY <1>1 DEF RootKept
<1> QED BY <1>2 DEF x, z

LEMMA HavingKeeps ==
  ASSUME NEW parent, NodeMade(parent), NEW name, NEW child,
         name \in DOMAIN parent.props => parent.props[name].type = "object"
  PROVE  RootKept(parent, Having(parent, name, child))
<1> DEFINE n == Having(parent, name, child)
<1>1. /\ DOMAIN n.props = DOMAIN parent.props \cup {name}
      /\ \A k \in DOMAIN parent.props : k = name \/ n.props[k] = parent.props[k]
  BY HavingMade
<1>2. n.open = parent.open /\ n.required = parent.required
  <2> DEFINE props == [k \in DOMAIN parent.props \cup {name} |->
                         IF k = name THEN child ELSE parent.props[k]]
  <2>1. n = [parent EXCEPT !.props = props]
    BY DEF Having
  <2>2. parent = [f \in DOMAIN Blank |-> parent[f]] /\ {"open", "required"} \subseteq DOMAIN Blank
    BY BlankIs DEF NodeMade
  <2> HIDE DEF props, n
  <2> QED BY <2>1, <2>2
<1> HIDE DEF n
<1>3. RootKept(parent, n)
  BY <1>1, <1>2 DEF RootKept
<1> QED BY <1>3 DEF n

\* The way through a property that is no object ends there.
LEMMA GraftKeeps ==
  ASSUME NEW S, Growing(S), NEW root \in S, NEW path, IsList(path), Len(path) # 0, NEW node
  PROVE  RootKept(root, Graft(root, path, node).root)
<1> DEFINE g == Graft(root, path, node)
           name == path[1]
<1>1. RootKept(root, root)
  BY DEF RootKept
<1>2. NodeMade(root)
  BY DEF Growing
<1>3. g.error # "none" => g.root = root
  BY GraftRefused
<1>4. g.error = "none" =>
        /\ name \in DOMAIN root.props => root.props[name].type = "object"
        /\ \E child : g.root = Having(root, name, child)
  <2> PICK on, f : /\ Ons(on, root, path) /\ Grafts(f, on, path, node)
                   /\ g = f[1]
    BY GraftIs
  <2>1. Len(path) \in Nat /\ 1 \in 1 .. Len(path) /\ 0 \in 0 .. Len(path) - 1 /\ 1 - 1 = 0
    BY ListLen
  <2>2. on[0] = root
    BY <2>1 DEF Ons
  <2>3. f[1] = Grafted(on, path, node, 1, f[2])
    BY <2>1 DEF Grafts
  <2>4. CASE Len(path) = 1
    <3>1. g = Placed(root, name, node)
      BY <2>1, <2>2, <2>3, <2>4 DEF Grafted
    <3>2. g = IF name \in DOMAIN root.props THEN [error |-> "Exists", root |-> root]
              ELSE [error |-> "none", root |-> Having(root, name, node)]
      BY <3>1 DEF Placed
    <3> HIDE DEF g
    <3> QED BY <3>2
  <2>5. CASE Len(path) # 1
    <3> DEFINE c == on[1]
               below == f[2]
    <3>1. c = Child(root, name)
      <4>1. 1 \in 0 .. Len(path) - 1
        <5> DEFINE len == Len(path)
        <5>1. len \in Nat /\ len # 0 /\ len # 1
          BY <2>1, <2>5
        <5> HIDE DEF len
        <5>2. 1 \in 0 .. len - 1
          BY <5>1
        <5> QED BY <5>2 DEF len
      <4>2. c = Child(on[1 - 1], name)
        BY <4>1 DEF Ons
      <4> QED BY <2>1, <2>2, <4>2
    <3>2. g = IF c.type # "object" THEN [error |-> "NotAnObject", root |-> Having(root, name, c)]
              ELSE [error |-> below.error, root |-> Having(root, name, below.root)]
      BY <2>1, <2>2, <2>3, <2>5 DEF Grafted
    <3>3. name \in DOMAIN root.props => c = root.props[name]
      BY <3>1 DEF Child
    <3> HIDE DEF g, c, below
    <3> QED BY <3>2, <3>3
  <2> QED BY <2>4, <2>5
<1> HIDE DEF g
<1>5. RootKept(root, g.root)
  BY <1>1, <1>2, <1>3, <1>4, HavingKeeps
<1> QED BY <1>5 DEF g

LEMMA AddKeeps ==
  ASSUME NEW reg, RegistryMade(reg), NEW fragment, NEW path, IsList(path), NEW node
  PROVE  Kept(reg, AddSchemaNode(reg, fragment, path, node).registry)
<1> DEFINE error == AddError(reg, fragment, path, node)
           i == CHOOSE i \in FragmentNamed(reg, fragment) : TRUE
           root == reg[i].root
           g == Graft(root, path, node)
           rooted == [reg EXCEPT ![i].root = g.root]
           fielded == [rooted EXCEPT ![i].fields = DerivedFields(g.root)]
           added == AddSchemaNode(reg, fragment, path, node)
<1>1. added = IF error # "none" THEN [error |-> error, registry |-> reg]
              ELSE IF g.error # "none" THEN [error |-> g.error, registry |-> rooted]
              ELSE [error |-> "none", registry |-> fielded]
  BY DEF AddSchemaNode
<1>2. CASE error # "none"
  <2> HIDE DEF error, added
  <2>1. added.registry = reg
    BY <1>1, <1>2
  <2> QED BY <2>1, KeptSame DEF added
<1>3. CASE error = "none"
  <2>1. FragmentNamed(reg, fragment) # {} /\ path # <<>>
    BY <1>3 DEF AddError
  <2>2. i \in {1, 2, 3}
    BY <2>1, TriggersAre
  <2>3. Len(path) # 0
    BY <2>1, ListHead
  <2> HIDE DEF i, error
  <2>4. FragmentMade(reg[i]) /\ reg = [j \in {1, 2, 3} |-> reg[j]]
    BY <2>2 DEF RegistryMade
  <2>5. PICK S : root \in S /\ Growing(S)
    BY <2>4 DEF FragmentMade
  <2>6. RootKept(root, g.root)
    BY <2>3, <2>5, GraftKeeps
  <2> DEFINE f == reg[i]
             fields == DerivedFields(root)
             more == DerivedFields(g.root)
  <2>7. f = [name |-> f.name, trigger |-> f.trigger, root |-> root, fields |-> fields]
    BY <2>4 DEF FragmentMade
  <2> HIDE DEF g, fields, more
  <2> DEFINE other == [f EXCEPT !.root = g.root]
             last == [other EXCEPT !.fields = more]
  <2>8. other.root = g.root /\ last.root = g.root
    BY <2>7
  <2> HIDE DEF f, other, last
  <2>9. rooted = [reg EXCEPT ![i] = other]
    BY DEF f, other
  <2>10. rooted[i] = other /\ \A j \in {1, 2, 3} : j = i \/ rooted[j] = reg[j]
    BY <2>2, <2>4, <2>9
  <2>11. DOMAIN rooted = {1, 2, 3}
    BY <2>4, <2>9
  <2> HIDE DEF rooted
  <2>12. fielded = [rooted EXCEPT ![i] = last]
    BY <2>10 DEF last, more
  <2>13. fielded[i] = last /\ \A j \in {1, 2, 3} : j = i \/ fielded[j] = rooted[j]
    BY <2>2, <2>11, <2>12
  <2> HIDE DEF fielded
  <2>14. \A j \in {1, 2, 3} : RootKept(reg[j].root, reg[j].root)
    BY DEF RootKept
  <2>15. Kept(reg, rooted) /\ Kept(reg, fielded)
    <3>1. \A j \in {1, 2, 3} : /\ rooted[j].root = (IF j = i THEN g.root ELSE reg[j].root)
                               /\ fielded[j].root = (IF j = i THEN g.root ELSE reg[j].root)
      BY <2>2, <2>8, <2>10, <2>13
    <3> QED BY <2>6, <2>14, <3>1 DEF Kept
  <2> HIDE DEF added, root
  <2>16. added.registry \in {rooted, fielded}
    BY <1>1, <1>3
  <2> QED BY <2>15, <2>16 DEF added
<1> QED BY <1>2, <1>3

LEMMA RegisteredKeeps ==
  ASSUME NEW reg, RegistryMade(reg), NEW p
  PROVE  Kept(reg, Registered(reg, p))
<1>1. IsList(<<p.key>>) /\ IsList(<<p.domain, p.key>>)
  BY OneInList, TwoInList
<1> DEFINE tree == p.schema
           domain == p.domain
           one == <<p.key>>
           two == <<p.domain, p.key>>
<1>2. Registered(reg, p) = IF domain = "ipv4" THEN AddSchemaNode(reg, "ipv4", one, tree).registry
                           ELSE AddSchemaNode(reg, "base", two, tree).registry
  BY DEF Registered
<1>3. IsList(one) /\ IsList(two)
  BY <1>1
<1> HIDE DEF tree, domain, one, two
<1>4. Kept(reg, AddSchemaNode(reg, "ipv4", one, tree).registry)
  BY <1>3, AddKeeps
<1>5. Kept(reg, AddSchemaNode(reg, "base", two, tree).registry)
  BY <1>3, AddKeeps
<1> QED BY <1>2, <1>4, <1>5

LEMMA ProvidersKeep == Kept(EmbeddedRegistry, ProviderRegistry)
<1> DEFINE p == Providers[1]
           q == Providers[2]
           r == Providers[3]
           first == Registered(EmbeddedRegistry, p)
           second == Registered(first, q)
           third == Registered(second, r)
<1>1. p.schema = Dhcp4 /\ q.schema = OpenParams /\ r.schema = OpenParams
  BY DEF Providers, Provider
<1>2. ProviderRegistry = third
  BY DEF ProviderRegistry
<1> HIDE DEF p, q, r
<1>3. RegistryMade(first)
  BY <1>1, SchemasGrow, EmbeddedMade, RegisteredMade
<1>4. Kept(EmbeddedRegistry, first)
  BY EmbeddedMade, RegisteredKeeps
<1> HIDE DEF first
<1>5. RegistryMade(second)
  BY <1>1, <1>3, SchemasGrow, RegisteredMade
<1>6. Kept(first, second)
  BY <1>3, RegisteredKeeps
<1> HIDE DEF second
<1>7. Kept(second, third)
  BY <1>5, RegisteredKeeps
<1> HIDE DEF third
<1> QED BY <1>2, <1>4, <1>6, <1>7, KeptStays

KeptSinceTheStart == Kept(EmbeddedRegistry, registry)

LEMMA KeptStep ==
  ASSUME WellTyped, KeptSinceTheStart, [Next]_vars
  PROVE  KeptSinceTheStart'
<1>1. RegistryMade(registry) /\ extended \in Nat
  BY DEF WellTyped
<1>2. CASE registry' = registry
  BY <1>2 DEF KeptSinceTheStart
<1>3. CASE registry' # registry
  <2>1. PICK ext \in Extensions : Extend(ext)
    <3>1. Next
      BY <1>3 DEF vars, schema
    <3> QED BY <1>3, <3>1 DEF Next, schema, Query, Edit, Handwrite, Decode, Observe,
               PrepareStates, Save, Load, Insert, ProduceFromSet, Finish
  <2> DEFINE added == AddSchemaNode(registry, ext.fragment, ext.path, ext.node)
  <2>2. registry' = added.registry
    BY <2>1 DEF Extend
  <2>3. IsList(ext.path)
    BY DocumentsAssumption
  <2>4. Kept(registry, registry')
    BY <1>1, <2>2, <2>3, AddKeeps
  <2> HIDE DEF added
  <2>5. \A new : Kept(registry, new) => Kept(EmbeddedRegistry, new)
    BY KeptStays DEF KeptSinceTheStart
  <2> QED BY <2>4, <2>5 DEF KeptSinceTheStart
<1> QED BY <1>2, <1>3

LEMMA KeptHolds == Spec => [](WellTyped /\ KeptSinceTheStart)
<1>1. Init => KeptSinceTheStart
  BY KeptSame, ProvidersKeep DEF Init, KeptSinceTheStart
<1>2. WellTyped /\ KeptSinceTheStart /\ [Next]_vars => KeptSinceTheStart'
  BY KeptStep
<1> QED BY <1>1, <1>2, TypedHolds, PTL DEF Spec

-----------------------------------------------------------------------------
(* What validation finds with and without extensions. *)

\* Walking a map of properties that are no objects.
LEMMA WalkKept ==
  ASSUME NEW root, NEW new, RootKept(root, new), NEW map, NEW prefix, NEW ignored,
         NEW writableOnly,
         \A k \in Keys(map) \ ignored : k \in DOMAIN root.props /\ root.props[k].type # "object"
  PROVE  WalkMap(new, map, prefix, ignored, writableOnly)
           = WalkMap(root, map, prefix, ignored, writableOnly)
<1> DEFINE K == Keys(map) \ ignored
           found(n, k) ==
             IF k \notin DOMAIN n.props
             THEN Those("UnknownField", Append(prefix, k), ~n.open)
             ELSE Those("ReadOnlyField", Append(prefix, k), writableOnly /\ ~n.props[k].writable)
           missing(n) == {Violation("MissingField", Append(prefix, k)) :
                            k \in ToSet(n.required) \ (Keys(map) \cup ignored)}
           present(n) == {f \in ToSet(map) : f.key \in DOMAIN n.props \ ignored}
           places(n) == {Place(n.props[e.key], e.val, Append(prefix, e.key)) : e \in present(n)}
<1>1. \A k \in K : /\ k \in DOMAIN root.props /\ k \in DOMAIN new.props
                   /\ new.props[k] = root.props[k]
  BY DEF RootKept
<1>2. \A e \in ToSet(map) : e.key \in K \/ e.key \in ignored
  BY DEF Keys
<1>3. \A n : MapViolations(n, map, prefix, ignored, writableOnly)
               = UNION {found(n, k) : k \in K} \cup missing(n)
  BY DEF MapViolations
<1>4. \A n : PropertyPlaces(n, map, prefix, ignored) = places(n)
  BY DEF PropertyPlaces
<1>5. new.required = root.required
  BY DEF RootKept
<1>6. missing(new) = missing(root)
  BY <1>5
<1>7. \A k \in K : found(new, k) = found(root, k)
  BY <1>1
<1> HIDE DEF found, missing, K
<1>8. MapViolations(new, map, prefix, ignored, writableOnly)
        = MapViolations(root, map, prefix, ignored, writableOnly)
  <2>1. UNION {found(new, k) : k \in K} = UNION {found(root, k) : k \in K}
    BY <1>7
  <2> QED BY <1>3, <1>6, <2>1
<1>9. places(new) = places(root)
  <2>1. \A e \in ToSet(map) :
          /\ e.key \in DOMAIN new.props \ ignored <=> e.key \in DOMAIN root.props \ ignored
          /\ e.key \in DOMAIN root.props \ ignored => new.props[e.key] = root.props[e.key]
    BY <1>1, <1>2
  <2>2. present(new) = present(root)
    BY <2>1
  <2>3. \A e \in present(root) : new.props[e.key] = root.props[e.key]
    BY <2>1
  <2> HIDE DEF present
  <2> QED BY <2>2, <2>3
<1> HIDE DEF places
<1> QED BY <1>4, <1>8, <1>9 DEF WalkMap
\* The properties of the embedded schemas that are no objects.
BaseKeys == {"type", "name", "mac", "driver", "carrier", "enabled", "mtu"}
GroupKeys(trigger) ==
  IF trigger = "ipv4" THEN {"addresses"} ELSE {"speed", "autoneg", "duplex"}
Plain(root, keys) == \A k \in keys : k \in DOMAIN root.props /\ root.props[k].type # "object"

LEMMA LeafTypes ==
  ASSUME NEW type, type # "object", NEW x
  PROVE  /\ ReadOnly(type).type # "object" /\ Writable(type).type # "object"
         /\ [Writable(type) EXCEPT !.items = x].type # "object"
         /\ [ReadOnly(type) EXCEPT !.enum = x].type # "object"
BY DEF ReadOnly, Writable, Blank

LEMMA BasePlain == Plain(Base, BaseKeys)
<1> DEFINE limited == [Writable("integer") EXCEPT !.min = {68}, !.max = {65535}]
           props == [type |-> ReadOnly("string"), name |-> ReadOnly("string"),
                     mac |-> ReadOnly("string"), driver |-> ReadOnly("string"),
                     carrier |-> ReadOnly("boolean"), enabled |-> Writable("boolean"),
                     mtu |-> limited]
<1>1. Base.props = props
  <2>1. Base = ObjectOf(props)
    BY DEF Base
  <2>2. props = [k \in DOMAIN props |-> props[k]]
    OBVIOUS
  <2> HIDE DEF props
  <2> QED BY <2>1, <2>2, ObjectMade
<1>2. limited.type # "object"
  BY DEF Writable, Blank
<1>3. /\ ReadOnly("string").type # "object" /\ ReadOnly("boolean").type # "object"
      /\ Writable("boolean").type # "object"
  BY LeafTypes
<1> HIDE DEF limited
<1>4. \A k \in BaseKeys :
        k \in DOMAIN props /\ props[k] \in {ReadOnly("string"), ReadOnly("boolean"),
                                            Writable("boolean"), limited}
  BY DEF BaseKeys
<1> HIDE DEF props
<1> QED BY <1>1, <1>2, <1>3, <1>4 DEF Plain

LEMMA EthernetPlain == Plain(Ethernet, GroupKeys("ethernet"))
<1> DEFINE duplex == [ReadOnly("string") EXCEPT !.enum = {"full", "half", "unknown"}]
           props == [speed |-> ReadOnly("integer"), autoneg |-> ReadOnly("boolean"),
                     duplex |-> duplex]
           o == ObjectOf(props)
<1>1. Ethernet = [o EXCEPT !.implied = "ethernet"]
  BY DEF Ethernet
<1>2. /\ duplex.type # "object" /\ ReadOnly("integer").type # "object"
      /\ ReadOnly("boolean").type # "object"
  BY LeafTypes
<1> HIDE DEF duplex
<1>3. /\ props = [k \in DOMAIN props |-> props[k]]
      /\ \A k \in GroupKeys("ethernet") :
           k \in DOMAIN props /\ props[k] \in {ReadOnly("integer"), ReadOnly("boolean"), duplex}
  BY DEF GroupKeys
<1> HIDE DEF props
<1>4. NodeMade(o) /\ o.props = props
  BY <1>3, ObjectMade
<1> HIDE DEF o
<1>5. Ethernet.props = props
  BY <1>1, <1>4, BlankIs DEF NodeMade
<1> QED BY <1>2, <1>3, <1>5 DEF Plain

LEMMA Ipv4Plain == Plain(Ipv4, GroupKeys("ipv4"))
<1> DEFINE item == [ObjectOf([ip |-> [Writable("string") EXCEPT !.cidr = TRUE],
                              valid_lft |-> Writable("integer"),
                              preferred_lft |-> Writable("integer")])
                    EXCEPT !.required = <<"ip">>]
           items == <<item>>
           addresses == [Writable("array") EXCEPT !.items = items]
           props == [addresses |-> addresses]
<1>1. Ipv4 = ObjectOf(props)
  BY DEF Ipv4
<1> HIDE DEF items
<1>2. addresses.type # "object"
  BY LeafTypes
<1> HIDE DEF addresses
<1>3. /\ props = [k \in DOMAIN props |-> props[k]]
      /\ \A k \in GroupKeys("ipv4") : k \in DOMAIN props /\ props[k] = addresses
  BY DEF GroupKeys
<1> HIDE DEF props
<1>4. Ipv4.props = props
  BY <1>1, <1>3, ObjectMade
<1> QED BY <1>2, <1>3, <1>4 DEF Plain

LEMMA EmbeddedPlain ==
  /\ Plain(EmbeddedRegistry[1].root, BaseKeys)
  /\ Plain(EmbeddedRegistry[2].root, GroupKeys("ipv4"))
  /\ Plain(EmbeddedRegistry[3].root, GroupKeys("ethernet"))
<1>1. EmbeddedRegistry[1].root = Base
  BY EmbeddedBase
<1>2. EmbeddedRegistry[2].root = Ipv4
  <2> DEFINE f == EmbeddedRegistry[2]
  <2>1. PICK S : Ipv4 \in S /\ Growing(S)
    BY Ipv4Grows
  <2>2. f = Fragment("ipv4", "ipv4", Ipv4)
    BY Zenon DEF EmbeddedRegistry
  <2> HIDE DEF f
  <2>3. f.root = Ipv4
    BY <2>1, <2>2, FragmentIs
  <2> QED BY <2>3 DEF f
<1>3. EmbeddedRegistry[3].root = Ethernet
  <2> DEFINE f == EmbeddedRegistry[3]
  <2>1. PICK S : Ethernet \in S /\ Growing(S)
    BY EthernetGrows
  <2>2. f = Fragment("ethernet", "ethernet", Ethernet)
    BY Zenon DEF EmbeddedRegistry
  <2> HIDE DEF f
  <2>3. f.root = Ethernet
    BY <2>1, <2>2, FragmentIs
  <2> QED BY <2>3 DEF f
<1> QED BY <1>1, <1>2, <1>3, BasePlain, EthernetPlain, Ipv4Plain
\* Fields with no value below an open object: what is observed is of this kind.
Belongs(key, value) ==
  \/ key \in BaseKeys
  \/ /\ key \in {"ipv4", "ethernet"}
     /\ Is(value, "map") => Keys(value.map) \subseteq GroupKeys(key)
Closed(fields) == IsList(fields) /\ \A e \in ToSet(fields) : Belongs(e.key, e.val)

LEMMA GroupSame ==
  ASSUME NEW reg, RegistryMade(reg), NEW new, RegistryMade(new), Kept(reg, new),
         NEW i \in {2, 3}, Plain(reg[i].root, GroupKeys(reg[i].trigger)),
         NEW state, Closed(state.fields), NEW writableOnly
  PROVE  FragmentViolations(new, new[i], state, writableOnly)
           = FragmentViolations(reg, reg[i], state, writableOnly)
<1> DEFINE trigger == reg[i].trigger
           root == reg[i].root
           other == new[i].root
           value == At(state.fields, trigger)
           walk(n) == WalkMap(n, value.map, <<trigger>>, {}, writableOnly)
           found(n) == IF trigger \notin Keys(state.fields) THEN {}
                       ELSE IF Is(value, "map") THEN walk(n)
                       ELSE {Violation("WrongType", <<trigger>>)}
<1>1. trigger \in {"ipv4", "ethernet"} /\ new[i].trigger = trigger
  BY DEF RegistryMade
<1>2. trigger # NoType /\ trigger \notin BaseKeys
  BY <1>1, Zenon DEF NoType, BaseKeys
<1>3. /\ FragmentViolations(new, new[i], state, writableOnly) = found(other)
      /\ FragmentViolations(reg, reg[i], state, writableOnly) = found(root)
  BY <1>1, <1>2, Zenon DEF FragmentViolations, NoType
<1>4. RootKept(root, other)
  BY DEF Kept
<1>5. trigger \in Keys(state.fields) /\ Is(value, "map") =>
        \A k \in Keys(value.map) \ {} : k \in DOMAIN root.props /\ root.props[k].type # "object"
  <2> SUFFICES ASSUME trigger \in Keys(state.fields), Is(value, "map")
               PROVE  \A k \in Keys(value.map) : k \in DOMAIN root.props /\ root.props[k].type # "object"
    OBVIOUS
  <2>1. PICK e \in ToSet(state.fields) : e.key = trigger /\ value = e.val
    BY DEF Keys, At
  <2>2. Keys(value.map) \subseteq GroupKeys(trigger)
    <3> HIDE DEF value, trigger
    <3> QED BY <1>2, <2>1 DEF Closed, Belongs
  <2> HIDE DEF value, root, trigger
  <2>3. Plain(root, GroupKeys(trigger))
    BY DEF root, trigger
  <2> QED BY <2>2, <2>3 DEF Plain
<1> HIDE DEF value, root, other, trigger
<1>6. trigger \in Keys(state.fields) /\ Is(value, "map") => walk(other) = walk(root)
  BY <1>4, <1>5, WalkKept
<1> HIDE DEF walk
<1> QED BY <1>3, <1>6 DEF trigger, root, other

LEMMA BaseSame ==
  ASSUME NEW reg, RegistryMade(reg), NEW new, RegistryMade(new), Kept(reg, new),
         Plain(reg[1].root, BaseKeys),
         NEW state, Closed(state.fields), NEW writableOnly
  PROVE  FragmentViolations(new, new[1], state, writableOnly)
           = FragmentViolations(reg, reg[1], state, writableOnly)
<1> DEFINE root == reg[1].root
           other == new[1].root
           triggers == {"ipv4", "ethernet"}
           typed(n) == IF state.device_type = NoType THEN {}
                       ELSE WalkPlaces({Place(n.props["type"], Str(state.device_type),
                                              <<"type">>)}, FALSE)
           walk(n) == WalkMap(n, state.fields, <<>>, triggers, writableOnly)
<1>1. reg[1].trigger = NoType /\ new[1].trigger = NoType
  BY Zenon DEF RegistryMade, NoType
<1>2. Triggers(reg) = triggers /\ Triggers(new) = triggers
  BY TriggersAre
<1>3. /\ FragmentViolations(new, new[1], state, writableOnly) = walk(other) \cup typed(other)
      /\ FragmentViolations(reg, reg[1], state, writableOnly) = walk(root) \cup typed(root)
  BY <1>1, <1>2, Zenon DEF FragmentViolations, NoType
<1>4. RootKept(root, other)
  BY DEF Kept
<1>5. \A k \in Keys(state.fields) \ triggers :
        k \in DOMAIN root.props /\ root.props[k].type # "object"
  <2>1. \A e \in ToSet(state.fields) : e.key \in BaseKeys \/ e.key \in triggers
    BY DEF Closed, Belongs
  <2>2. Plain(root, BaseKeys)
    OBVIOUS
  <2> HIDE DEF root, triggers
  <2> QED BY <2>1, <2>2 DEF Plain, Keys
<1>6. root.props["type"].type # "object" /\ "type" \in DOMAIN root.props
  <2>1. "type" \in BaseKeys
    BY DEF BaseKeys
  <2> QED BY <2>1 DEF Plain
<1> HIDE DEF root, other, triggers
<1>7. walk(other) = walk(root)
  BY <1>4, <1>5, WalkKept
<1>8. typed(other) = typed(root)
  <2>1. other.props["type"] = root.props["type"]
    BY <1>4, <1>6 DEF RootKept
  <2> HIDE DEF NoType
  <2> QED BY <2>1
<1> HIDE DEF walk, typed
<1> QED BY <1>3, <1>7, <1>8 DEF root, other

\* Validation finds in such a state what it found before any extension.
LEMMA SameValidation ==
  ASSUME NEW reg, RegistryMade(reg), Kept(EmbeddedRegistry, reg),
         NEW state, Closed(state.fields), NEW writableOnly
  PROVE  ValidateInner(reg, state, writableOnly)
           = ValidateInner(EmbeddedRegistry, state, writableOnly)
<1> DEFINE first == EmbeddedRegistry
           of(r, i) == FragmentViolations(r, r[i], state, writableOnly)
<1>1. /\ RegistryMade(first) /\ Kept(first, reg) /\ Plain(first[1].root, BaseKeys)
      /\ \A i \in {2, 3} : Plain(first[i].root, GroupKeys(first[i].trigger))
  <2>1. first[2].trigger = "ipv4" /\ first[3].trigger = "ethernet"
    BY EmbeddedMade DEF RegistryMade
  <2>2. RegistryMade(first) /\ Kept(first, reg)
    BY EmbeddedMade
  <2>3. /\ Plain(first[1].root, BaseKeys)
        /\ Plain(first[2].root, GroupKeys(first[2].trigger))
        /\ Plain(first[3].root, GroupKeys(first[3].trigger))
    BY <2>1, EmbeddedPlain
  <2> HIDE DEF first
  <2> QED BY <2>2, <2>3
<1> HIDE DEF first
<1>2. of(reg, 1) = of(first, 1)
  BY <1>1, BaseSame
<1>3. \A i \in {2, 3} : of(reg, i) = of(first, i)
  BY <1>1, GroupSame
<1>4. DOMAIN reg = {1, 2, 3} /\ DOMAIN first = {1, 2, 3}
  BY <1>1, TriggersAre
<1>5. \A r : ValidateInner(r, state, writableOnly) = UNION {of(r, i) : i \in DOMAIN r}
  BY DEF ValidateInner
<1> HIDE DEF of
<1>6. {of(reg, i) : i \in DOMAIN reg} = {of(first, i) : i \in DOMAIN first}
  BY <1>2, <1>3, <1>4
<1> QED BY <1>5, <1>6 DEF first
-----------------------------------------------------------------------------
(* The fields that are observed. *)

\* What is collected comes from the given.
CollectedOf(map, entries) ==
  IsList(map) /\ \A x \in ToSet(map) : \E e \in ToSet(entries) : x.key = e.key /\ x.val = e.val

LEMMA WithOf ==
  ASSUME NEW map, IsList(map), NEW key, NEW value
  PROVE  /\ IsList(With(map, key, value))
         /\ \A x \in ToSet(With(map, key, value)) :
              x \in ToSet(map) \/ (x.key = key /\ x.val = value)
<1> DEFINE e == Entry(key, value)
<1>1. e.val = value /\ e.key = key
  BY DEF Entry
<1>2. CASE key \in Keys(map)
  <2> DEFINE t == [i \in DOMAIN map |-> IF map[i].key = key THEN e ELSE map[i]]
  <2>1. With(map, key, value) = t
    BY <1>2 DEF With
  <2>2. t = [i \in DOMAIN map |-> t[i]]
    OBVIOUS
  <2>3. \A i \in DOMAIN map : t[i] = e \/ t[i] = map[i]
    OBVIOUS
  <2> HIDE DEF t, e
  <2>4. IsList(t) /\ DOMAIN t = DOMAIN map
    BY <2>2, ListMade
  <2> QED BY <1>1, <2>1, <2>3, <2>4 DEF ToSet
<1>3. CASE key \notin Keys(map)
  <2> DEFINE t == Append(map, e)
             n == Len(map)
  <2>1. With(map, key, value) = t
    BY <1>3 DEF With
  <2> HIDE DEF e
  <2>2. /\ IsList(t) /\ Len(t) = n + 1 /\ t[n + 1] = e /\ \A i \in 1 .. n : t[i] = map[i]
        /\ n \in Nat /\ DOMAIN map = 1 .. n
    BY ListAppend, ListLen
  <2> HIDE DEF t, n
  <2>3. DOMAIN t = 1 .. n + 1
    BY <2>2, ListLen
  <2>4. \A i \in 1 .. n + 1 : i \in 1 .. n \/ i = n + 1
    BY <2>2
  <2> QED BY <1>1, <2>1, <2>2, <2>3, <2>4 DEF ToSet
<1> QED BY <1>2, <1>3

LEMMA CollectedFrom ==
  ASSUME NEW entries, IsList(entries)
  PROVE  CollectedOf(Collected(entries), entries)
<1> DEFINE f == CHOOSE f : Collects(f, entries)
<1>1. Collects(f, entries)
  BY CollectsExists
<1>2. Collected(entries) = f[Len(entries)]
  BY DEF Collected, Collects
<1> HIDE DEF f
<1>3. Len(entries) \in Nat /\ DOMAIN entries = 1 .. Len(entries)
  BY ListLen
<1> DEFINE Q == {n \in 0 .. Len(entries) : CollectedOf(f[n], entries)}
<1>4. 0 \in Q
  <2>1. f[0] = <<>>
    BY <1>1, <1>3 DEF Collects
  <2> QED BY <1>3, <2>1, EmptyList DEF CollectedOf, ToSet
<1>5. ASSUME NEW n \in 0 .. Len(entries) - 1, n \in Q
      PROVE  n + 1 \in Q
  <2>1. n + 1 \in 1 .. Len(entries) /\ (n + 1) - 1 = n /\ n + 1 # 0 /\ n + 1 \in 0 .. Len(entries)
    BY <1>3
  <2>2. f[n + 1] = With(f[n], entries[n + 1].key, entries[n + 1].val)
    BY <1>1, <2>1 DEF Collects
  <2>3. entries[n + 1] \in ToSet(entries)
    BY <1>3, <2>1 DEF ToSet
  <2>4. CollectedOf(f[n], entries)
    BY <1>5
  <2> HIDE DEF Q
  <2>5. CollectedOf(f[n + 1], entries)
    <3> DEFINE m == f[n]
               e == entries[n + 1]
               more == With(m, e.key, e.val)
    <3>1. f[n + 1] = more /\ e \in ToSet(entries) /\ CollectedOf(m, entries)
      BY <2>2, <2>3, <2>4
    <3> HIDE DEF m, e
    <3>2. IsList(more) /\ \A x \in ToSet(more) : x \in ToSet(m) \/ (x.key = e.key /\ x.val = e.val)
      BY <3>1, WithOf DEF CollectedOf
    <3> HIDE DEF more
    <3> QED BY <3>1, <3>2 DEF CollectedOf
  <2> QED BY <2>1, <2>5 DEF Q
<1> HIDE DEF Q
<1>6. 0 .. Len(entries) \subseteq Q
  BY <1>3, <1>4, <1>5, UpTo
<1>7. Len(entries) \in Q
  BY <1>3, <1>6
<1> QED BY <1>2, <1>7 DEF Q

\* The keys of what is put together of lists of at most one entry.
LEMMA CollectedKeys ==
  ASSUME NEW first, IsList(first), NEW s, IsList(s), NEW keys,
         \A e \in ToSet(first) : e.key \in keys,
         \A i \in DOMAIN s : s[i] = <<>> \/ \E e : e.key \in keys /\ s[i] = <<e>>
  PROVE  LET map == Collected(first \o FlattenSeq(s))
         IN  IsList(map) /\ \A x \in ToSet(map) : x.key \in keys
<1> DEFINE rest == FlattenSeq(s)
           all == first \o rest
           map == Collected(all)
<1>1. \A i \in DOMAIN s : IsList(s[i]) /\ \A e \in Elements(s[i]) : e.key \in keys
  BY EmptyList, OneInList DEF Elements
<1>2. IsList(rest) /\ \A e \in ToSet(rest) : e.key \in keys
  <2>1. IsList(rest) /\ \A x \in Elements(rest) : \E i \in DOMAIN s : x \in Elements(s[i])
    BY <1>1, Flattened
  <2> HIDE DEF rest
  <2> QED BY <1>1, <2>1 DEF ToSet, Elements
<1> HIDE DEF rest
<1>3. IsList(all) /\ \A e \in ToSet(all) : e.key \in keys
  <2>1. IsList(all) /\ Elements(all) = Elements(first) \cup Elements(rest)
    BY <1>2, ListTwo
  <2> HIDE DEF all
  <2> QED BY <1>2, <2>1 DEF ToSet, Elements
<1> HIDE DEF all
<1>4. CollectedOf(map, all)
  BY <1>3, CollectedFrom
<1> HIDE DEF map
<1>5. IsList(map) /\ \A x \in ToSet(map) : x.key \in keys
  BY <1>3, <1>4 DEF CollectedOf
<1> QED BY <1>5 DEF map, all, rest
LEMMA LinkFieldsClosed ==
  ASSUME NEW link, IsList(link.attributes)
  PROVE  Closed(LinkFields(link))
<1> DEFINE parsed == ParsedAttributes(link)
           more == [i \in DOMAIN parsed |-> AttributeField(parsed[i])]
           name == Entry("name", Str(LinkName(link)))
           enabled == Entry("enabled", Bool(link.up))
           first == <<name, enabled>>
<1>1. IsList(parsed)
  BY ListOnly DEF ParsedAttributes
<1>2. LinkFields(link) = Collected(first \o FlattenSeq(more))
  BY DEF LinkFields
<1>3. name.key \in BaseKeys /\ enabled.key \in BaseKeys
  BY DEF Entry, BaseKeys
<1>4. \A i \in DOMAIN parsed : more[i] = <<>> \/ \E e : e.key \in BaseKeys /\ more[i] = <<e>>
  <2> SUFFICES ASSUME NEW i \in DOMAIN parsed
               PROVE  more[i] = <<>> \/ \E e : e.key \in BaseKeys /\ more[i] = <<e>>
    OBVIOUS
  <2> DEFINE a == parsed[i]
  <2>1. \/ more[i] = <<Entry("mtu", U64(a.mtu))>>
        \/ more[i] = <<Entry("carrier", Bool(a.carrier = 1))>>
        \/ more[i] = <<Entry("mac", Str(a.mac))>>
        \/ more[i] = <<>>
    BY DEF AttributeField
  <2>2. \A v : /\ Entry("mtu", v).key \in BaseKeys /\ Entry("carrier", v).key \in BaseKeys
               /\ Entry("mac", v).key \in BaseKeys
    BY DEF Entry, BaseKeys
  <2> HIDE DEF more, parsed
  <2> QED BY <2>1, <2>2
<1>5. more = [i \in DOMAIN parsed |-> more[i]]
  OBVIOUS
<1> HIDE DEF more, parsed, name, enabled
<1>6. IsList(more) /\ DOMAIN more = DOMAIN parsed
  BY <1>1, <1>5, ListMade
<1>7. IsList(first) /\ \A e \in ToSet(first) : e.key \in BaseKeys
  BY <1>3, TwoInList DEF ToSet, Elements
<1> DEFINE fields == Collected(first \o FlattenSeq(more))
<1> HIDE DEF first
<1>8. IsList(fields) /\ \A x \in ToSet(fields) : x.key \in BaseKeys
  BY <1>4, <1>6, <1>7, CollectedKeys
<1> QED BY <1>2, <1>8 DEF Closed, Belongs, fields

LEMMA EthernetFieldsClosed ==
  ASSUME NEW answers, IsList(answers)
  PROVE  Keys(EthernetFields(answers)) \subseteq GroupKeys("ethernet")
<1> DEFINE keys == GroupKeys("ethernet")
           more == [i \in DOMAIN answers |-> EthernetField(answers[i])]
           none == <<>>
<1>1. IsList(none) /\ \A e \in ToSet(none) : e.key \in keys
  BY EmptyList DEF ToSet
<1>2. EthernetFields(answers) = Collected(FlattenSeq(more))
  BY DEF EthernetFields
<1>3. \A i \in DOMAIN answers : more[i] = <<>> \/ \E e : e.key \in keys /\ more[i] = <<e>>
  <2> SUFFICES ASSUME NEW i \in DOMAIN answers
               PROVE  more[i] = <<>> \/ \E e : e.key \in keys /\ more[i] = <<e>>
    OBVIOUS
  <2> DEFINE a == answers[i]
  <2>1. \/ more[i] = <<Entry("speed", U64(a.speed))>>
        \/ more[i] = <<Entry("autoneg", Bool(a.autoneg))>>
        \/ more[i] = <<Entry("duplex", Str(a.duplex))>>
        \/ more[i] = <<>>
    BY DEF EthernetField
  <2>2. \A v : /\ Entry("speed", v).key \in keys /\ Entry("autoneg", v).key \in keys
               /\ Entry("duplex", v).key \in keys
    BY DEF Entry, GroupKeys
  <2> HIDE DEF more, keys
  <2> QED BY <2>1, <2>2
<1>4. more = [i \in DOMAIN answers |-> more[i]]
  OBVIOUS
<1> HIDE DEF more
<1>5. IsList(more) /\ DOMAIN more = DOMAIN answers
  BY <1>4, ListMade
<1> DEFINE rest == FlattenSeq(more)
<1>6. IsList(rest) /\ none \o rest = rest
  <2>1. \A i \in DOMAIN more : IsList(more[i])
    <3>1. IsList(<<>>) /\ \A e : IsList(<<e>>)
      BY EmptyList, OneInList
    <3> HIDE DEF rest, keys, none
    <3> QED BY <1>3, <1>5, <3>1
  <2>2. IsList(rest)
    BY <1>5, <2>1, Flattened
  <2> HIDE DEF rest
  <2> QED BY <2>2 DEF IsList
<1> DEFINE map == Collected(none \o FlattenSeq(more))
<1> HIDE DEF none, keys
<1>7. IsList(map) /\ \A x \in ToSet(map) : x.key \in keys
  BY <1>1, <1>3, <1>5, CollectedKeys
<1>8. EthernetFields(answers) = map
  BY <1>2, <1>6
<1> HIDE DEF map
<1> QED BY <1>7, <1>8 DEF Keys, keys

LEMMA ClosedWith ==
  ASSUME NEW fields, Closed(fields), NEW key, NEW value, Belongs(key, value)
  PROVE  Closed(With(fields, key, value))
<1> DEFINE new == With(fields, key, value)
<1>1. /\ IsList(new)
      /\ \A x \in ToSet(new) : x \in ToSet(fields) \/ (x.key = key /\ x.val = value)
  BY WithOf DEF Closed
<1> HIDE DEF new
<1>2. Closed(new)
  BY <1>1 DEF Closed
<1> QED BY <1>2 DEF new

\* What a query observes of a device is of the embedded schemas.
LEMMA DeviceClosed ==
  ASSUME NEW device, DeviceMade(device)
  PROVE  Closed(DeviceState(device).fields)
<1> DEFINE type == Classify(device.link, device.wireless, device.legacy)
           link == LinkState(device.link, type)
           answers == device.answers
           enriched == Enriched(link, device.driver, device.pci_path, answers)
           ethernet == IF link.device_type = "ethernet" THEN EthernetFields(answers) ELSE <<>>
           text == Str(One(device.driver, ""))
           driven == IF device.driver = {} THEN link.fields ELSE With(link.fields, "driver", text)
           fields == IF ethernet = <<>> THEN driven ELSE With(driven, "ethernet", Map(ethernet))
           distinct == Distinct(device.addresses)
           e == Entry("addresses", List([i \in DOMAIN distinct |-> AddressValue(distinct[i])]))
           state == DeviceState(device)
<1>1. link.fields = LinkFields(device.link) /\ "fields" \in DOMAIN link
  <2> DEFINE new == NewState(Kernel)
             f == LinkFields(device.link)
             match == Matching("name", LinkName(device.link)) ++ Matching("type", type)
                        ++ FieldString(f, "mac")
  <2>1. link = [new EXCEPT !.device_type = type, !.fields = f, !.match = match]
    BY DEF LinkState
  <2>2. "fields" \in DOMAIN new
    BY NewStateMade, NumberedIsMade DEF StateMade
  <2> HIDE DEF new, f, match, type, link
  <2> QED BY <2>1, <2>2 DEF f
<1>2. Closed(link.fields)
  BY <1>1, LinkFieldsClosed DEF DeviceMade
<1> HIDE DEF link, text, e
<1>3. Closed(driven)
  <2>1. Belongs("driver", text)
    BY DEF Belongs, BaseKeys
  <2> QED BY <1>2, <2>1, ClosedWith
<1>4. enriched.fields = fields /\ "fields" \in DOMAIN enriched
  <2> DEFINE match == link.match ++ IfSet("driver", device.driver) ++ IfSet("pci_path", device.pci_path)
  <2>1. enriched = [link EXCEPT !.match = match, !.fields = fields]
    BY Zenon DEF Enriched, text
  <2> HIDE DEF match, fields, enriched
  <2> QED BY <1>1, <2>1
<1>5. Keys(ethernet) \subseteq GroupKeys("ethernet")
  <2>1. Keys(<<>>) = {}
    BY EmptyList DEF Keys, ToSet
  <2> QED BY <2>1, EthernetFieldsClosed DEF DeviceMade
<1> HIDE DEF driven, ethernet, enriched
<1>6. Closed(fields)
  <2>1. Belongs("ethernet", Map(ethernet))
    BY <1>5 DEF Belongs, Map
  <2> QED BY <1>3, <2>1, ClosedWith
<1> HIDE DEF fields
<1>7. state = enriched \/ state = [enriched EXCEPT !.fields = With(@, "ipv4", Map(<<e>>))]
  BY DEF DeviceState, WithAddresses, enriched, link, e
<1>8. state.fields \in {fields, With(fields, "ipv4", Map(<<e>>))}
  <2> HIDE DEF state
  <2> QED BY <1>4, <1>7
<1>9. Closed(With(fields, "ipv4", Map(<<e>>)))
  <2> DEFINE map == <<e>>
  <2>1. Keys(map) \subseteq GroupKeys("ipv4")
    <3>1. e.key = "addresses"
      BY DEF e, Entry
    <3>2. ToSet(map) = {e}
      BY OneInList DEF ToSet, Elements
    <3> HIDE DEF map
    <3> QED BY <3>1, <3>2 DEF Keys, GroupKeys
  <2> HIDE DEF map
  <2>2. Belongs("ipv4", Map(map))
    BY <2>1 DEF Belongs, Map
  <2>3. Closed(With(fields, "ipv4", Map(map)))
    BY <1>6, <2>2, ClosedWith
  <2> QED BY <2>3 DEF map
<1> HIDE DEF state
<1>10. Closed(state.fields)
  BY <1>6, <1>8, <1>9
<1> QED BY <1>10 DEF state
-----------------------------------------------------------------------------
(* What may be written of them. *)

\* What is left of a map is a map, of no other keys.
LEMMA StripMap ==
  ASSUME NEW sch, NEW value, Is(value, "map"), IsList(value.map), NEW path
  PROVE  \E entries : /\ Strip(sch, value, path, FALSE).left = <<Map(entries)>>
                      /\ Keys(entries) \subseteq Keys(value.map)
<1> DEFINE s == Stripping(sch, value, path, FALSE)
           parts == PartsToStrip(s)
<1>1. s.value = value /\ ~s.property
  BY DEF Stripping
<1> DEFINE made == CHOOSE f : f =
             [node \in Reached(LAMBDA n : ToSet(PartsToStrip(n)), {s}) |->
                Stripped(node, Listed([i \in DOMAIN PartsToStrip(node) |->
                                         f[PartsToStrip(node)[i]]]))]
<1>2. Strip(sch, value, path, FALSE) = Stripped(s, Listed([i \in DOMAIN parts |-> made[parts[i]]]))
  BY DEF Strip, OfTree
<1> HIDE DEF made
<1> DEFINE of == Listed([i \in DOMAIN parts |-> made[parts[i]]])
           map == value.map
           kept == KeptParts(map, of)
           entries == FlattenSeq(kept)
<1> HIDE DEF of
<1>3. \A v, r : Left(v, r).left = <<v>>
  BY DEF Left
<1> HIDE DEF s, parts
<1>4. Stripped(s, of).left = <<Map(entries)>>
  BY <1>1, <1>3 DEF Stripped
<1>5. kept = [i \in DOMAIN map |-> kept[i]]
  BY DEF KeptParts
<1>6. \A i \in DOMAIN map : kept[i] = <<>> \/ \E v : kept[i] = <<Entry(map[i].key, v)>>
  BY DEF KeptParts
<1> HIDE DEF kept, map
<1>7. IsList(kept) /\ DOMAIN kept = DOMAIN map
  BY <1>5, ListMade DEF map
<1>8. \A i \in DOMAIN kept : IsList(kept[i]) /\ \A x \in Elements(kept[i]) : x.key = map[i].key
  <2>1. \A k, v : Entry(k, v).key = k
    BY DEF Entry
  <2>2. IsList(<<>>) /\ Elements(<<>>) = {}
    BY EmptyList DEF Elements
  <2>3. \A e : IsList(<<e>>) /\ Elements(<<e>>) = {e}
    BY OneInList
  <2> HIDE DEF entries
  <2>4. ASSUME NEW i \in DOMAIN kept
        PROVE  IsList(kept[i]) /\ \A x \in Elements(kept[i]) : x.key = map[i].key
    <3>1. CASE kept[i] = <<>>
      BY <2>2, <3>1
    <3>2. CASE \E v : kept[i] = <<Entry(map[i].key, v)>>
      <4>1. PICK v : kept[i] = <<Entry(map[i].key, v)>>
        BY <3>2
      <4> DEFINE e == Entry(map[i].key, v)
      <4>2. e.key = map[i].key
        BY <2>1
      <4>3. IsList(kept[i]) /\ Elements(kept[i]) = {e}
        BY <2>3, <4>1
      <4> HIDE DEF e
      <4> QED BY <4>2, <4>3
    <3> QED BY <1>6, <1>7, <3>1, <3>2
  <2> QED BY <2>4
<1>9. \A x \in Elements(entries) : \E i \in DOMAIN kept : x \in Elements(kept[i])
  BY <1>7, <1>8, Flattened
<1> HIDE DEF entries
<1>10. Keys(entries) \subseteq Keys(map)
  BY <1>7, <1>8, <1>9 DEF Keys, ToSet, Elements
<1>11. Strip(sch, value, path, FALSE).left = <<Map(entries)>>
  BY <1>2, <1>4 DEF of, parts
<1> QED BY <1>10, <1>11 DEF map

LEMMA ClosedOne ==
  ASSUME NEW e, Belongs(e.key, e.val)
  PROVE  Closed(<<e>>)
<1>2. IsList(<<e>>) /\ Elements(<<e>>) = {e}
  BY OneInList
<1> DEFINE list == <<e>>
<1> HIDE DEF list
<1>3. IsList(list) /\ Elements(list) = {e}
  BY <1>2 DEF list
<1>4. Closed(list)
  BY <1>3 DEF Closed, ToSet, Elements
<1> QED BY <1>4 DEF list

LEMMA StripTopLevelClosed ==
  ASSUME NEW reg, RegistryMade(reg), NEW e, ValueMade(e.val), Belongs(e.key, e.val)
  PROVE  Closed(StripTopLevel(reg, e).left)
<1> DEFINE root == reg[CHOOSE i \in TriggeredBy(reg, e.key) : TRUE].root
           group == Strip(<<root>>, e.val, <<e.key>>, FALSE)
           single == Strip(PropertySchema(<<BaseRoot(reg)>>, e.key), e.val, <<e.key>>, TRUE)
           left == StripTopLevel(reg, e).left
           key == e.key
           value == e.val
<1>1. Closed(<<>>)
  BY EmptyList DEF Closed, ToSet
<1>2. key \in {"ipv4", "ethernet"} => TriggeredBy(reg, key) # {}
  <2>1. DOMAIN reg = {1, 2, 3}
    BY TriggersAre
  <2>2. reg[2].trigger = "ipv4" /\ reg[3].trigger = "ethernet"
    BY DEF RegistryMade
  <2>3. "ipv4" # NoType /\ "ethernet" # NoType
    BY Zenon DEF NoType
  <2>4. TriggeredBy(reg, key) = {i \in DOMAIN reg : reg[i].trigger = key /\ key # NoType}
    BY Zenon DEF TriggeredBy, NoType
  <2> HIDE DEF key
  <2> QED BY <2>1, <2>2, <2>3, <2>4
<1>3. Is(value, "map") => IsList(value.map)
  BY DEF ValueMade
<1>4. Is(value, "map") => \E entries : /\ group.left = <<Map(entries)>>
                                      /\ Keys(entries) \subseteq Keys(value.map)
  <2> DEFINE path == <<e.key>>
             sch == <<root>>
  <2> HIDE DEF path, root, sch
  <2>1. Is(value, "map") => \E entries : /\ Strip(sch, value, path, FALSE).left = <<Map(entries)>>
                                         /\ Keys(entries) \subseteq Keys(value.map)
    BY <1>3, StripMap
  <2> QED BY <2>1 DEF path, sch
<1>5. \/ left = <<e>>
      \/ left = <<>>
      \/ Is(value, "map") /\ left = <<Entry(key, group.left[1])>>
      \/ TriggeredBy(reg, key) = {} /\ left = <<Entry(key, single.left[1])>>
  <2> HIDE DEF group, single
  <2> QED BY DEF StripTopLevel, GroupLeft, group, single
<1> HIDE DEF group, single, left, key, value
<1>6. \A k, v : Belongs(k, v) => Closed(<<Entry(k, v)>>)
  <2>1. \A k, v : Entry(k, v).key = k /\ Entry(k, v).val = v
    BY DEF Entry
  <2> QED BY <2>1, ClosedOne
<1>7. left = <<e>> => Closed(left)
  BY ClosedOne
<1>8. ASSUME Is(value, "map"), left = <<Entry(key, group.left[1])>>
      PROVE  Closed(left)
  <2>1. PICK entries : group.left = <<Map(entries)>> /\ Keys(entries) \subseteq Keys(value.map)
    BY <1>4, <1>8
  <2>2. group.left[1] = Map(entries)
    BY <2>1
  <2>3. Belongs(key, Map(entries))
    <3>1. Belongs(key, value)
      BY DEF key, value
    <3>2. Map(entries).map = entries
      BY DEF Map
    <3> QED BY <1>8, <2>1, <3>1, <3>2 DEF Belongs
  <2> QED BY <1>6, <1>8, <2>2, <2>3
<1>9. ASSUME TriggeredBy(reg, key) = {}, left = <<Entry(key, single.left[1])>>
      PROVE  Closed(left)
  <2>1. key \in BaseKeys
    BY <1>2, <1>9 DEF Belongs, key
  <2>2. Belongs(key, single.left[1])
    BY <2>1 DEF Belongs
  <2> QED BY <1>6, <1>9, <2>2
<1>10. Closed(left)
  BY <1>1, <1>5, <1>7, <1>8, <1>9
<1> QED BY <1>10 DEF left
LEMMA WritableClosed ==
  ASSUME NEW reg, RegistryMade(reg), NEW state, StateMade(state), Closed(state.fields)
  PROVE  Closed(WritablePart(reg, state).fields)
<1> DEFINE fields == state.fields
           parts == [i \in DOMAIN fields |-> StripTopLevel(reg, fields[i])]
           lefts == [i \in DOMAIN parts |-> parts[i].left]
           left == FlattenSeq(lefts)
           writable == WritablePart(reg, state)
<1>1. RemoveReadOnlyFields(reg, fields).left = left
  BY DEF RemoveReadOnlyFields, Together
<1>2. parts = [i \in DOMAIN fields |-> parts[i]]
  OBVIOUS
<1>3. lefts = [i \in DOMAIN parts |-> lefts[i]]
  BY Zenon
<1>4. \A i \in DOMAIN fields : Closed(parts[i].left)
  <2> SUFFICES ASSUME NEW i \in DOMAIN fields
               PROVE  Closed(parts[i].left)
    OBVIOUS
  <2> DEFINE e == fields[i]
  <2>1. ValueMade(e.val)
    BY DEF StateMade, FieldsMade
  <2>2. Belongs(e.key, e.val)
    BY DEF Closed, ToSet
  <2>3. parts[i] = StripTopLevel(reg, e)
    OBVIOUS
  <2> HIDE DEF parts, e
  <2> QED BY <2>1, <2>2, <2>3, StripTopLevelClosed
<1>5. \A i \in DOMAIN parts : lefts[i] = parts[i].left
  BY Zenon
<1>6. writable.fields = left
  <2> DEFINE removed == RemoveReadOnlyFields(reg, fields).left
  <2>1. writable = [state EXCEPT !.fields = removed]
    BY DEF WritablePart
  <2>2. "fields" \in DOMAIN state
    BY DEF StateMade
  <2> HIDE DEF removed, writable, left
  <2>3. writable.fields = removed
    BY <2>1, <2>2
  <2> QED BY <1>1, <2>3 DEF removed
<1> HIDE DEF left, lefts
<1> HIDE DEF parts
<1>7. IsList(parts) /\ DOMAIN parts = DOMAIN fields
  BY <1>2, ListMade DEF Closed
<1>8. IsList(lefts) /\ DOMAIN lefts = DOMAIN parts
  BY <1>3, <1>7, ListMade
<1>9. \A i \in DOMAIN lefts : Closed(lefts[i])
  BY <1>4, <1>5, <1>7, <1>8
<1>10. IsList(left) /\ \A x \in Elements(left) : \E i \in DOMAIN lefts : x \in Elements(lefts[i])
  BY <1>8, <1>9, Flattened DEF Closed, left
<1>11. Closed(left)
  BY <1>9, <1>10 DEF Closed, ToSet, Elements
<1> QED BY <1>6, <1>11

\* What may be met before an extension is of the embedded schemas.
LEMMA KnownClosed ==
  ASSUME NEW state \in Known
  PROVE  StateMade(state) /\ Closed(state.fields)
<1>1. PICK inventory \in Inventories :
        \E device \in ToSet(inventory.devices) : state = DeviceState(device)
  BY DEF Known
<1>2. PICK device \in ToSet(inventory.devices) : state = DeviceState(device)
  BY <1>1
<1>3. DeviceMade(device)
  BY <1>2, DocumentsAssumption DEF ToSet
<1> QED BY <1>2, <1>3, DeviceStateMade, DeviceClosed

\* A refused extension changes nothing, and one that is made only adds: what was
\* observed stays valid, and what of it may be written still may be; the flat
\* map of fields stays that of the tree (add_schema_node).
THEOREM ExtensionsAdd == Spec => ExtensionsOnlyAdd
<1> DEFINE Same(state) ==
             /\ Validate(registry, state) = {} => Validate(registry', state) = {}
             /\ LET writable == WritablePart(registry, state)
                IN  ValidateWritable(registry, writable) = {} =>
                      ValidateWritable(registry', writable) = {}
           Whole == /\ refused' # "none" => registry' = registry
                    /\ \A i \in DOMAIN registry' :
                         registry'[i].fields = DerivedFields(registry'[i].root)
           A == extended' # extended =>
                  /\ refused' # "none" => registry' = registry
                  /\ \A state \in Known :
                       /\ Validate(registry, state) = {} => Validate(registry', state) = {}
                       /\ LET writable == WritablePart(registry, state)
                          IN  ValidateWritable(registry, writable) = {} =>
                                ValidateWritable(registry', writable) = {}
                  /\ \A i \in DOMAIN registry' :
                       registry'[i].fields = DerivedFields(registry'[i].root)
<1>1. ASSUME WellTyped, KeptSinceTheStart, [Next]_vars, NEW state \in Known
      PROVE  Same(state)
  <2>1. /\ RegistryMade(registry) /\ Kept(EmbeddedRegistry, registry)
        /\ RegistryMade(registry') /\ Kept(EmbeddedRegistry, registry')
    <3>1. extended \in Nat /\ RegistryMade(registry) /\ Kept(EmbeddedRegistry, registry)
      BY <1>1 DEF WellTyped, KeptSinceTheStart
    <3>2. RegistryMade(registry')
      BY <1>1, <3>1, RegistryStep
    <3>3. Kept(EmbeddedRegistry, registry')
      BY <1>1, KeptStep DEF KeptSinceTheStart
    <3> QED BY <3>1, <3>2, <3>3
  <2> DEFINE writable == WritablePart(registry, state)
  <2>2. Closed(state.fields) /\ Closed(writable.fields)
    BY <2>1, KnownClosed, WritableClosed
  <2> HIDE DEF writable
  <2>3. \A s : Closed(s.fields) =>
          /\ Validate(registry, s) = Validate(registry', s)
          /\ ValidateWritable(registry, s) = ValidateWritable(registry', s)
    <3> DEFINE new == registry'
               first == EmbeddedRegistry
    <3> HIDE DEF Same, Whole, A, new
    <3>1. \A s, w : Closed(s.fields) =>
            /\ ValidateInner(registry, s, w) = ValidateInner(first, s, w)
            /\ ValidateInner(new, s, w) = ValidateInner(first, s, w)
      BY <2>1, SameValidation DEF new
    <3> HIDE DEF first
    <3>2. \A s : Closed(s.fields) =>
            /\ Validate(registry, s) = Validate(new, s)
            /\ ValidateWritable(registry, s) = ValidateWritable(new, s)
      BY <3>1 DEF Validate, ValidateWritable
    <3> QED BY <3>2 DEF new
  <2> QED BY <2>2, <2>3 DEF writable
<1>2. ASSUME WellTyped, KeptSinceTheStart, [Next]_vars
      PROVE  A
  <2>1. extended' # extended => Whole
    BY <1>2, WholeStep
  <2>2. \A state \in Known : Same(state)
    BY <1>1, <1>2
  <2> QED BY <2>1, <2>2
<1>3. WellTyped /\ KeptSinceTheStart /\ [Next]_vars => [A]_vars
  BY <1>2
<1>4. ExtensionsOnlyAdd <=> [][A]_vars
  BY PTL DEF ExtensionsOnlyAdd
<1> QED BY <1>3, <1>4, KeptHolds, PTL DEF Spec

-----------------------------------------------------------------------------
(* What a kernel state says of its device, and where it stays said. *)

LEMMA TextIs ==
  ASSUME NEW a
  PROVE  /\ Is(Text(a), "text") /\ Text(a).text = a /\ DOMAIN Text(a) = {"text"}
         /\ \A b : Text(a) = Text(b) => a = b
<1>1. \A b : Text(b).text = b
  BY DEF Text
<1>2. DOMAIN Text(a) = {"text"}
  BY DEF Text
<1> QED BY <1>1, <1>2 DEF Is

\* Inserting an entry takes the place of what had its key, and of nothing else.
LEMMA WithIs ==
  ASSUME NEW map, IsList(map), NEW key, NEW value
  PROVE  /\ IsList(With(map, key, value))
         /\ \A x \in ToSet(With(map, key, value)) :
              (x \in ToSet(map) /\ x.key # key) \/ x = Entry(key, value)
         /\ \A x \in ToSet(map) : x.key # key => x \in ToSet(With(map, key, value))
<1> DEFINE e == Entry(key, value)
<1>1. CASE key \in Keys(map)
  <2> DEFINE t == [i \in DOMAIN map |-> IF map[i].key = key THEN e ELSE map[i]]
  <2>1. With(map, key, value) = t
    BY <1>1 DEF With
  <2>2. t = [i \in DOMAIN map |-> t[i]]
    OBVIOUS
  <2>3. \A i \in DOMAIN map : t[i] = IF map[i].key = key THEN e ELSE map[i]
    OBVIOUS
  <2> HIDE DEF t, e
  <2>4. IsList(t) /\ DOMAIN t = DOMAIN map
    BY <2>2, ListMade
  <2> QED BY <2>1, <2>3, <2>4 DEF ToSet, e
<1>2. CASE key \notin Keys(map)
  <2> DEFINE t == Append(map, e)
             n == Len(map)
  <2>1. With(map, key, value) = t
    BY <1>2 DEF With
  <2>2. \A x \in ToSet(map) : x.key # key
    BY <1>2 DEF Keys
  <2> HIDE DEF e
  <2>3. /\ IsList(t) /\ Len(t) = n + 1 /\ t[n + 1] = e /\ \A i \in 1 .. n : t[i] = map[i]
        /\ n \in Nat /\ DOMAIN map = 1 .. n
    BY ListAppend, ListLen
  <2> HIDE DEF t, n
  <2>4. DOMAIN t = 1 .. n + 1
    BY <2>3, ListLen
  <2>5. \A i \in 1 .. n + 1 : i \in 1 .. n \/ i = n + 1
    BY <2>3
  <2>6. 1 .. n \subseteq 1 .. n + 1
    BY <2>3
  <2>7. \A x \in ToSet(t) : x \in ToSet(map) \/ x = e
    BY <2>3, <2>4, <2>5 DEF ToSet
  <2>8. \A x \in ToSet(map) : x \in ToSet(t)
    BY <2>3, <2>4, <2>6 DEF ToSet
  <2> QED BY <2>1, <2>2, <2>3, <2>7, <2>8 DEF e
<1> QED BY <1>1, <1>2

\* A key has one entry.
OneEach(map) == IsList(map) /\ \A x, y \in ToSet(map) : x.key = y.key => x = y

LEMMA WithOneEach ==
  ASSUME NEW map, OneEach(map), NEW key, NEW value
  PROVE  OneEach(With(map, key, value))
<1> DEFINE new == With(map, key, value)
           e == Entry(key, value)
<1>1. /\ IsList(new)
      /\ \A x \in ToSet(new) : (x \in ToSet(map) /\ x.key # key) \/ x = e
  BY WithIs DEF OneEach
<1>2. e.key = key
  BY DEF Entry
<1> HIDE DEF new, e
<1>3. OneEach(new)
  BY <1>1, <1>2 DEF OneEach
<1> QED BY <1>3 DEF new

LEMMA CollectedOneEach ==
  ASSUME NEW entries, IsList(entries)
  PROVE  OneEach(Collected(entries))
<1> DEFINE f == CHOOSE f : Collects(f, entries)
<1>1. Collects(f, entries)
  BY CollectsExists
<1>2. Collected(entries) = f[Len(entries)]
  BY DEF Collected, Collects
<1> HIDE DEF f
<1>3. Len(entries) \in Nat
  BY ListLen
<1> DEFINE Q == {n \in 0 .. Len(entries) : OneEach(f[n])}
<1>4. 0 \in Q
  <2>1. f[0] = <<>>
    BY <1>1, <1>3 DEF Collects
  <2> QED BY <1>3, <2>1, EmptyList DEF OneEach, ToSet
<1>5. ASSUME NEW n \in 0 .. Len(entries) - 1, n \in Q
      PROVE  n + 1 \in Q
  <2>1. (n + 1) - 1 = n /\ n + 1 # 0 /\ n + 1 \in 0 .. Len(entries)
    BY <1>3
  <2>2. f[n + 1] = With(f[n], entries[n + 1].key, entries[n + 1].val)
    BY <1>1, <2>1 DEF Collects
  <2> QED BY <1>5, <2>1, <2>2, WithOneEach
<1> HIDE DEF Q
<1>6. 0 .. Len(entries) \subseteq Q
  BY <1>3, <1>4, <1>5, UpTo
<1>7. Len(entries) \in Q
  BY <1>3, <1>6
<1> QED BY <1>2, <1>7 DEF Q
-----------------------------------------------------------------------------
(* What is observed of a device is identified by its match. *)

\* A match that is extended says what it said.
LEMMA Extended ==
  ASSUME NEW match, NEW more, NEW f \in DOMAIN match
  PROVE  f \in DOMAIN (match ++ more) /\ (match ++ more)[f] = match[f]
BY DEF ++

LEMMA MatchingIs ==
  ASSUME NEW field, NEW text
  PROVE  DOMAIN Matching(field, text) = {field} /\ Matching(field, text)[field] = text
BY DEF Matching

\* What a state says beyond the fields of a match leaves it identified.
LEMMA IdentifiedMore ==
  ASSUME NEW state, Identified(state),
         NEW new, new.source = state.source, new.device_type = state.device_type,
         \A f \in DOMAIN state.match : f \in DOMAIN new.match /\ new.match[f] = state.match[f],
         \A x \in ToSet(new.fields) : x \in ToSet(state.fields) \/ x.key \notin FieldsOfMatch
  PROVE  Identified(new)
<1> DEFINE typed(s) == s.source = Kernel /\ s.device_type # ""
<1>1. Identified(state) <=>
        /\ typed(state)
        /\ "type" \in DOMAIN state.match /\ state.match["type"] = state.device_type
        /\ \A e \in ToSet(state.fields) : e.key \in FieldsOfMatch =>
             e.key \in DOMAIN state.match /\ e.val = Str(state.match[e.key])
  BY DEF Identified
<1>2. Identified(new) <=>
        /\ typed(new)
        /\ "type" \in DOMAIN new.match /\ new.match["type"] = new.device_type
        /\ \A e \in ToSet(new.fields) : e.key \in FieldsOfMatch =>
             e.key \in DOMAIN new.match /\ e.val = Str(new.match[e.key])
  BY DEF Identified
<1>3. typed(state) => typed(new)
  OBVIOUS
<1> HIDE DEF typed
<1> QED BY <1>1, <1>2, <1>3

\* The kind of a link is a word.
LEMMA ClassifyIs ==
  ASSUME NEW link, IsList(link.attributes),
         \A a \in ToSet(link.attributes) : Is(a, "kind") => a.kind # NoType,
         NEW wireless, NEW legacy
  PROVE  Classify(link, wireless, legacy) # NoType
<1> DEFINE parsed == ParsedAttributes(link)
           kinds == {a \in ToSet(link.attributes) : Is(a, "kind")}
           found == AttributesOf(link, "kind")
           kind == found[1].kind
           type == Classify(link, wireless, legacy)
<1>1. IsList(parsed) /\ Elements(parsed) \subseteq Elements(link.attributes)
  BY ListOnly DEF ParsedAttributes
<1>2. found = Only(parsed, kinds)
  BY DEF AttributesOf
<1> HIDE DEF parsed, kinds
<1>3. IsList(found) /\ Elements(found) \subseteq kinds
  BY <1>1, <1>2, ListOnly
<1> HIDE DEF found
<1>4. found # <<>> => found[1] \in kinds
  <2>1. found # <<>> => 1 \in DOMAIN found
    BY <1>3, ListEmpty, ListLen
  <2> QED BY <1>3, <2>1 DEF Elements
<1>5. found # <<>> => kind # NoType
  BY <1>4, Zenon DEF kinds, NoType
<1>6. \/ found # <<>> /\ type = kind
      \/ type \in {"wifi", "unknown", "ethernet", "loopback"}
  BY DEF Classify, found, kind
<1>7. "wifi" # NoType /\ "unknown" # NoType /\ "ethernet" # NoType /\ "loopback" # NoType
  BY Zenon DEF NoType
<1> HIDE DEF type, kind
<1>8. type # NoType
  BY <1>5, <1>6, <1>7
<1> QED BY <1>8 DEF type
\* What the attributes of a link say of its name and its address.
LinkSays(map, link) ==
  \A x \in ToSet(map) : /\ x.key = "name" => x.val = Str(LinkName(link))
                        /\ x.key = "mac" => Is(x.val, "str") /\ x.val = Str(x.val.str)

LEMMA LinkFieldsSay ==
  ASSUME NEW link, IsList(link.attributes)
  PROVE  LinkSays(LinkFields(link), link) /\ OneEach(LinkFields(link))
<1> DEFINE parsed == ParsedAttributes(link)
           more == [i \in DOMAIN parsed |-> AttributeField(parsed[i])]
           name == Entry("name", Str(LinkName(link)))
           enabled == Entry("enabled", Bool(link.up))
           rest == FlattenSeq(more)
           all == <<name, enabled>> \o rest
           fields == LinkFields(link)
           says(e) == /\ e.key = "name" => e.val = Str(LinkName(link))
                      /\ e.key = "mac" => Is(e.val, "str") /\ e.val = Str(e.val.str)
<1>1. IsList(parsed)
  BY ListOnly DEF ParsedAttributes
<1>2. fields = Collected(all)
  BY DEF LinkFields
<1>3. \A k, v : Entry(k, v).key = k /\ Entry(k, v).val = v
  BY DEF Entry
<1>4. \A t : Is(Str(t), "str") /\ Str(t).str = t
  BY DEF Str, Is
<1>5. says(name) /\ says(enabled)
  BY <1>3
<1>6. \A i \in DOMAIN parsed : more[i] = <<>> \/ \E e : says(e) /\ more[i] = <<e>>
  <2> SUFFICES ASSUME NEW i \in DOMAIN parsed
               PROVE  more[i] = <<>> \/ \E e : says(e) /\ more[i] = <<e>>
    OBVIOUS
  <2> DEFINE a == parsed[i]
             mtu == Entry("mtu", U64(a.mtu))
             carrier == Entry("carrier", Bool(a.carrier = 1))
             mac == Entry("mac", Str(a.mac))
  <2>1. more[i] \in {<<mtu>>, <<carrier>>, <<mac>>, <<>>}
    BY DEF AttributeField
  <2>2. says(mtu) /\ says(carrier) /\ says(mac)
    BY <1>3, <1>4
  <2> HIDE DEF more, mtu, carrier, mac, says
  <2> QED BY <2>1, <2>2
<1>7. more = [i \in DOMAIN parsed |-> more[i]]
  OBVIOUS
<1> HIDE DEF more, parsed
<1>8. IsList(more) /\ DOMAIN more = DOMAIN parsed
  BY <1>1, <1>7, ListMade
<1> HIDE DEF says
<1>9. \A i \in DOMAIN more : IsList(more[i]) /\ \A e \in Elements(more[i]) : says(e)
  BY <1>6, <1>8, EmptyList, OneInList DEF Elements
<1>10. IsList(rest) /\ \A e \in Elements(rest) : says(e)
  <2>1. IsList(rest) /\ \A x \in Elements(rest) : \E i \in DOMAIN more : x \in Elements(more[i])
    BY <1>8, <1>9, Flattened
  <2> HIDE DEF rest
  <2> QED BY <1>9, <2>1
<1> HIDE DEF rest
<1>11. IsList(all) /\ \A e \in ToSet(all) : says(e)
  <2> DEFINE two == <<name, enabled>>
  <2> HIDE DEF name, enabled
  <2>1. IsList(two) /\ \A e \in Elements(two) : says(e)
    <3>1. IsList(two) /\ Elements(two) = {name, enabled}
      BY TwoInList
    <3> QED BY <1>5, <3>1
  <2> HIDE DEF two
  <2>2. IsList(two \o rest) /\ Elements(two \o rest) = Elements(two) \cup Elements(rest)
    BY <1>10, <2>1, ListTwo
  <2> QED BY <1>10, <2>1, <2>2 DEF ToSet, Elements, two
<1> HIDE DEF all
<1>12. CollectedOf(fields, all) /\ OneEach(fields)
  BY <1>2, <1>11, CollectedFrom, CollectedOneEach
<1> HIDE DEF fields
<1>13. \A x \in ToSet(fields) : says(x)
  BY <1>11, <1>12 DEF CollectedOf, says
<1> QED BY <1>12, <1>13 DEF LinkSays, says, fields

LEMMA LinkIdentified ==
  ASSUME NEW link, IsList(link.attributes), NEW type, type # NoType
  PROVE  /\ Identified(LinkState(link, type))
         /\ DOMAIN LinkState(link, type)
              = {"device_type", "match", "fields", "source", "priority"}
<1> DEFINE fields == LinkFields(link)
           name == Matching("name", LinkName(link))
           typed == Matching("type", type)
           mac == FieldString(fields, "mac")
           match == name ++ typed ++ mac
           new == NewState(Kernel)
           state == LinkState(link, type)
<1>1. state = [new EXCEPT !.device_type = type, !.fields = fields, !.match = match]
  BY DEF LinkState
<1>2. DOMAIN new = {"device_type", "match", "fields", "source", "priority"} /\ new.source = Kernel
  BY NewStateMade DEF StateNumbered, NewState
<1>3. LinkSays(fields, link) /\ OneEach(fields)
  BY LinkFieldsSay
<1> HIDE DEF new, fields
<1>4. /\ DOMAIN match = {"name", "type"} \cup DOMAIN mac
      /\ match["name"] = LinkName(link) /\ match["type"] = type
      /\ "mac" \in DOMAIN mac => match["mac"] = mac["mac"]
  <2>1. /\ DOMAIN name = {"name"} /\ name["name"] = LinkName(link)
        /\ DOMAIN typed = {"type"} /\ typed["type"] = type
    BY MatchingIs
  <2> HIDE DEF name, typed, mac
  <2> QED BY <2>1 DEF ++
<1>5. \A x \in ToSet(fields) : x.key = "mac" =>
        "mac" \in DOMAIN mac /\ x.val = Str(mac["mac"])
  <2> SUFFICES ASSUME NEW x \in ToSet(fields), x.key = "mac"
               PROVE  "mac" \in DOMAIN mac /\ x.val = Str(mac["mac"])
    OBVIOUS
  <2> DEFINE y == CHOOSE e \in ToSet(fields) : e.key = "mac"
  <2>1. y \in ToSet(fields) /\ y.key = "mac"
    OBVIOUS
  <2> HIDE DEF y
  <2>2. y = x /\ Is(x.val, "str") /\ x.val = Str(x.val.str)
    BY <1>3, <2>1 DEF OneEach, LinkSays
  <2>3. At(fields, "mac") = x.val
    BY <2>2 DEF At, y
  <2>4. "mac" \in Keys(fields)
    BY DEF Keys
  <2>5. mac = Matching("mac", x.val.str)
    BY <2>2, <2>3, <2>4 DEF FieldString
  <2> DEFINE text == x.val.str
  <2>6. DOMAIN Matching("mac", text) = {"mac"} /\ Matching("mac", text)["mac"] = text
    BY MatchingIs
  <2> HIDE DEF mac
  <2>7. DOMAIN mac = {"mac"} /\ mac["mac"] = text
    BY <2>5, <2>6
  <2> QED BY <2>2, <2>7
<1> HIDE DEF name, typed, mac, match
<1>6. /\ DOMAIN state = {"device_type", "match", "fields", "source", "priority"}
      /\ state.source = Kernel /\ state.device_type = type /\ state.match = match
      /\ state.fields = fields
  <2> HIDE DEF state
  <2> QED BY <1>1, <1>2
<1> HIDE DEF state
<1>7. \A e \in ToSet(fields) : e.key \in FieldsOfMatch =>
        e.key \in DOMAIN match /\ e.val = Str(match[e.key])
  BY <1>3, <1>4, <1>5 DEF LinkSays, FieldsOfMatch
<1>8. "type" \in DOMAIN match /\ match["type"] = type
  BY <1>4
<1>9. Identified(state)
  <2>1. \A e \in ToSet(state.fields) : e.key \in FieldsOfMatch =>
          e.key \in DOMAIN state.match /\ e.val = Str(state.match[e.key])
    BY <1>6, <1>7
  <2>2. state.source = Kernel /\ state.device_type # NoType
    BY <1>6
  <2>3. "type" \in DOMAIN state.match /\ state.match["type"] = state.device_type
    BY <1>6, <1>8
  <2> QED BY <2>1, <2>2, <2>3, Zenon DEF Identified, NoType
<1> QED BY <1>6, <1>9 DEF state
\* What is added to a state under a key of no match leaves it identified.
LEMMA IdentifiedWith ==
  ASSUME NEW state, Identified(state), "fields" \in DOMAIN state, IsList(state.fields),
         NEW key, key \notin FieldsOfMatch, NEW value, NEW new,
         new.fields = With(state.fields, key, value),
         new.source = state.source, new.device_type = state.device_type,
         new.match = state.match
  PROVE  Identified(new)
<1>1. \A x \in ToSet(new.fields) : x \in ToSet(state.fields) \/ x.key \notin FieldsOfMatch
  <2>1. \A x \in ToSet(With(state.fields, key, value)) :
          x \in ToSet(state.fields) \/ (x.key = key /\ x.val = value)
    BY WithOf
  <2> QED BY <2>1
<1> QED BY <1>1, IdentifiedMore

\* What a query observes of a device is identified.
LEMMA DeviceIdentified ==
  ASSUME NEW device, DeviceMade(device),
         \A a \in ToSet(device.link.attributes) : Is(a, "kind") => a.kind # NoType
  PROVE  Identified(DeviceState(device))
<1> DEFINE type == Classify(device.link, device.wireless, device.legacy)
           link == LinkState(device.link, type)
           answers == device.answers
           enriched == Enriched(link, device.driver, device.pci_path, answers)
           ethernet == IF link.device_type = "ethernet" THEN EthernetFields(answers) ELSE <<>>
           text == Str(One(device.driver, ""))
           driven == IF device.driver = {} THEN link.fields ELSE With(link.fields, "driver", text)
           fields == IF ethernet = <<>> THEN driven ELSE With(driven, "ethernet", Map(ethernet))
           match == link.match ++ IfSet("driver", device.driver) ++ IfSet("pci_path", device.pci_path)
           distinct == Distinct(device.addresses)
           e == Entry("addresses", List([i \in DOMAIN distinct |-> AddressValue(distinct[i])]))
           state == DeviceState(device)
           names == {"device_type", "match", "fields", "source", "priority"}
<1>1. IsList(device.link.attributes)
  BY DEF DeviceMade
<1>2. type # NoType
  BY <1>1, ClassifyIs
<1> HIDE DEF type
<1>3. Identified(link) /\ DOMAIN link = names
  BY <1>1, <1>2, LinkIdentified
<1>4. IsList(link.fields)
  <2>1. StateMade(link)
    BY LinkFieldsMade, LinkStateMade DEF DeviceMade
  <2> HIDE DEF link
  <2> QED BY <2>1 DEF StateMade, FieldsMade
<1>5. enriched = [link EXCEPT !.match = match, !.fields = fields]
  BY Zenon DEF Enriched, text
<1>6. \A f \in DOMAIN link.match : f \in DOMAIN match /\ match[f] = link.match[f]
  <2> DEFINE m == link.match
             driver == IfSet("driver", device.driver)
             path == IfSet("pci_path", device.pci_path)
  <2> HIDE DEF m, driver, path
  <2>1. \A f \in DOMAIN m : f \in DOMAIN (m ++ driver ++ path) /\ (m ++ driver ++ path)[f] = m[f]
    BY Extended
  <2> QED BY <2>1 DEF m, driver, path
<1> HIDE DEF link, text, match, ethernet
<1>7. /\ IsList(driven)
      /\ \A x \in ToSet(driven) : x \in ToSet(link.fields) \/ x.key \notin FieldsOfMatch
  <2>1. LET m == With(link.fields, "driver", text)
        IN  IsList(m) /\ \A x \in ToSet(m) : x \in ToSet(link.fields) \/ (x.key = "driver" /\ x.val = text)
    BY <1>4, WithOf
  <2>2. "driver" \notin FieldsOfMatch
    BY DEF FieldsOfMatch
  <2> QED BY <1>4, <2>1, <2>2
<1> HIDE DEF driven
<1>8. /\ IsList(fields)
      /\ \A x \in ToSet(fields) : x \in ToSet(link.fields) \/ x.key \notin FieldsOfMatch
  <2> DEFINE value == Map(ethernet)
  <2>1. LET m == With(driven, "ethernet", value)
        IN  IsList(m) /\ \A x \in ToSet(m) : x \in ToSet(driven) \/ (x.key = "ethernet" /\ x.val = value)
    BY <1>7, WithOf
  <2>2. "ethernet" \notin FieldsOfMatch
    BY DEF FieldsOfMatch
  <2> HIDE DEF value
  <2> QED BY <1>7, <2>1, <2>2 DEF value
<1> HIDE DEF fields, enriched
<1>9. /\ DOMAIN enriched = names /\ enriched.match = match /\ enriched.fields = fields
      /\ enriched.source = link.source /\ enriched.device_type = link.device_type
  BY <1>3, <1>5
<1>10. Identified(enriched)
  BY <1>3, <1>6, <1>8, <1>9, IdentifiedMore
<1> DEFINE value == Map(<<e>>)
           more == [enriched EXCEPT !.fields = With(@, "ipv4", value)]
<1>11. state = enriched \/ state = more
  BY DEF DeviceState, WithAddresses, enriched, link, type, e
<1> HIDE DEF value
<1>12. Identified(more)
  <2>1. /\ more.fields = With(enriched.fields, "ipv4", value) /\ more.match = enriched.match
        /\ more.source = enriched.source /\ more.device_type = enriched.device_type
    BY <1>9
  <2>2. "ipv4" \notin FieldsOfMatch
    BY DEF FieldsOfMatch
  <2>3. IsList(enriched.fields) /\ "fields" \in DOMAIN enriched
    BY <1>8, <1>9
  <2> HIDE DEF more
  <2> QED BY <1>10, <2>1, <2>2, <2>3, IdentifiedWith
<1> HIDE DEF state, more
<1>13. Identified(state)
  BY <1>10, <1>11, <1>12
<1> QED BY <1>13 DEF state
-----------------------------------------------------------------------------
(* What is said by a text is written and read as it is. *)

LEMMA TextWritten ==
  ASSUME NEW x
  PROVE  ModelToValue(Str(x)) = Text(x)
<1> DEFINE value == Str(x)
           parts == PartsOfModel(value)
           made == CHOOSE f : f =
             [node \in Reached(LAMBDA n : ToSet(PartsOfModel(n)), {value}) |->
                Written(node, Listed([i \in DOMAIN PartsOfModel(node) |->
                                        f[PartsOfModel(node)[i]]]))]
           of == Listed([i \in DOMAIN parts |-> made[parts[i]]])
<1>1. ModelToValue(value) = Written(value, of)
  BY DEF ModelToValue, OfTree
<1>2. DOMAIN value = {"str"} /\ value.str = x
  BY DEF Str
<1> HIDE DEF made, of, value
<1>3. Written(value, of) = Text(x)
  BY <1>2 DEF Written, Is
<1> QED BY <1>1, <1>3 DEF value

LEMMA TextRead ==
  ASSUME NEW x, NEW node, SemanticType(node) # "ip-network"
  PROVE  ValueToModel(Text(x), <<node>>) = Str(x)
<1> DEFINE yaml == Text(x)
           schemas == <<node>>
           t == Typable(yaml, schemas)
           parts == PartsOfYaml(t)
           made == CHOOSE f : f =
             [n \in Reached(LAMBDA m : ToSet(PartsOfYaml(m)), {t}) |->
                Modelled(n, Listed([i \in DOMAIN PartsOfYaml(n) |-> f[PartsOfYaml(n)[i]]]))]
           of == Listed([i \in DOMAIN parts |-> made[parts[i]]])
<1>1. ValueToModel(yaml, schemas) = Modelled(t, of)
  BY DEF ValueToModel, OfTree
<1>2. t.yaml = yaml /\ t.schema = schemas
  BY DEF Typable
<1>3. DOMAIN yaml = {"text"} /\ yaml.text = x
  BY DEF Text
<1>4. schemas[1] = node
  OBVIOUS
<1> HIDE DEF made, of, t, yaml, schemas
<1>5. Modelled(t, of) = DecodeString(schemas, x)
  BY <1>2, <1>3 DEF Modelled, Is
<1>6. DecodeString(schemas, x) = Str(x)
  BY <1>4 DEF DecodeString
<1> QED BY <1>1, <1>5, <1>6 DEF yaml, schemas

\* Whatever an extension adds, a name and an address are plain texts.
LEMMA MatchSchema ==
  ASSUME NEW reg, RegistryMade(reg), Kept(EmbeddedRegistry, reg), NEW k \in FieldsOfMatch
  PROVE  \E node : TopLevelSchema(reg, k) = <<node>> /\ SemanticType(node) # "ip-network"
<1> DEFINE limited == [Writable("integer") EXCEPT !.min = {68}, !.max = {65535}]
           props == [type |-> ReadOnly("string"), name |-> ReadOnly("string"),
                     mac |-> ReadOnly("string"), driver |-> ReadOnly("string"),
                     carrier |-> ReadOnly("boolean"), enabled |-> Writable("boolean"),
                     mtu |-> limited]
           root == reg[1].root
           node == root.props[k]
<1>1. Base.props = props
  <2>1. Base = ObjectOf(props)
    BY DEF Base
  <2>2. props = [f \in DOMAIN props |-> props[f]]
    OBVIOUS
  <2> HIDE DEF props
  <2> QED BY <2>1, <2>2, ObjectMade
<1>2. k \in DOMAIN Base.props /\ Base.props[k] = ReadOnly("string")
  <2> HIDE DEF limited
  <2>1. k \in DOMAIN props /\ props[k] = ReadOnly("string")
    BY DEF FieldsOfMatch
  <2> HIDE DEF props
  <2> QED BY <1>1, <2>1
<1>3. ReadOnly("string").type = "string" /\ SemanticType(ReadOnly("string")) = "string"
  BY DEF ReadOnly, Blank, SemanticType
<1>4. RootKept(Base, root)
  BY EmbeddedBase DEF Kept
<1> HIDE DEF root, props
<1>5. k \in DOMAIN root.props /\ node = ReadOnly("string")
  BY <1>2, <1>3, <1>4 DEF RootKept
<1>6. BaseRoot(reg) = root
  BY TriggersAre DEF root
<1> HIDE DEF root
<1>7. TopLevelSchema(reg, k) = <<node>>
  BY <1>5, <1>6 DEF TopLevelSchema
<1>8. SemanticType(node) # "ip-network"
  BY <1>3, <1>5
<1> HIDE DEF node
<1> QED BY <1>7, <1>8
-----------------------------------------------------------------------------
(* Documents that say what their devices are. *)

\* An entry whose key nobody edited says what the match of the state does.
EntryTracked(e, state, edited) ==
  LET k == e.key.text
  IN  /\ e.key = Text(k)
      /\ \/ k \in edited
         \/ /\ k # "match"
            /\ k \in FieldsOfMatch \cup {"type"} =>
                 k \in DOMAIN state.match /\ e.val = Text(state.match[k])
Tracks(doc, state, edited) ==
  /\ IsList(doc) /\ \A e \in ToSet(doc) : EntryTracked(e, state, edited)
  /\ "type" \in edited \/ \E e \in ToSet(doc) : e.key = Text("type")
FileTracks(file, states, edited) ==
  \/ ~Is(file, "map") /\ ~Is(file, "seq")
  \/ Is(file, "map") /\ DOMAIN states = {1} /\ Tracks(file.map, states[1], edited)
  \/ /\ Is(file, "seq") /\ DOMAIN file.seq = DOMAIN states
     /\ \A i \in DOMAIN states :
          Is(file.seq[i], "map") /\ Tracks(file.seq[i].map, states[i], edited)

\* The mapping of an identified state.
LEMMA StateToMappingTracks ==
  ASSUME NEW reg, NEW state, StateMade(state), Identified(state)
  PROVE  LET m == StateToMapping(reg, state, FALSE)
         IN  \/ m = Err("ReservedFieldKey")
             \/ \E doc : m = Mapping(doc) /\ Tracks(doc, state, {})
<1> DEFINE m == StateToMapping(reg, state, FALSE)
           typeOf == Entry(Text("type"), Text(state.device_type))
           second == IF OmitsType(reg, state, FALSE) THEN <<>> ELSE <<typeOf>>
           third == [i \in DOMAIN state.fields |->
                       Entry(Text(state.fields[i].key), ModelToValue(state.fields[i].val))]
           doc == <<>> \o second \o third
           tracked(e) == EntryTracked(e, state, {})
<1>1. \/ m = Err("ReservedFieldKey")
      \/ m = Mapping(doc) /\ Keys(state.fields) \cap {"match", "type", "kind"} = {}
  BY DEF StateToMapping
<1>2. /\ state.device_type # NoType
      /\ "type" \in DOMAIN state.match /\ state.match["type"] = state.device_type
  BY Zenon DEF Identified, NoType
<1>3. second = <<typeOf>>
  <2>1. ~OmitsType(reg, state, FALSE)
    BY <1>2, Zenon DEF OmitsType, NoType
  <2> QED BY <2>1
<1>4. \A k, v : Entry(k, v).key = k /\ Entry(k, v).val = v
  BY DEF Entry
<1>5. tracked(typeOf) /\ typeOf.key = Text("type")
  <2>1. typeOf.key = Text("type") /\ typeOf.val = Text(state.device_type)
    BY <1>4
  <2>2. Text("type").text = "type"
    BY TextIs
  <2> HIDE DEF typeOf
  <2> QED BY <1>2, <2>1, <2>2 DEF EntryTracked
<1>6. IsList(state.fields)
  BY DEF StateMade, FieldsMade
<1>7. ASSUME Keys(state.fields) \cap {"match", "type", "kind"} = {}
      PROVE  \A i \in DOMAIN state.fields : tracked(third[i])
  <2> SUFFICES ASSUME NEW i \in DOMAIN state.fields
               PROVE  tracked(third[i])
    OBVIOUS
  <2> DEFINE e == state.fields[i]
             w == third[i]
  <2>1. e \in ToSet(state.fields) /\ e.key \in Keys(state.fields)
    BY DEF ToSet, Keys
  <2>2. w.key = Text(e.key) /\ w.val = ModelToValue(e.val)
    BY <1>4
  <2>3. Text(e.key).text = e.key
    BY TextIs
  <2>4. e.key # "match" /\ e.key # "type"
    BY <1>7, <2>1
  <2>5. e.key \in FieldsOfMatch =>
          e.key \in DOMAIN state.match /\ e.val = Str(state.match[e.key])
    <3>1. \A x \in ToSet(state.fields) : x.key \in FieldsOfMatch =>
            x.key \in DOMAIN state.match /\ x.val = Str(state.match[x.key])
      BY Zenon DEF Identified
    <3> HIDE DEF e
    <3> QED BY <2>1, <3>1
  <2> HIDE DEF e, w
  <2>6. e.key \in FieldsOfMatch =>
          e.key \in DOMAIN state.match /\ w.val = Text(state.match[e.key])
    BY <2>2, <2>5, TextWritten
  <2>7. EntryTracked(w, state, {})
    BY <2>2, <2>3, <2>4, <2>6 DEF EntryTracked
  <2> QED BY <2>7 DEF w
<1>8. IsList(third) /\ DOMAIN third = DOMAIN state.fields
  <2>1. third = [i \in DOMAIN state.fields |-> third[i]]
    OBVIOUS
  <2> HIDE DEF third
  <2> QED BY <1>6, <2>1, ListMade
<1> HIDE DEF third, tracked, typeOf, second, m
<1>9. /\ IsList(doc)
      /\ Elements(doc) = {typeOf} \cup Elements(third)
  <2> DEFINE none == <<>>
  <2>1. IsList(none) /\ Elements(none) = {}
    BY EmptyList DEF Elements
  <2>2. IsList(second) /\ Elements(second) = {typeOf}
    BY <1>3, OneInList
  <2> HIDE DEF none
  <2> DEFINE both == none \o second
  <2>3. IsList(both) /\ Elements(both) = Elements(none) \cup Elements(second)
    BY <2>1, <2>2, ListTwo
  <2> HIDE DEF both
  <2>4. IsList(both \o third) /\ Elements(both \o third) = Elements(both) \cup Elements(third)
    BY <1>8, <2>3, ListTwo
  <2> QED BY <2>1, <2>2, <2>3, <2>4 DEF both, none
<1> HIDE DEF doc
<1>10. ASSUME Keys(state.fields) \cap {"match", "type", "kind"} = {}
       PROVE  Tracks(doc, state, {})
  <2>1. \A e \in Elements(third) : tracked(e)
    BY <1>7, <1>8, <1>10 DEF Elements
  <2>2. \A e \in ToSet(doc) : tracked(e)
    BY <1>5, <1>9, <2>1 DEF ToSet, Elements
  <2>3. typeOf \in ToSet(doc)
    BY <1>9 DEF ToSet, Elements
  <2> QED BY <1>5, <1>9, <2>2, <2>3 DEF Tracks, tracked
<1> QED BY <1>1, <1>10 DEF m

\* The file of a query.
LEMMA RenderTracks ==
  ASSUME NEW reg, NEW states, StatesMade(states), \A i \in DOMAIN states : Identified(states[i])
  PROVE  FileTracks(Render(reg, states, FALSE), states, {})
<1> DEFINE results == [i \in DOMAIN states |-> StateToMapping(reg, states[i], FALSE)]
           errors == {i \in DOMAIN results : IsError(results[i])}
           first == CHOOSE i \in errors : \A j \in errors : i <= j
           file == Render(reg, states, FALSE)
<1>1. results = [i \in DOMAIN states |-> results[i]]
  OBVIOUS
<1>2. \A i \in DOMAIN states :
        \/ results[i] = Err("ReservedFieldKey")
        \/ \E doc : results[i] = Mapping(doc) /\ Tracks(doc, states[i], {})
  BY StateToMappingTracks DEF StatesMade
<1>3. file = ThenAll(results, LAMBDA mappings : IF Len(mappings) = 1 THEN mappings[1]
                                                ELSE SeqOfYaml(mappings))
  BY DEF Render
<1> HIDE DEF results
<1>4. IsList(results) /\ Listed(results) = results /\ DOMAIN results = DOMAIN states
  BY <1>1, ListMade DEF StatesMade
<1>5. file = IF errors = {} THEN IF Len(results) = 1 THEN results[1] ELSE SeqOfYaml(results)
             ELSE results[first]
  BY <1>3, <1>4 DEF ThenAll
<1>6. /\ \A doc : DOMAIN Mapping(doc) = {"map"} /\ Mapping(doc).map = doc
      /\ DOMAIN SeqOfYaml(results) = {"seq"} /\ SeqOfYaml(results).seq = results
      /\ \A kind : DOMAIN Err(kind) = {"error"}
  BY DEF Mapping, SeqOfYaml, Err
<1> HIDE DEF file
<1>7. ASSUME errors = {}
      PROVE  FileTracks(file, states, {})
  <2>1. \A i \in DOMAIN states :
          Is(results[i], "map") /\ Tracks(results[i].map, states[i], {})
    BY <1>2, <1>4, <1>6, <1>7, ErrIsError DEF Is
  <2>2. CASE Len(results) = 1
    <3>1. 1 .. 1 = {1}
      OBVIOUS
    <3>2. DOMAIN states = {1}
      BY <1>4, <2>2, <3>1, ListLen
    <3> QED BY <1>5, <1>7, <2>1, <2>2, <3>2 DEF FileTracks
  <2>3. CASE Len(results) # 1
    <3>1. file = SeqOfYaml(results)
      BY <1>5, <1>7, <2>3
    <3>2. Is(file, "seq") /\ file.seq = results
      BY <1>6, <3>1 DEF Is
    <3> QED BY <1>4, <2>1, <3>2 DEF FileTracks
  <2> QED BY <2>2, <2>3
<1>8. ASSUME errors # {}
      PROVE  FileTracks(file, states, {})
  <2>1. errors \subseteq Nat
    BY <1>4, ListLen
  <2>2. first \in errors
    <3> HIDE DEF errors
    <3>1. \E i \in errors : \A j \in errors : i <= j
      BY <1>8, <2>1, LeastElement
    <3> QED BY <3>1
  <2>3. IsError(results[first]) /\ first \in DOMAIN states
    BY <1>4, <2>2
  <2> HIDE DEF first, errors
  <2>4. file = Err("ReservedFieldKey")
    <3>1. \A doc : ~IsError(Mapping(doc))
      BY <1>6 DEF IsError, Is
    <3> QED BY <1>2, <1>5, <1>8, <2>3, <3>1
  <2>5. ~Is(file, "map") /\ ~Is(file, "seq")
    BY <1>6, <2>4 DEF Is
  <2> QED BY <2>5 DEF FileTracks
<1> QED BY <1>7, <1>8 DEF file
\* An edit is of the key that counts as edited.
LEMMA TrackedMore ==
  ASSUME NEW e, NEW state, NEW edited, EntryTracked(e, state, edited), NEW key
  PROVE  EntryTracked(e, state, edited \cup {key})
BY DEF EntryTracked

LEMMA EditedTracks ==
  ASSUME NEW doc, NEW state, NEW edited, Tracks(doc, state, edited), NEW edit
  PROVE  Tracks(Edited(doc, edit), state, edited \cup {edit.key})
<1> DEFINE key == Text(edit.key)
           now == edited \cup {edit.key}
           put == With(doc, key, edit.val)
           keep == {e \in ToSet(doc) : e.key # key}
           left == Without(doc, key)
<1>1. key.text = edit.key /\ \A k : key = Text(k) => k = edit.key
  BY TextIs
<1>2. \A e \in ToSet(doc) : EntryTracked(e, state, now)
  BY TrackedMore DEF Tracks
<1>3. IsList(doc) /\ ("type" \in edited \/ \E e \in ToSet(doc) : e.key = Text("type"))
  BY DEF Tracks
<1>4. \/ "type" \in now
      \/ \E e \in ToSet(doc) : e.key = Text("type") /\ e.key # key
  BY <1>1, <1>3
<1> HIDE DEF key, now
<1>5. Tracks(put, state, now)
  <2> DEFINE x == Entry(key, edit.val)
  <2>1. /\ IsList(put)
        /\ \A e \in ToSet(put) : (e \in ToSet(doc) /\ e.key # key) \/ e = x
        /\ \A e \in ToSet(doc) : e.key # key => e \in ToSet(put)
    BY <1>3, WithIs
  <2>2. x.key = key
    BY DEF Entry
  <2> HIDE DEF x, put
  <2>3. EntryTracked(x, state, now)
    <3>1. x.key.text \in now /\ x.key = Text(x.key.text)
      BY <1>1, <2>2 DEF now, key
    <3> QED BY <3>1 DEF EntryTracked
  <2> QED BY <1>2, <1>4, <2>1, <2>3 DEF Tracks
<1>6. Tracks(left, state, now)
  <2>1. left = Only(doc, keep)
    BY DEF Without
  <2> HIDE DEF left, keep
  <2>2. IsList(left) /\ Elements(left) = Elements(doc) \cap keep
    BY <1>3, <2>1, ListOnly
  <2>3. \A e : e \in ToSet(left) <=> e \in ToSet(doc) /\ e.key # key
    BY <2>2 DEF ToSet, Elements, keep
  <2> QED BY <1>2, <1>4, <2>2, <2>3 DEF Tracks
<1> HIDE DEF put, left
<1>7. Edited(doc, edit) \in {put, left}
  BY DEF Edited, put, left, key
<1> QED BY <1>5, <1>6, <1>7 DEF now

LEMMA FileEdited ==
  ASSUME NEW file, FileMade(file), NEW states, NEW edited, FileTracks(file, states, edited),
         NEW edit, NEW i, NEW new,
         \/ Is(file, "map") /\ i = 1 /\ new = Mapping(Edited(file.map, edit))
         \/ /\ Is(file, "seq") /\ i \in DOMAIN file.seq
            /\ new = [file EXCEPT !.seq[i] = Mapping(Edited(file.seq[i].map, edit))]
  PROVE  FileTracks(new, states, edited \cup {edit.key})
<1> DEFINE now == edited \cup {edit.key}
<1>1. \A doc : Is(Mapping(doc), "map") /\ Mapping(doc).map = doc
  BY DEF Mapping, Is
<1>2. OneTag(file)
  BY DEF FileMade, YamlMade
<1>3. \A doc, state : Tracks(doc, state, edited) => Tracks(doc, state, now)
  BY TrackedMore DEF Tracks
<1>4. ASSUME Is(file, "map"), new = Mapping(Edited(file.map, edit))
      PROVE  FileTracks(new, states, now)
  <2>1. DOMAIN states = {1} /\ Tracks(file.map, states[1], edited)
    BY <1>2, <1>4 DEF FileTracks, OneTag, Is
  <2>2. Tracks(Edited(file.map, edit), states[1], now)
    BY <2>1, EditedTracks
  <2> HIDE DEF now
  <2> QED BY <1>1, <1>4, <2>1, <2>2 DEF FileTracks
<1>5. ASSUME Is(file, "seq"), i \in DOMAIN file.seq,
             new = [file EXCEPT !.seq[i] = Mapping(Edited(file.seq[i].map, edit))]
      PROVE  FileTracks(new, states, now)
  <2> DEFINE seq == file.seq
             changed == Mapping(Edited(seq[i].map, edit))
  <2>1. /\ DOMAIN seq = DOMAIN states
        /\ \A j \in DOMAIN states : Is(seq[j], "map") /\ Tracks(seq[j].map, states[j], edited)
    BY <1>2, <1>5 DEF FileTracks, OneTag, Is
  <2>2. Is(new, "seq") /\ new.seq = [seq EXCEPT ![i] = changed]
    BY <1>5 DEF Is
  <2>3. Tracks(Edited(seq[i].map, edit), states[i], now)
    BY <1>5, <2>1, EditedTracks
  <2>4. Is(changed, "map") /\ changed.map = Edited(seq[i].map, edit)
    BY <1>1
  <2> HIDE DEF seq, changed, now
  <2>5. DOMAIN new.seq = DOMAIN seq
        /\ \A j \in DOMAIN seq : new.seq[j] = IF j = i THEN changed ELSE seq[j]
    BY <2>2
  <2>6. \A j \in DOMAIN states : Is(new.seq[j], "map") /\ Tracks(new.seq[j].map, states[j], now)
    BY <1>3, <2>1, <2>3, <2>4, <2>5
  <2> QED BY <2>1, <2>2, <2>5, <2>6 DEF FileTracks
<1> QED BY <1>4, <1>5
-----------------------------------------------------------------------------
(* States that show what their devices are. *)

FieldShown(x, state, edited) ==
  x.key \in FieldsOfMatch \ edited =>
    x.key \in DOMAIN state.match /\ x.val = Str(state.match[x.key])
FieldsShown(fields, state, edited) == \A x \in ToSet(fields) : FieldShown(x, state, edited)
PartShown(part, state, edited) ==
  \/ DOMAIN part = {"kind"}
  \/ DOMAIN part = {"type"} /\ part.type = state.device_type
  \/ DOMAIN part = {"field"} /\ FieldShown(part.field, state, edited)

\* One entry of a document.
LEMMA RoutedShown ==
  ASSUME NEW reg, RegistryMade(reg), Kept(EmbeddedRegistry, reg),
         NEW state, NEW edited, {"match", "type"} \cap edited = {},
         state.match["type"] = state.device_type,
         NEW e, EntryTracked(e, state, edited)
  PROVE  LET part == Then(KeyToString(e.key), LAMBDA key : Routed(reg, key.text, e.val))
         IN  \/ IsError(part)
             \/ /\ PartShown(part, state, edited)
                /\ e.key = Text("type") => DOMAIN part = {"type"}
<1> DEFINE k == e.key.text
           part == Then(KeyToString(e.key), LAMBDA key : Routed(reg, key.text, e.val))
           shown == PartShown(part, state, edited) /\ (e.key = Text("type") => DOMAIN part = {"type"})
<1>1. e.key = Text(k)
  BY DEF EntryTracked
<1>2. part = Routed(reg, k, e.val)
  <2>1. KeyToString(Text(k)) = Text(k) /\ ~IsError(Text(k)) /\ Text(k).text = k
    BY TextIs DEF KeyToString, IsError, Is
  <2>2. KeyToString(e.key) = Text(k) /\ ~IsError(KeyToString(e.key)) /\ KeyToString(e.key).text = k
    BY <1>1, <2>1
  <2> HIDE DEF k
  <2> QED BY <2>2 DEF Then
<1>3. k # "match"
  BY DEF EntryTracked
<1>4. k \in (FieldsOfMatch \ edited) \cup {"type"} =>
        k \in DOMAIN state.match /\ e.val = Text(state.match[k])
  BY DEF EntryTracked
<1>5. e.key = Text("type") <=> k = "type"
  BY <1>1, TextIs
<1> HIDE DEF part, k
<1>6. ASSUME k = "kind"
      PROVE  IsError(part) \/ shown
  <2>1. part = [kind |-> "state"] \/ IsError(part)
    BY <1>2, <1>6, ErrIsError DEF Routed
  <2> QED BY <1>5, <1>6, <2>1 DEF PartShown
<1>7. ASSUME k = "type"
      PROVE  shown
  <2>1. e.val = Text(state.device_type)
    BY <1>4, <1>7
  <2>2. Is(e.val, "text") /\ e.val.text = state.device_type
    BY <2>1, TextIs
  <2>3. part = [type |-> state.device_type]
    BY <1>2, <1>7, <2>2 DEF Routed
  <2> QED BY <2>3 DEF PartShown
<1>8. ASSUME k \notin {"match", "kind", "type"}
      PROVE  IsError(part) \/ shown
  <2> DEFINE value == ValueToModel(e.val, TopLevelSchema(reg, k))
             field == Entry(k, value)
  <2>1. part = IF IsError(value) THEN value ELSE [field |-> field]
    BY <1>2, <1>8 DEF Routed, Then
  <2>2. k \in FieldsOfMatch \ edited => k \in DOMAIN state.match /\ value = Str(state.match[k])
    <3> SUFFICES ASSUME k \in FieldsOfMatch \ edited
                 PROVE  k \in DOMAIN state.match /\ value = Str(state.match[k])
      OBVIOUS
    <3>1. PICK node : TopLevelSchema(reg, k) = <<node>> /\ SemanticType(node) # "ip-network"
      BY MatchSchema
    <3>2. value = ValueToModel(Text(state.match[k]), <<node>>)
      BY <1>4, <3>1
    <3> HIDE DEF value
    <3> QED BY <1>4, <3>1, <3>2, TextRead
  <2>3. field.key = k /\ field.val = value
    BY DEF Entry
  <2> HIDE DEF value, field
  <2>4. FieldShown(field, state, edited)
    BY <2>2, <2>3 DEF FieldShown
  <2>5. ~IsError(value) => PartShown(part, state, edited)
    BY <2>1, <2>4 DEF PartShown
  <2> QED BY <1>5, <1>8, <2>1, <2>5
<1>9. IsError(part) \/ shown
  BY <1>3, <1>6, <1>7, <1>8
<1> QED BY <1>9 DEF part

LEMMA WithShown ==
  ASSUME NEW fields, IsList(fields), NEW state, NEW edited, FieldsShown(fields, state, edited),
         NEW x, FieldShown(x, state, edited)
  PROVE  FieldsShown(With(fields, x.key, x.val), state, edited)
<1> DEFINE new == With(fields, x.key, x.val)
<1>1. \A y \in ToSet(new) : y \in ToSet(fields) \/ (y.key = x.key /\ y.val = x.val)
  BY WithOf
<1> HIDE DEF new
<1>2. FieldsShown(new, state, edited)
  BY <1>1 DEF FieldsShown, FieldShown
<1> QED BY <1>2 DEF new

\* What the parts received so far show.
Showing(seen, state, edited) ==
  /\ StateNumbered(seen) /\ seen.match = NoMatch
  /\ FieldsShown(seen.fields, state, edited)

LEMMA ReceivedShown ==
  ASSUME NEW seen, NEW state, NEW edited, Showing(seen, state, edited),
         NEW part, PartMade(part), PartShown(part, state, edited)
  PROVE  LET new == Received(seen, part)
         IN  /\ Showing(new, state, edited)
             /\ new.device_type = IF DOMAIN part = {"type"} THEN state.device_type
                                  ELSE seen.device_type
<1> DEFINE new == Received(seen, part)
<1>1. StateNumbered(new)
  BY ReceivedMade DEF Showing
<1>2. DOMAIN seen = {"device_type", "match", "fields", "source", "priority"} /\ IsList(seen.fields)
  BY DEF Showing, StateNumbered, FieldsNumbered
<1>3. CASE DOMAIN part = {"kind"}
  <2>1. new = seen
    BY <1>3 DEF Received, Is
  <2> QED BY <1>3, <2>1
<1>4. CASE DOMAIN part = {"type"}
  <2>1. new = [seen EXCEPT !.device_type = part.type]
    BY <1>4 DEF Received, Is
  <2>2. part.type = state.device_type
    BY <1>4 DEF PartShown
  <2> HIDE DEF new
  <2>3. new.device_type = state.device_type /\ new.match = seen.match /\ new.fields = seen.fields
    BY <1>2, <2>1, <2>2
  <2>4. Showing(new, state, edited)
    BY <1>1, <2>3 DEF Showing
  <2> QED BY <1>4, <2>3, <2>4 DEF new
<1>5. CASE DOMAIN part = {"field"}
  <2> DEFINE fields == With(seen.fields, part.field.key, part.field.val)
  <2>1. new = [seen EXCEPT !.fields = fields]
    BY <1>5 DEF Received, Is
  <2>2. FieldsShown(fields, state, edited)
    <3>1. FieldShown(part.field, state, edited)
      BY <1>5 DEF PartShown
    <3> QED BY <1>2, <3>1, WithShown DEF Showing
  <2> HIDE DEF new, fields
  <2>3. new.device_type = seen.device_type /\ new.match = seen.match /\ new.fields = fields
    BY <1>2, <2>1
  <2>4. Showing(new, state, edited)
    BY <1>1, <2>2, <2>3 DEF Showing
  <2> QED BY <1>5, <2>3, <2>4 DEF new
<1> QED BY <1>3, <1>4, <1>5 DEF PartShown
LEMMA WithPartsShown ==
  ASSUME NEW seen, NEW state, NEW edited, Showing(seen, state, edited),
         NEW parts, IsList(parts),
         \A i \in DOMAIN parts : PartMade(parts[i]) /\ PartShown(parts[i], state, edited)
  PROVE  LET new == WithParts(seen, parts)
         IN  /\ Showing(new, state, edited)
             /\ (\E i \in DOMAIN parts : DOMAIN parts[i] = {"type"})
                  => new.device_type = state.device_type
<1> DEFINE f == CHOOSE f : Receives(f, seen, parts)
           typed(n) == \E i \in 1 .. n : DOMAIN parts[i] = {"type"}
           good(n) == /\ Showing(f[n], state, edited)
                      /\ typed(n) => f[n].device_type = state.device_type
<1>1. Receives(f, seen, parts)
  BY ReceivesExists
<1>2. WithParts(seen, parts) = f[Len(parts)]
  BY DEF WithParts, Receives
<1> HIDE DEF f
<1>3. Len(parts) \in Nat /\ DOMAIN parts = 1 .. Len(parts)
  BY ListLen
<1> DEFINE Q == {n \in 0 .. Len(parts) : good(n)}
<1>4. 0 \in Q
  <2>1. f[0] = seen
    BY <1>1, <1>3 DEF Receives
  <2>2. ~typed(0)
    OBVIOUS
  <2> HIDE DEF typed
  <2> QED BY <1>3, <2>1, <2>2
<1>5. ASSUME NEW n \in 0 .. Len(parts) - 1, n \in Q
      PROVE  n + 1 \in Q
  <2>1. /\ n + 1 \in 1 .. Len(parts) /\ (n + 1) - 1 = n /\ n + 1 # 0 /\ n + 1 \in 0 .. Len(parts)
        /\ \A i \in 1 .. n + 1 : i \in 1 .. n \/ i = n + 1
    BY <1>3
  <2> DEFINE part == parts[n + 1]
  <2>2. f[n + 1] = Received(f[n], part)
    BY <1>1, <2>1 DEF Receives
  <2>3. PartMade(part) /\ PartShown(part, state, edited)
    BY <1>3, <2>1
  <2>4. Showing(f[n], state, edited) /\ (typed(n) => f[n].device_type = state.device_type)
    BY <1>5
  <2>5. typed(n + 1) => typed(n) \/ DOMAIN part = {"type"}
    BY <2>1
  <2> HIDE DEF part, typed, Q
  <2>6. /\ Showing(f[n + 1], state, edited)
        /\ f[n + 1].device_type = IF DOMAIN part = {"type"} THEN state.device_type
                                  ELSE f[n].device_type
    BY <2>2, <2>3, <2>4, ReceivedShown
  <2>7. good(n + 1)
    BY <2>4, <2>5, <2>6
  <2> QED BY <2>1, <2>7 DEF Q
<1> HIDE DEF Q
<1>6. 0 .. Len(parts) \subseteq Q
  BY <1>3, <1>4, <1>5, UpTo
<1>7. Len(parts) \in Q
  BY <1>3, <1>6
<1> QED BY <1>2, <1>3, <1>7 DEF Q

\* A state that shows what another said.
Shows(seen, state, edited) ==
  /\ seen.device_type = state.device_type
  /\ seen.match = NoMatch \/ seen.source = Kernel
  /\ FieldsShown(seen.fields, state, edited)

LEMMA MappingShows ==
  ASSUME NEW reg, RegistryMade(reg), Kept(EmbeddedRegistry, reg),
         NEW state, Identified(state), NEW edited, {"match", "type"} \cap edited = {},
         NEW doc, DocumentMade(doc), Tracks(doc, state, edited)
  PROVE  LET seen == MappingToState(reg, doc)
         IN  IsError(seen) \/ (Shows(seen, state, edited) /\ seen.match = NoMatch)
<1> DEFINE parts == [i \in DOMAIN doc |->
                       Then(KeyToString(doc[i].key), LAMBDA key :
                         Routed(reg, key.text, doc[i].val))]
           errors == {i \in DOMAIN parts : IsError(parts[i])}
           new == NewState(Static(""))
           with == WithParts(new, parts)
           seen == MappingToState(reg, doc)
<1>1. seen = ThenAll(parts, LAMBDA all : Typed(reg, WithParts(NewState(Static("")), all)))
  BY DEF MappingToState
<1>2. parts = [i \in DOMAIN doc |-> parts[i]]
  OBVIOUS
<1>3. \A i \in DOMAIN doc : IsError(parts[i]) \/ PartMade(parts[i])
  BY RoutedMade DEF DocumentMade, Then
<1>4. /\ state.device_type # NoType /\ state.match["type"] = state.device_type
  BY Zenon DEF Identified, NoType
<1>5. \A i \in DOMAIN doc :
        \/ IsError(parts[i])
        \/ /\ PartShown(parts[i], state, edited)
           /\ doc[i].key = Text("type") => DOMAIN parts[i] = {"type"}
  <2> SUFFICES ASSUME NEW i \in DOMAIN doc
               PROVE  \/ IsError(parts[i])
                      \/ /\ PartShown(parts[i], state, edited)
                         /\ doc[i].key = Text("type") => DOMAIN parts[i] = {"type"}
    OBVIOUS
  <2> DEFINE e == doc[i]
             part == Then(KeyToString(e.key), LAMBDA key : Routed(reg, key.text, e.val))
  <2>1. parts[i] = part
    OBVIOUS
  <2>2. EntryTracked(e, state, edited)
    BY DEF Tracks, ToSet
  <2> HIDE DEF parts, e
  <2>3. \/ IsError(part)
        \/ /\ PartShown(part, state, edited)
           /\ e.key = Text("type") => DOMAIN part = {"type"}
    BY <1>4, <2>2, RoutedShown DEF Then
  <2> HIDE DEF part
  <2> QED BY <2>1, <2>3 DEF e
<1> HIDE DEF parts
<1>6. IsList(parts) /\ DOMAIN parts = DOMAIN doc /\ Listed(parts) = parts
  BY <1>2, ListMade DEF DocumentMade
<1>7. seen = IF errors = {} THEN Typed(reg, with)
             ELSE parts[CHOOSE i \in errors : \A j \in errors : i <= j]
  BY <1>1, <1>6 DEF ThenAll
<1>8. errors # {} => IsError(seen)
  <2>1. errors # {} => IsError(parts[CHOOSE i \in errors : \A j \in errors : i <= j])
    BY <1>6, FirstError
  <2> HIDE DEF seen
  <2> QED BY <1>7, <2>1
<1>9. ASSUME errors = {}
      PROVE  Shows(seen, state, edited) /\ seen.match = NoMatch
  <2>1. Showing(new, state, edited)
    <3>1. StateNumbered(new)
      BY NewStateMade
    <3>2. new.fields = <<>> /\ new.match = NoMatch
      BY Zenon DEF NewState
    <3> HIDE DEF new
    <3> QED BY <3>1, <3>2, EmptyList DEF Showing, FieldsShown, ToSet
  <2> HIDE DEF new
  <2>2. \A i \in DOMAIN parts : PartMade(parts[i]) /\ PartShown(parts[i], state, edited)
    BY <1>3, <1>5, <1>6, <1>9
  <2>3. \E i \in DOMAIN parts : DOMAIN parts[i] = {"type"}
    <3>1. PICK e \in ToSet(doc) : e.key = Text("type")
      BY DEF Tracks
    <3>2. PICK i \in DOMAIN doc : doc[i] = e
      BY <3>1 DEF ToSet
    <3> QED BY <1>5, <1>6, <1>9, <3>1, <3>2
  <2>4. Showing(with, state, edited) /\ with.device_type = state.device_type
    BY <1>6, <2>1, <2>2, <2>3, WithPartsShown
  <2> HIDE DEF with, seen
  <2>5. seen = with
    <3>1. Typed(reg, with) = with
      BY <1>4, <2>4, Zenon DEF Typed, NoType
    <3> QED BY <1>7, <1>9, <3>1
  <2> QED BY <2>4, <2>5 DEF Shows, Showing
<1> HIDE DEF seen
<1>10. IsError(seen) \/ (Shows(seen, state, edited) /\ seen.match = NoMatch)
  BY <1>8, <1>9
<1> QED BY <1>10 DEF seen
SomeShow(seen, states, edited) ==
  /\ IsList(seen) /\ DOMAIN seen = DOMAIN states
  /\ \A i \in DOMAIN states : Shows(seen[i], states[i], edited)

\* What a file that was written from states, and edited elsewhere, decodes as.
LEMMA FromYamlShows ==
  ASSUME NEW reg, RegistryMade(reg), Kept(EmbeddedRegistry, reg),
         NEW states, \A i \in DOMAIN states : Identified(states[i]),
         NEW edited, {"match", "type"} \cap edited = {},
         NEW file, FileMade(file), FileTracks(file, states, edited)
  PROVE  \/ IsError(FromYaml(reg, file))
         \/ LET seen == FromYaml(reg, file).states
            IN  SomeShow(seen, states, edited) /\ \A i \in DOMAIN states : seen[i].match = NoMatch
<1>0. OneTag(file)
  BY DEF FileMade, YamlMade
<1>1. CASE Is(file, "map")
  <2> DEFINE state == MappingToState(reg, file.map)
  <2>1. FromYaml(reg, file) = IF IsError(state) THEN state ELSE [states |-> <<state>>]
    BY <1>0, <1>1 DEF FromYaml, OneTag, Is, Then, ThenAll
  <2>2. DocumentMade(file.map) /\ DOMAIN states = {1} /\ Tracks(file.map, states[1], edited)
    BY <1>0, <1>1 DEF FileMade, FileTracks, OneTag, Is
  <2>3. IsError(state) \/ (Shows(state, states[1], edited) /\ state.match = NoMatch)
    BY <2>2, MappingShows
  <2> HIDE DEF state
  <2>4. IsList(<<state>>) /\ DOMAIN <<state>> = {1} /\ <<state>>[1] = state
    BY OneInList
  <2> QED BY <2>1, <2>2, <2>3, <2>4 DEF SomeShow
<1>2. CASE Is(file, "seq")
  <2> DEFINE results == [i \in DOMAIN file.seq |->
                           IF Is(file.seq[i], "map") THEN MappingToState(reg, file.seq[i].map)
                           ELSE Err("InvalidTopLevel")]
             errors == {i \in DOMAIN results : IsError(results[i])}
  <2>1. IsList(file.seq)
    BY <1>2 DEF FileMade, YamlMade
  <2>2. results = [i \in DOMAIN file.seq |-> results[i]]
    OBVIOUS
  <2>3. FromYaml(reg, file) = ThenAll(results, LAMBDA all : [states |-> all])
    BY <1>0, <1>2 DEF FromYaml, OneTag, Is, Then, ThenAll
  <2>4. /\ DOMAIN file.seq = DOMAIN states
        /\ \A i \in DOMAIN states : /\ Is(file.seq[i], "map") /\ DocumentMade(file.seq[i].map)
                                    /\ Tracks(file.seq[i].map, states[i], edited)
    BY <1>0, <1>2 DEF FileMade, FileTracks, OneTag, Is
  <2>5. \A i \in DOMAIN states :
          \/ IsError(results[i])
          \/ Shows(results[i], states[i], edited) /\ results[i].match = NoMatch
    <3> SUFFICES ASSUME NEW i \in DOMAIN states
                 PROVE  \/ IsError(results[i])
                        \/ Shows(results[i], states[i], edited) /\ results[i].match = NoMatch
      OBVIOUS
    <3>1. results[i] = MappingToState(reg, file.seq[i].map)
      BY <2>4
    <3> HIDE DEF results
    <3> QED BY <2>4, <3>1, MappingShows
  <2> HIDE DEF results
  <2>6. IsList(results) /\ Listed(results) = results /\ DOMAIN results = DOMAIN states
    BY <2>1, <2>2, <2>4, ListMade
  <2>7. FromYaml(reg, file) = IF errors = {} THEN [states |-> results]
                              ELSE results[CHOOSE i \in errors : \A j \in errors : i <= j]
    BY <2>3, <2>6 DEF ThenAll
  <2>8. errors # {} => IsError(results[CHOOSE i \in errors : \A j \in errors : i <= j])
    BY <2>6, FirstError
  <2>9. errors = {} => /\ SomeShow(results, states, edited)
                       /\ \A i \in DOMAIN states : results[i].match = NoMatch
    BY <2>5, <2>6 DEF SomeShow
  <2> QED BY <2>7, <2>8, <2>9
<1>3. CASE ~Is(file, "map") /\ ~Is(file, "seq")
  <2>1. IsError(FromYaml(reg, file))
    BY <1>0, <1>3, ErrIsError DEF FromYaml, OneTag, Is, Then, ThenAll
  <2> QED BY <2>1
<1> QED BY <1>1, <1>2, <1>3

\* A state without a match has none to be applied with, and what a query wrote
\* has a match taken from its fields.
LEMMA DecodeYamlShows ==
  ASSUME NEW reg, RegistryMade(reg), Kept(EmbeddedRegistry, reg),
         NEW states, states # <<>>, IsList(states), \A i \in DOMAIN states : Identified(states[i]),
         NEW edited, {"match", "type"} \cap edited = {},
         NEW file, FileMade(file), FileTracks(file, states, edited), NEW mode
  PROVE  \/ IsError(DecodeYaml(reg, file, mode))
         \/ SomeShow(DecodeYaml(reg, file, mode).states, states, edited)
<1> DEFINE decoded == FromYaml(reg, file)
           seen == decoded.states
           kernel == [i \in DOMAIN seen |-> AsObserved(seen[i])]
<1>1. CASE IsError(decoded)
  BY <1>1 DEF DecodeYaml, Then
<1>2. CASE ~IsError(decoded)
  <2>1. SomeShow(seen, states, edited) /\ \A i \in DOMAIN states : seen[i].match = NoMatch
    BY <1>2, FromYamlShows
  <2>2. StatesNumbered(seen)
    BY <1>2, FromYamlNumbered
  <2>3. DecodeYaml(reg, file, mode) = Decoded(reg, mode, seen)
    BY <1>2 DEF DecodeYaml, Then
  <2> HIDE DEF seen, decoded
  <2>4. DOMAIN states # {}
    <3>1. DOMAIN states = {} => states = <<>>
      BY EmptyList DEF IsList
    <3> QED BY <3>1
  <2>5. kernel = [i \in DOMAIN seen |-> kernel[i]]
    OBVIOUS
  <2>6. \/ IsError(Decoded(reg, mode, seen))
        \/ Decoded(reg, mode, seen) = [states |-> kernel]
    <3> HIDE DEF kernel
    <3>1. mode = "policy" => IsError(Decoded(reg, mode, seen))
      BY <2>1, <2>4, ErrIsError DEF Decoded, SomeShow
    <3>2. \/ IsError(Decoded(reg, mode, seen))
          \/ Decoded(reg, mode, seen) = [states |-> seen]
          \/ Decoded(reg, mode, seen) = [states |-> kernel]
      BY ErrIsError DEF Decoded, kernel
    <3> QED BY <3>1, <3>2, ErrIsError DEF Decoded, kernel
  <2>7. \A i \in DOMAIN states : Shows(AsObserved(seen[i]), states[i], edited)
    <3> SUFFICES ASSUME NEW i \in DOMAIN states
                 PROVE  Shows(AsObserved(seen[i]), states[i], edited)
      OBVIOUS
    <3> DEFINE state == seen[i]
    <3>1. StateNumbered(state) /\ Shows(state, states[i], edited)
      BY <2>1, <2>2 DEF StatesNumbered, SomeShow
    <3> HIDE DEF state
    <3>2. /\ AsObserved(state).fields = state.fields
          /\ AsObserved(state).device_type = state.device_type
          /\ AsObserved(state).source = Kernel
      BY <3>1 DEF AsObserved, StateNumbered
    <3>3. Shows(AsObserved(state), states[i], edited)
      BY <3>1, <3>2 DEF Shows
    <3> QED BY <3>3 DEF state
  <2>8. \A i \in DOMAIN states : kernel[i] = AsObserved(seen[i])
    BY <2>1 DEF SomeShow
  <2> HIDE DEF kernel
  <2>9. IsList(kernel) /\ DOMAIN kernel = DOMAIN states
    BY <2>1, <2>5, ListMade DEF SomeShow
  <2>10. SomeShow(kernel, states, edited)
    BY <2>7, <2>8, <2>9 DEF SomeShow
  <2> QED BY <2>3, <2>6, <2>10
<1> QED BY <1>1, <1>2

\* A state that was identified says what it shows.
LEMMA ShowsItself ==
  ASSUME NEW states, IsList(states), \A i \in DOMAIN states : Identified(states[i]), NEW edited
  PROVE  SomeShow(states, states, edited)
BY Zenon DEF SomeShow, Shows, Identified, FieldsShown, FieldShown
-----------------------------------------------------------------------------
(* What is prepared. *)

\* The match that a prepared state has of the device it shows.
Selecting(match, state, field) ==
  /\ field \in DOMAIN state.match
  /\ match = Constrained(Matching(field, state.match[field]), "type", state.match["type"])

\* A state that shows a device is prepared with a match of that device.
LEMMA PrepareStateSelects ==
  ASSUME NEW reg, NEW seen, StateMade(seen), NEW state, Identified(state), NEW edited,
         Shows(seen, state, edited), NEW field \in FieldsOfMatch \ edited,
         ~IsError(PrepareState(reg, Unmatched(reg, seen), field))
  PROVE  Selecting(PrepareState(reg, Unmatched(reg, seen), field).state.match, state, field)
<1> DEFINE fresh == Unmatched(reg, seen)
           p == PrepareState(reg, fresh, field)
           stripped == RemoveReadOnlyFields(reg, Without(fresh.fields, field))
           match == Selected(fresh, field)
           left == [fresh EXCEPT !.match = match, !.fields = stripped.left]
<1>1. state.device_type # NoType /\ state.match["type"] = state.device_type
  BY Zenon DEF Identified, NoType
<1>2. seen.device_type = state.device_type
  BY DEF Shows
<1>3. /\ fresh.match = NoMatch /\ fresh.fields = seen.fields
      /\ fresh.device_type = seen.device_type /\ StateMade(fresh)
  <2>1. seen.source = Kernel => Observed(reg, seen)
    BY Zenon, <1>1, <1>2 DEF Observed, NoType
  <2>2. seen.match = NoMatch \/ Observed(reg, seen)
    BY <2>1 DEF Shows
  <2>3. StateMade(fresh)
    BY UnmatchedMade
  <2> QED BY <2>2, <2>3 DEF Unmatched, StateMade
<1> HIDE DEF fresh
<1>4. field \in Keys(fresh.fields) /\ p = Prepared(fresh, field, stripped)
  <2> HIDE DEF stripped
  <2> QED BY <1>3, ErrIsError DEF PrepareState, fresh, stripped
<1>5. field \in DOMAIN state.match /\ match = Matching(field, state.match[field])
  <2> DEFINE e == CHOOSE x \in ToSet(fresh.fields) : x.key = field
  <2>1. e \in ToSet(fresh.fields) /\ e.key = field
    BY <1>4 DEF Keys
  <2>2. At(fresh.fields, field) = e.val
    BY DEF At
  <2> HIDE DEF e
  <2>3. field \in DOMAIN state.match /\ e.val = Str(state.match[field])
    BY <1>3, <2>1 DEF Shows, FieldsShown, FieldShown
  <2>4. Display(Str(state.match[field])) = state.match[field]
    BY DEF Display, Str, Is
  <2> QED BY <2>2, <2>3, <2>4 DEF Selected
<1> HIDE DEF match, stripped
<1>6. p.state = MatchType(left)
  BY <1>4 DEF Prepared, match
<1>7. left.match = match /\ left.device_type = state.device_type /\ "match" \in DOMAIN left
  BY <1>2, <1>3 DEF StateMade
<1> HIDE DEF left, p
<1>8. MatchType(left).match = Constrained(match, "type", state.device_type)
  <2>1. left.device_type # NoType
    BY <1>1, <1>7
  <2>2. MatchType(left) = [left EXCEPT !.match = Constrained(@, "type", left.device_type),
                                       !.device_type = NoType]
    BY Zenon, <2>1 DEF MatchType, NoType
  <2> HIDE DEF NoType
  <2> QED BY <1>7, <2>2
<1> QED BY <1>1, <1>5, <1>6, <1>8 DEF Selecting, p, fresh

SomeSelect(prepared, states, field) ==
  /\ DOMAIN prepared = DOMAIN states
  /\ \A i \in DOMAIN states : Selecting(prepared[i].match, states[i], field)

LEMMA PreparedSelect ==
  ASSUME NEW reg, NEW states, \A i \in DOMAIN states : Identified(states[i]), NEW edited,
         NEW seen, StatesMade(seen), SomeShow(seen, states, edited),
         NEW field \in FieldsOfMatch \ edited
  PROVE  LET o == PrepareForApply(reg, seen, field)
         IN  IsError(o) \/ SomeSelect(o.states, states, field)
<1> DEFINE fresh == [i \in DOMAIN seen |-> Unmatched(reg, seen[i])]
           made == [i \in DOMAIN fresh |-> PrepareState(reg, fresh[i], field)]
           prepared == [i \in DOMAIN made |-> made[i].state]
           warnings == FlattenSeq([i \in DOMAIN made |-> made[i].warnings])
           o == PrepareForApply(reg, seen, field)
<1>1. \/ IsError(o)
      \/ /\ InputViolations(reg, fresh) = {}
         /\ \A i \in DOMAIN made : ~IsError(made[i])
         /\ FinalViolations(reg, prepared) = {}
         /\ IsList(prepared)
         /\ o = [states |-> prepared, warnings |-> warnings]
  BY PrepareForApplyIs DEF StatesMade
<1>2. DOMAIN fresh = DOMAIN states /\ \A i \in DOMAIN states : fresh[i] = Unmatched(reg, seen[i])
  BY DEF SomeShow
<1> HIDE DEF fresh
<1>3. /\ DOMAIN made = DOMAIN states
      /\ \A i \in DOMAIN states : made[i] = PrepareState(reg, fresh[i], field)
  BY <1>2, Zenon
<1> HIDE DEF made
<1>4. DOMAIN prepared = DOMAIN states /\ \A i \in DOMAIN states : prepared[i] = made[i].state
  BY <1>3, Zenon
<1> HIDE DEF prepared, warnings, o
<1>5. ASSUME \A i \in DOMAIN made : ~IsError(made[i])
      PROVE  SomeSelect(prepared, states, field)
  <2> SUFFICES ASSUME NEW i \in DOMAIN states
               PROVE  Selecting(prepared[i].match, states[i], field)
    BY <1>4 DEF SomeSelect
  <2>1. /\ Identified(states[i]) /\ StateMade(seen[i])
        /\ Shows(seen[i], states[i], edited)
    BY DEF SomeShow, StatesMade
  <2>2. made[i] = PrepareState(reg, Unmatched(reg, seen[i]), field) /\ ~IsError(made[i])
    BY <1>2, <1>3, <1>5
  <2> QED BY <1>4, <2>1, <2>2, PrepareStateSelects
<1>6. IsError(o) \/ o.states = prepared
  BY <1>1
<1> QED BY <1>1, <1>5, <1>6 DEF o

\* Such a match is of the device, and by name of no other.
LEMMA SelectingMatches ==
  ASSUME NEW states, Distinguished(states), \A i \in DOMAIN states : Identified(states[i]),
         NEW field \in FieldsOfMatch, NEW i \in DOMAIN states, NEW match,
         Selecting(match, states[i], field)
  PROVE  /\ Matches(match, states[i].match)
         /\ field = "name" =>
              \A j \in DOMAIN states : Matches(match, states[j].match) => j = i
<1>1. /\ field \in DOMAIN states[i].match /\ "type" \in DOMAIN states[i].match
      /\ field # "type"
  BY Zenon DEF Selecting, Identified, FieldsOfMatch
<1>2. /\ DOMAIN match = {field, "type"}
      /\ match[field] = states[i].match[field] /\ match["type"] = states[i].match["type"]
  <2>1. /\ DOMAIN Matching(field, states[i].match[field]) = {field}
        /\ Matching(field, states[i].match[field])[field] = states[i].match[field]
    BY MatchingIs
  <2> QED BY <1>1, <2>1 DEF Selecting, Constrained
<1>3. Matches(match, states[i].match)
  BY <1>1, <1>2 DEF Matches
<1>4. ASSUME field = "name", NEW j \in DOMAIN states, Matches(match, states[j].match)
      PROVE  j = i
  <2>1. "name" \in DOMAIN states[j].match /\ match["name"] = states[j].match["name"]
    BY <1>2, <1>4 DEF Matches
  <2> QED BY <1>1, <1>2, <1>4, <2>1 DEF Distinguished
<1> QED BY <1>3, <1>4
-----------------------------------------------------------------------------
(* From the query to what is prepared. *)

\* What the query file, what was read of it and what is prepared still say of
\* the devices that the query found.
Following ==
  /\ \A i \in DOMAIN origin : Identified(origin[i])
  /\ Distinguished(origin)
  /\ origin # <<>> => FileTracks(disk[QueryFile], origin, touched)
  /\ phase = "observed" /\ origin # <<>> /\ touched \cap {"match", "type"} = {} =>
       SomeShow(observed.states, origin, touched)
  /\ phase = "prepared" /\ ~IsError(outcome) /\ origin # <<>>
       /\ touched \cap {by, "match", "type"} = {} => SomeSelect(outcome.states, origin, by)

LEMMA NothingIdentified ==
  (\A i \in DOMAIN <<>> : Identified(<<>>[i])) /\ Distinguished(<<>>)
BY EmptyList DEF Distinguished

LEMMA FollowingInit == Init => Following
<1> SUFFICES ASSUME Init
             PROVE  Following
  OBVIOUS
<1>1. origin = <<>> /\ phase = "idle"
  BY DEF Init
<1> QED BY <1>1, NothingIdentified DEF Following

\* What a query finds is identified.
LEMMA QueryIdentifies ==
  ASSUME NEW inventory \in Inventories, ~QueryFails(inventory)
  PROVE  LET states == QueryStates(inventory)
         IN  /\ StatesMade(states) /\ Distinguished(states)
             /\ \A i \in DOMAIN states : Identified(states[i])
<1> DEFINE devices == [i \in DOMAIN inventory.devices |-> DeviceState(inventory.devices[i])]
           states == devices \o inventory.foreign
<1>1. devices = [i \in DOMAIN inventory.devices |-> devices[i]]
  OBVIOUS
<1>2. QueryStates(inventory) = states
  BY DEF QueryStates
<1>3. /\ \A i \in DOMAIN inventory.devices :
           \A a \in ToSet(inventory.devices[i].link.attributes) : Is(a, "kind") => a.kind # NoType
      /\ \A i \in DOMAIN inventory.foreign : Identified(inventory.foreign[i])
      /\ Distinguished(QueryStates(inventory))
  BY Zenon, InventoryAssumption DEF NoType
<1>4. \A i \in DOMAIN inventory.devices :
         StateMade(DeviceState(inventory.devices[i])) /\ Identified(DeviceState(inventory.devices[i]))
  BY <1>3, DocumentsAssumption, DeviceStateMade, DeviceIdentified
<1>5. \A i \in DOMAIN inventory.devices : devices[i] = DeviceState(inventory.devices[i])
  OBVIOUS
<1>6. IsList(inventory.devices) /\ StatesMade(inventory.foreign)
  BY DocumentsAssumption
<1> HIDE DEF devices
<1>7. IsList(devices) /\ DOMAIN devices = DOMAIN inventory.devices
  BY <1>1, <1>6, ListMade
<1>8. StatesMade(devices)
  BY <1>4, <1>5, <1>7 DEF StatesMade
<1>9. StatesMade(states)
  BY <1>6, <1>8, StatesConcat
<1>10. Elements(states) = Elements(devices) \cup Elements(inventory.foreign)
  BY <1>6, <1>7, ListTwo DEF StatesMade
<1>11. \A s \in Elements(states) : Identified(s)
  BY <1>3, <1>4, <1>5, <1>7, <1>10 DEF Elements
<1> HIDE DEF states
<1>12. \A i \in DOMAIN states : Identified(states[i])
  BY <1>11 DEF Elements
<1> QED BY <1>2, <1>3, <1>9, <1>12
LEMMA FollowingStep ==
  ASSUME WellTyped, WellMade, KeptSinceTheStart, Following, [Next]_vars
  PROVE  Following'
<1>0. /\ \A i \in DOMAIN origin : Identified(origin[i])
      /\ Distinguished(origin) /\ IsList(origin)
      /\ FileMade(disk[QueryFile]) /\ QueryFile \in File
      /\ RegistryMade(registry) /\ Kept(EmbeddedRegistry, registry)
  BY DocumentsAssumption DEF Following, WellMade, StatesMade, Filed, WellTyped, KeptSinceTheStart
<1>1. ASSUME NEW ext \in Extensions, Extend(ext)
      PROVE  Following'
  BY <1>1 DEF Extend, files, program, Following
<1>2. ASSUME NEW inventory \in Inventories, Query(inventory)
      PROVE  Following'
  <2> DEFINE states == QueryStates(inventory)
  <2>1. /\ StatesMade(states) /\ Distinguished(states)
        /\ \A i \in DOMAIN states : Identified(states[i])
    BY <1>2, QueryIdentifies DEF Query
  <2>2. /\ disk' = [disk EXCEPT ![QueryFile] = Render(registry, states, FALSE)]
        /\ origin' = states /\ touched' = {} /\ phase = "idle" /\ phase' = phase
    BY <1>2 DEF Query, Change, program, ToYamlQuery
  <2>3. FileTracks(Render(registry, states, FALSE), states, {})
    BY <2>1, RenderTracks
  <2>4. disk'[QueryFile] = Render(registry, states, FALSE)
    BY <1>0, <2>2 DEF WellMade
  <2> HIDE DEF states
  <2> QED BY <2>1, <2>2, <2>3, <2>4 DEF Following
<1>3. ASSUME NEW i \in 1 .. 2, NEW edit \in Edits, Edit(i, edit)
      PROVE  Following'
  <2> DEFINE file == disk[QueryFile]
             more == touched \cup {edit.key}
  <2>1. /\ phase = "idle" /\ phase' = phase /\ origin' = origin /\ touched' = more
        /\ origin # <<>>
    BY <1>3 DEF Edit, Change, program
  <2>2. FileTracks(file, origin, touched)
    BY <2>1 DEF Following
  <2>3. FileTracks(disk'[QueryFile], origin, more)
    <3>1. CASE /\ Is(file, "map") /\ i = 1
               /\ disk' = [disk EXCEPT ![QueryFile] = Mapping(Edited(file.map, edit))]
      <4>1. disk'[QueryFile] = Mapping(Edited(file.map, edit))
        BY <1>0, <3>1 DEF WellMade
      <4> QED BY <1>0, <2>2, <3>1, <4>1, FileEdited
    <3>2. CASE /\ Is(file, "seq") /\ i \in DOMAIN file.seq /\ Is(file.seq[i], "map")
               /\ disk' = [disk EXCEPT ![QueryFile].seq[i] = Mapping(Edited(file.seq[i].map, edit))]
      <4>1. disk'[QueryFile] = [file EXCEPT !.seq[i] = Mapping(Edited(file.seq[i].map, edit))]
        BY <1>0, <3>2 DEF WellMade
      <4> QED BY <1>0, <2>2, <3>2, <4>1, FileEdited
    <3> QED BY <1>3, <3>1, <3>2 DEF Edit
  <2> HIDE DEF file, more
  <2> QED BY <1>0, <2>1, <2>3 DEF Following
<1>4. ASSUME NEW h \in Handwritten, Handwrite(h.file, h.document)
      PROVE  Following'
  <2>1. /\ phase = "idle" /\ phase' = phase /\ touched' = touched
        /\ disk' = [disk EXCEPT ![h.file] = h.document]
        /\ origin' = IF h.file = QueryFile THEN <<>> ELSE origin
    BY <1>4 DEF Handwrite, Change, program
  <2>2. CASE h.file = QueryFile
    <3>1. origin' = <<>>
      BY <2>1, <2>2
    <3> QED BY <2>1, <3>1, NothingIdentified DEF Following
  <2>3. CASE h.file # QueryFile
    <3>1. disk'[QueryFile] = disk[QueryFile] /\ origin' = origin
      BY <1>0, <2>1, <2>3 DEF WellMade
    <3> QED BY <1>0, <2>1, <3>1 DEF Following
  <2> QED BY <2>2, <2>3
<1>5. ASSUME NEW mode, Decode(mode)
      PROVE  Following'
  <2>1. /\ phase' = IF IsError(observed') THEN "failed" ELSE "observed"
        /\ UNCHANGED <<registry, disk, origin, touched>>
        /\ \/ observed' = FromYaml(registry, disk[QueryFile])
           \/ observed' = DecodeYaml(registry, disk[QueryFile], mode)
    BY <1>5 DEF Decode, schema, files
  <2>2. ASSUME ~IsError(observed'), origin # <<>>, {"match", "type"} \cap touched = {}
        PROVE  SomeShow(observed'.states, origin, touched)
    <3>1. FileTracks(disk[QueryFile], origin, touched)
      BY <2>2 DEF Following
    <3>2. \/ IsError(FromYaml(registry, disk[QueryFile]))
          \/ SomeShow(FromYaml(registry, disk[QueryFile]).states, origin, touched)
      BY <1>0, <2>2, <3>1, FromYamlShows
    <3>3. \/ IsError(DecodeYaml(registry, disk[QueryFile], mode))
          \/ SomeShow(DecodeYaml(registry, disk[QueryFile], mode).states, origin, touched)
      BY <1>0, <2>2, <3>1, DecodeYamlShows
    <3> QED BY <2>1, <2>2, <3>2, <3>3
  <2> QED BY <1>0, <2>1, <2>2 DEF Following
<1>6. ASSUME Observe
      PROVE  Following'
  <2>1. /\ observed' = [states |-> origin] /\ phase' = "observed"
        /\ UNCHANGED <<disk, origin, touched>>
    BY <1>6 DEF Observe, files
  <2>2. SomeShow(origin, origin, touched)
    BY <1>0, ShowsItself
  <2> QED BY <1>0, <2>1, <2>2 DEF Following
<1>7. ASSUME NEW field \in FieldsOfMatch, PrepareStates(field)
      PROVE  Following'
  <2>1. /\ phase = "observed" /\ phase' = "prepared" /\ by' = field
        /\ outcome' = PrepareForApply(registry, observed.states, field)
        /\ UNCHANGED <<disk, origin, touched>>
    BY <1>7 DEF PrepareStates, files
  <2>2. ASSUME origin # <<>>, touched \cap {field, "match", "type"} = {}, ~IsError(outcome')
        PROVE  SomeSelect(outcome'.states, origin, field)
    <3>1. SomeShow(observed.states, origin, touched) /\ StatesMade(observed.states)
      BY <2>1, <2>2 DEF Following, WellMade
    <3>2. field \in FieldsOfMatch \ touched
      BY <2>2
    <3> QED BY <1>0, <2>1, <2>2, <3>1, <3>2, PreparedSelect
  <2> QED BY <1>0, <2>1, <2>2 DEF Following
<1>8. ASSUME Save
      PROVE  Following'
  <2>1. origin' = <<>>
    BY <1>8 DEF Save
  <2> QED BY <2>1, NothingIdentified DEF Following
<1>9. ASSUME \/ \E field \in FieldsOfMatch : Load(field)
             \/ Insert \/ ProduceFromSet \/ Finish
      PROVE  Following'
  <2>1. UNCHANGED <<disk, origin, touched>> /\ phase' \notin {"observed", "prepared"}
    BY <1>9 DEF Load, Insert, ProduceFromSet, Finish, files
  <2> QED BY <1>0, <2>1 DEF Following
<1>10. CASE UNCHANGED vars
  BY <1>10 DEF vars, files, program, Following
<1> QED BY <1>1, <1>2, <1>3, <1>4, <1>5, <1>6, <1>7, <1>8, <1>9, <1>10 DEF Next

\* A prepared state selects the device it was observed on, and by name no
\* other, through the file, its edits, decoding and preparation.
THEOREM PreparedSelects == Spec => []PreparedSelectsItsDevice
<1>1. Init => Following
  BY FollowingInit
<1>2. WellTyped /\ WellMade /\ KeptSinceTheStart /\ Following /\ [Next]_vars => Following'
  BY FollowingStep
<1>3. ASSUME Following, WellTyped
      PROVE  PreparedSelectsItsDevice
  <2> SUFFICES ASSUME phase = "prepared", ~IsError(outcome), origin # <<>>,
                      touched \cap {by, "type", "match"} = {}, NEW i \in DOMAIN origin
               PROVE  /\ Matches(outcome.states[i].match, origin[i].match)
                      /\ by = "name" => \A j \in DOMAIN origin :
                           Matches(outcome.states[i].match, origin[j].match) => j = i
    BY DEF PreparedSelectsItsDevice
  <2>1. /\ Distinguished(origin) /\ \A j \in DOMAIN origin : Identified(origin[j])
        /\ SomeSelect(outcome.states, origin, by) /\ by \in FieldsOfMatch
    BY <1>3 DEF Following, WellTyped
  <2>2. Selecting(outcome.states[i].match, origin[i], by)
    BY <2>1 DEF SomeSelect
  <2> QED BY <2>1, <2>2, SelectingMatches
<1> QED BY <1>1, <1>2, <1>3, TypedHolds, KeptHolds, PTL DEF Spec
=============================================================================
