------------------------- MODULE ChatStream_proofs -------------------------
EXTENDS ChatStream, FiniteSetTheorems, SequenceTheorems, WellFoundedInduction, TLAPS

(* The smallest of a set of numbers. *)
LEMMA Least ==
  ASSUME NEW T, T \subseteq Nat, T # {}
  PROVE  \E x \in T : \A y \in T : x <= y
<1> DEFINE R == OpToRel(<, Nat)
<1>1. \E x \in T : \A y \in T : <<y, x>> \notin R
  BY NatLessThanWellFounded, WFMin
<1>2. \E x \in T : \A y \in T : ~(y < x)
  BY <1>1 DEF OpToRel
<1> QED
  BY <1>2

(* Induction up to n, over a set instead of a formula. *)
LEMMA Climb ==
  ASSUME NEW n \in Nat, NEW P, 0 \in P, \A m \in 1 .. n : m - 1 \in P => m \in P
  PROVE  0 .. n \subseteq P
<1> DEFINE T == {m \in 0 .. n : m \notin P}
<1>1. CASE T # {}
  <2>1. PICK m \in T : \A y \in T : m <= y
    <3>1. T \subseteq Nat
      OBVIOUS
    <3> HIDE DEF T
    <3> QED
      BY <1>1, <3>1, Least
  <2>2. m # 0 /\ m \in 1 .. n /\ m - 1 \in 0 .. n /\ m - 1 \notin T
    BY <2>1
  <2> QED
    BY <2>1, <2>2
<1> QED
  BY <1>1

-----------------------------------------------------------------------------
(* Texts. *)

Token == Tags \union {Piece(n) : n \in Nat} \union {Thought(n) : n \in Nat}
Text == Seq(Token)

LEMMA TagsDiffer ==
  /\ \A k, j : Opening(k) # Closing(j)
  /\ \A k, j : Opening(k) = Opening(j) => k = j
  /\ \A k, j : Closing(k) = Closing(j) => k = j
  /\ \A k : Opening(k)[1] = "open" /\ Closing(k)[1] = "close"
  /\ \A n : Piece(n)[1] = "text" /\ Thought(n)[1] = "thought"
BY DEF Opening, Closing, Piece, Thought

LEMMA PositionFinds ==
  ASSUME NEW T, NEW s \in Seq(T), NEW token
  PROVE  /\ Position(token, s) \in 0 .. Len(s)
         /\ Position(token, s) = 0 => \A i \in 1 .. Len(s) : s[i] # token
         /\ Position(token, s) # 0 =>
              /\ s[Position(token, s)] = token
              /\ \A i \in 1 .. Position(token, s) - 1 : s[i] # token
<1> DEFINE I == {i \in 1 .. Len(s) : s[i] = token}
<1>1. Position(token, s) = IF I # {} THEN Min(I) ELSE 0
  BY DEF Position, SelectInSeq
<1>2. I # {} => Min(I) \in I /\ \A i \in I : Min(I) <= i
  <2>1. ASSUME I # {}
        PROVE  \E x \in I : \A y \in I : x <= y
    <3> HIDE DEF I
    <3>1. I \subseteq Nat
      BY DEF I
    <3> QED
      BY <2>1, <3>1, Least
  <2> QED
    BY <2>1 DEF Min
<1>3. \A i \in 1 .. Len(s) : i \in I <=> s[i] = token
  OBVIOUS
<1>4. I \subseteq 1 .. Len(s)
  OBVIOUS
<1> HIDE DEF I
<1>5. CASE I = {}
  BY <1>1, <1>3, <1>5
<1>6. CASE I # {}
  <2>1. Position(token, s) \in I /\ \A i \in I : Position(token, s) <= i
    BY <1>1, <1>2, <1>6
  <2>2. Position(token, s) \in 1 .. Len(s) /\ s[Position(token, s)] = token
    BY <2>1, <1>3, <1>4
  <2>3. \A i \in 1 .. Position(token, s) - 1 : s[i] # token
    BY <2>1, <2>2, <1>3
  <2> QED
    BY <2>2, <2>3
<1> QED
  BY <1>5, <1>6

(* A function that is computed step after step. *)
Computed(g, base, step, n) == g[0] = base /\ \A m \in 1 .. n : g[m] = step[m][g[m - 1]]

LEMMA Computes ==
  ASSUME NEW n \in Nat, NEW V, NEW base \in V, NEW step \in [1 .. n -> [V -> V]]
  PROVE  \E g \in [0 .. n -> V] : Computed(g, base, step, n)
<1> DEFINE P == {m \in 0 .. n : \E g \in [0 .. m -> V] : Computed(g, base, step, m)}
<1>1. 0 \in P
  <2>1. [m \in 0 .. 0 |-> base] \in [0 .. 0 -> V] /\ Computed([m \in 0 .. 0 |-> base], base, step, 0)
    BY DEF Computed
  <2> QED
    BY <2>1
<1>2. ASSUME NEW m \in 1 .. n, m - 1 \in P
      PROVE  m \in P
  <2>1. PICK g \in [0 .. m - 1 -> V] : Computed(g, base, step, m - 1)
    BY <1>2
  <2> DEFINE h == [i \in 0 .. m |-> IF i = m THEN step[m][g[m - 1]] ELSE g[i]]
  <2>2. g[m - 1] \in V /\ step[m][g[m - 1]] \in V
    BY <2>1
  <2>3. h \in [0 .. m -> V]
    BY <2>1, <2>2
  <2>4. Computed(h, base, step, m)
    BY <2>1 DEF Computed
  <2> HIDE DEF h
  <2> QED
    BY <2>3, <2>4
<1>3. 0 .. n \subseteq P
  <2> HIDE DEF P
  <2> QED
    BY <1>1, <1>2, Climb
<1> QED
  BY <1>3

(* Positions of a text that are kept. *)
LEMMA KeptStep ==
  ASSUME NEW T, NEW s \in Seq(T), NEW S
  PROVE  /\ KeptUpTo(s, S) \in [0 .. Len(s) -> Seq(T)]
         /\ KeptUpTo(s, S)[0] = <<>>
         /\ \A n \in 1 .. Len(s) : KeptUpTo(s, S)[n] = KeptUpTo(s, S)[n - 1] \o KeptAt(s, S, n)
<1> DEFINE Eq(f) == [n \in 0 .. Len(s) |-> IF n = 0 THEN <<>> ELSE f[n - 1] \o KeptAt(s, S, n)]
           step == [n \in 1 .. Len(s) |-> [x \in Seq(T) |-> x \o KeptAt(s, S, n)]]
<1>0. Len(s) \in Nat /\ \A n \in 1 .. Len(s) : KeptAt(s, S, n) \in Seq(T)
  BY DEF KeptAt
<1>1. step \in [1 .. Len(s) -> [Seq(T) -> Seq(T)]]
  BY <1>0
<1>a. \A n \in 1 .. Len(s), x \in Seq(T) : step[n][x] = x \o KeptAt(s, S, n)
  OBVIOUS
<1> HIDE DEF step
<1>2. PICK g \in [0 .. Len(s) -> Seq(T)] : Computed(g, <<>>, step, Len(s))
  BY <1>0, <1>1, Computes, EmptySeq
<1>3. g = Eq(g)
  <2>a. g[0] = <<>>
    BY <1>2 DEF Computed
  <2>b. \A n \in 1 .. Len(s) : g[n - 1] \in Seq(T)
    BY <1>0
  <2>c. \A n \in 1 .. Len(s) : g[n] = step[n][g[n - 1]]
    BY <1>2 DEF Computed
  <2>1. g[0] = <<>> /\ \A n \in 1 .. Len(s) : g[n - 1] \in Seq(T) /\ g[n] = step[n][g[n - 1]]
    BY <2>a, <2>b, <2>c
  <2>2. \A n \in 1 .. Len(s) : g[n] = g[n - 1] \o KeptAt(s, S, n)
    BY <2>1, <1>a
  <2> QED
    BY <2>1, <2>2
<1>4. KeptUpTo(s, S) = CHOOSE f : f = Eq(f)
  BY DEF KeptUpTo
<1>5. KeptUpTo(s, S) = Eq(KeptUpTo(s, S))
  <2> HIDE DEF Eq
  <2> QED
    BY <1>3, <1>4
<1> DEFINE f == KeptUpTo(s, S)
<1> HIDE DEF f
<1>b. f = Eq(f)
  BY <1>5 DEF f
<1>6. f[0] = <<>> /\ \A n \in 1 .. Len(s) : f[n] = f[n - 1] \o KeptAt(s, S, n)
  <2>1. \A n \in 0 .. Len(s) : f[n] = IF n = 0 THEN <<>> ELSE f[n - 1] \o KeptAt(s, S, n)
    BY <1>b
  <2>2. 0 \in 0 .. Len(s) /\ \A n \in 1 .. Len(s) : n \in 0 .. Len(s) /\ n # 0
    BY <1>0
  <2>a. f[0] = <<>>
    BY <2>1, <2>2
  <2>b. \A n \in 1 .. Len(s) : f[n] = f[n - 1] \o KeptAt(s, S, n)
    BY <2>1, <2>2
  <2> QED
    BY <2>a, <2>b
<1>7. \A n \in 0 .. Len(s) : f[n] \in Seq(T)
  <2> DEFINE P == {n \in 0 .. Len(s) : f[n] \in Seq(T)}
  <2>1. 0 \in P
    <3>1. f[0] \in Seq(T)
      BY <1>6, EmptySeq
    <3> QED
      BY <3>1, <1>0
  <2>3. ASSUME NEW n \in 1 .. Len(s), n - 1 \in P
        PROVE  n \in P
    <3>1. f[n - 1] \in Seq(T) /\ KeptAt(s, S, n) \in Seq(T) /\ f[n] = f[n - 1] \o KeptAt(s, S, n)
      BY <2>3, <1>0, <1>6
    <3>2. f[n] \in Seq(T)
      BY <3>1
    <3> QED
      BY <3>2, <1>0
  <2>2. 0 .. Len(s) \subseteq P
    <3> HIDE DEF P
    <3> QED
      BY <2>1, <2>3, <1>0, Climb
  <2> QED
    BY <2>2
<1>8. f \in [0 .. Len(s) -> Seq(T)]
  BY <1>b, <1>7
<1> QED
  BY <1>6, <1>8 DEF f

(* f takes the positions of k to those of s, up to n, that are in S. *)
Places(f, k, s, S, n) ==
  /\ f \in [1 .. Len(k) -> 1 .. n]
  /\ \A i, j \in 1 .. Len(k) : i < j => f[i] < f[j]
  /\ \A i \in 1 .. Len(k) : f[i] \in S /\ k[i] = s[f[i]]
  /\ \A m \in 1 .. n : m \in S => \E i \in 1 .. Len(k) : f[i] = m

LEMMA KeptPlaces ==
  ASSUME NEW T, NEW s \in Seq(T), NEW S
  PROVE  Kept(s, S) \in Seq(T) /\ \E f : Places(f, Kept(s, S), s, S, Len(s))
<1> DEFINE k == KeptUpTo(s, S)
           P == {n \in 0 .. Len(s) : \E f : Places(f, k[n], s, S, n)}
<1>0. Len(s) \in Nat
  OBVIOUS
<1>1. /\ k \in [0 .. Len(s) -> Seq(T)] /\ k[0] = <<>>
      /\ \A n \in 1 .. Len(s) : k[n] = k[n - 1] \o KeptAt(s, S, n)
  BY KeptStep
<1> HIDE DEF k
<1>2. 0 \in P
  <2>1. Len(k[0]) = 0
    BY <1>1
  <2>2. Places([i \in 1 .. 0 |-> 0], k[0], s, S, 0)
    BY <2>1 DEF Places
  <2> QED
    BY <2>2, <1>0
<1>3. ASSUME NEW n \in 1 .. Len(s), n - 1 \in P
      PROVE  n \in P
  <2>1. PICK f : Places(f, k[n - 1], s, S, n - 1)
    BY <1>3
  <2>a. n - 1 \in 0 .. Len(s) /\ s[n] \in T
    BY <1>0
  <2>b. k[n - 1] \in Seq(T)
    BY <2>a, <1>1
  <2>2. k[n - 1] \in Seq(T) /\ Len(k[n - 1]) \in Nat /\ s[n] \in T
    BY <2>a, <2>b
  <2>3. CASE n \notin S
    <3>0. k[n] = k[n - 1] \o <<>>
      BY <1>1, <2>3 DEF KeptAt
    <3>1. k[n] = k[n - 1]
      BY <3>0, <2>2, ConcatEmptySeq
    <3>2. Places(f, k[n], s, S, n)
      BY <3>1, <2>1, <2>2, <2>3 DEF Places
    <3> QED
      BY <3>2, <1>0
  <2>4. CASE n \in S
    <3> DEFINE l == Len(k[n - 1])
               g == [i \in 1 .. l + 1 |-> IF i = l + 1 THEN n ELSE f[i]]
    <3>1. k[n] = k[n - 1] \o <<s[n]>>
      BY <1>1, <2>4 DEF KeptAt
    <3>2. /\ Len(k[n]) = l + 1 /\ k[n][l + 1] = s[n]
          /\ \A i \in 1 .. l : k[n][i] = k[n - 1][i]
      BY <3>1, <2>2
    <3>3. \A i \in 1 .. l : f[i] \in 1 .. n - 1 /\ f[i] \in S /\ k[n - 1][i] = s[f[i]]
      BY <2>1 DEF Places
    <3>4. l \in Nat
      BY <2>2
    <3>5. \A i, j \in 1 .. l : i < j => f[i] < f[j]
      BY <2>1 DEF Places
    <3>6. \A m \in 1 .. n - 1 : m \in S => \E i \in 1 .. l : f[i] = m
      BY <2>1 DEF Places
    <3> HIDE DEF l
    <3>7. g \in [1 .. l + 1 -> 1 .. n]
      BY <3>3, <3>4
    <3>8. \A i, j \in 1 .. l + 1 : i < j => g[i] < g[j]
      BY <3>3, <3>4, <3>5
    <3>9. \A i \in 1 .. l + 1 : g[i] \in S /\ k[n][i] = s[g[i]]
      BY <3>2, <3>3, <3>4, <2>4
    <3>10. ASSUME NEW m \in 1 .. n, m \in S
           PROVE  \E i \in 1 .. l + 1 : g[i] = m
      <4>1. CASE m = n
        BY <3>4, <4>1
      <4>2. CASE m # n
        <5>1. PICK i \in 1 .. l : f[i] = m
          BY <3>6, <3>10, <4>2
        <5> QED
          BY <5>1, <3>4
      <4> QED
        BY <4>1, <4>2
    <3> HIDE DEF g
    <3>11. Places(g, k[n], s, S, n)
      BY <3>2, <3>7, <3>8, <3>9, <3>10 DEF Places
    <3> QED
      BY <3>11, <1>0
  <2> QED
    BY <2>3, <2>4
<1>4. 0 .. Len(s) \subseteq P
  <2> HIDE DEF P
  <2> QED
    BY <1>0, <1>2, <1>3, Climb
<1>5. Kept(s, S) = k[Len(s)]
  BY DEF k, Kept
<1>6. Len(s) \in 0 .. Len(s)
  BY <1>0
<1> QED
  BY <1>1, <1>4, <1>5, <1>6

(* All that is kept, and only that. *)
LEMMA KeptSet ==
  ASSUME NEW T, NEW s \in Seq(T), NEW S
  PROVE  ToSet(Kept(s, S)) = {s[i] : i \in {j \in DOMAIN s : j \in S}}
<1>1. PICK f : Places(f, Kept(s, S), s, S, Len(s))
  BY KeptPlaces
<1>2. Kept(s, S) \in Seq(T) /\ DOMAIN s = 1 .. Len(s)
  BY KeptPlaces
<1>3. DOMAIN Kept(s, S) = 1 .. Len(Kept(s, S))
  BY <1>2
<1> DEFINE k == Kept(s, S)
           R == {s[i] : i \in {j \in DOMAIN s : j \in S}}
<1>a. ToSet(k) = {k[i] : i \in 1 .. Len(k)}
  BY <1>3 DEF ToSet
<1> HIDE DEF k
<1>b. Len(s) \in Nat
  OBVIOUS
<1>4. ASSUME NEW i \in 1 .. Len(k)
      PROVE  k[i] \in R
  <2>1. f[i] \in 1 .. Len(s) /\ f[i] \in S /\ k[i] = s[f[i]]
    BY <1>1 DEF Places, k
  <2> QED
    BY <2>1, <1>2
<1>5. ASSUME NEW m \in DOMAIN s, m \in S
      PROVE  s[m] \in ToSet(k)
  <2>1. PICK i \in 1 .. Len(k) : f[i] = m
    BY <1>1, <1>2, <1>5 DEF Places, k
  <2>2. k[i] = s[m]
    BY <1>1, <2>1 DEF Places, k
  <2> QED
    BY <2>2, <1>a
<1>6. ToSet(k) \subseteq R /\ R \subseteq ToSet(k)
  BY <1>a, <1>4, <1>5
<1> QED
  BY <1>6 DEF k

-----------------------------------------------------------------------------
(* Blocks. *)

Call == [index : Nat, parts : Nat]
BlockTypes == {"text", "tool_calls"} \union SectionTypes
ABlock == [type : BlockTypes, text : Text, done : BOOLEAN, native : BOOLEAN,
           calls : Seq(Call), results : Seq(Nat)]
Blocks == Seq(ABlock)

LEMMA RenderedKeeps ==
  ASSUME NEW bs \in Blocks
  PROVE  Rendered(bs) \in Blocks /\ Tokens(Rendered(bs)) = Tokens(bs)
<1> DEFINE S == {i \in DOMAIN bs : bs[i].type \in {"text", "solution"} => bs[i].text # <<>>}
<1>1. Rendered(bs) = Kept(bs, S)
  BY DEF Rendered
<1>2. Rendered(bs) \in Blocks
  BY <1>1, KeptPlaces DEF Blocks
<1>3. ToSet(Rendered(bs)) = {bs[i] : i \in {j \in DOMAIN bs : j \in S}}
  BY <1>1, KeptSet DEF Blocks
<1>4. \A i \in DOMAIN bs : i \notin S => ToSet(bs[i].text) = {}
  BY DEF ToSet
<1> HIDE DEF S
<1>5. ASSUME NEW i \in DOMAIN Rendered(bs)
      PROVE  \E j \in DOMAIN bs : bs[j].text = Rendered(bs)[i].text
  BY <1>3 DEF ToSet
<1>6. ASSUME NEW i \in DOMAIN bs, i \in S
      PROVE  \E j \in DOMAIN Rendered(bs) : Rendered(bs)[j].text = bs[i].text
  <2>1. bs[i] \in ToSet(Rendered(bs))
    BY <1>3, <1>6
  <2> QED
    BY <2>1 DEF ToSet
<1>7. Tokens(Rendered(bs)) \subseteq Tokens(bs)
  BY <1>5 DEF Tokens
<1>8. Tokens(bs) \subseteq Tokens(Rendered(bs))
  BY <1>4, <1>6 DEF Tokens
<1> QED
  BY <1>2, <1>7, <1>8

(* The parts of a text. *)
LEMMA Rest ==
  ASSUME NEW s \in Text, NEW i \in 0 .. Len(s)
  PROVE  /\ From(s, i) \in Text /\ Len(From(s, i)) = Len(s) - i
         /\ \A j \in 1 .. Len(s) - i : From(s, i)[j] = s[i + j]
<1>1. Len(s) \in Nat /\ i + 1 \in 1 .. Len(s) + 1 /\ s \in Seq(Token)
  BY DEF Text
<1>2. /\ SubSeq(s, i + 1, Len(s)) \in Seq(Token)
      /\ Len(SubSeq(s, i + 1, Len(s))) = IF i + 1 <= Len(s) THEN Len(s) - (i + 1) + 1 ELSE 0
      /\ \A j \in 1 .. Len(s) - (i + 1) + 1 : SubSeq(s, i + 1, Len(s))[j] = s[i + 1 + j - 1]
  BY <1>1, SubSeqProperties
<1> DEFINE f == SubSeq(s, i + 1, Len(s))
<1>3. f = From(s, i)
  BY DEF From
<1> HIDE DEF f
<1>4. Len(f) = Len(s) - i
  BY <1>1, <1>2 DEF f
<1>5. \A j \in 1 .. Len(s) - i : f[j] = s[i + j]
  <2>1. \A j \in 1 .. Len(s) - i : j \in 1 .. Len(s) - (i + 1) + 1 /\ i + 1 + j - 1 = i + j
    BY <1>1
  <2> QED
    BY <2>1, <1>2 DEF f
<1> QED
  BY <1>2, <1>3, <1>4, <1>5 DEF f, Text

LEMMA Cut ==
  ASSUME NEW s \in Text, NEW i \in 1 .. Len(s)
  PROVE  /\ UpTo(s, i) \in Text /\ From(s, i) \in Text
         /\ Len(UpTo(s, i)) = i - 1 /\ \A j \in 1 .. i - 1 : UpTo(s, i)[j] = s[j]
         /\ Len(From(s, i)) = Len(s) - i /\ \A j \in 1 .. Len(s) - i : From(s, i)[j] = s[i + j]
         /\ ToSet(s) = ToSet(UpTo(s, i)) \union {s[i]} \union ToSet(From(s, i))
<1> DEFINE u == UpTo(s, i)
           f == From(s, i)
<1>0. Len(s) \in Nat /\ DOMAIN s = 1 .. Len(s)
  BY DEF Text
<1>1. u \in Text /\ Len(u) = i - 1 /\ \A j \in 1 .. i - 1 : u[j] = s[j]
  BY <1>0 DEF UpTo, Text
<1>2. f \in Text /\ Len(f) = Len(s) - i /\ \A j \in 1 .. Len(s) - i : f[j] = s[i + j]
  <2>1. i \in 0 .. Len(s)
    BY <1>0
  <2> QED
    BY <2>1, Rest
<1> HIDE DEF u, f
<1>3. DOMAIN u = 1 .. i - 1 /\ DOMAIN f = 1 .. Len(s) - i
  BY <1>1, <1>2 DEF Text
<1>4. ASSUME NEW j \in 1 .. Len(s)
      PROVE  s[j] \in ToSet(u) \union {s[i]} \union ToSet(f)
  <2>1. CASE j < i
    BY <1>0, <1>1, <1>3, <2>1 DEF ToSet
  <2>2. CASE j > i
    <3>1. j - i \in 1 .. Len(s) - i /\ f[j - i] = s[j]
      BY <1>0, <1>2, <2>2
    <3> QED
      BY <3>1, <1>3 DEF ToSet
  <2> QED
    BY <1>0, <2>1, <2>2
<1>5. ToSet(u) \subseteq ToSet(s)
  BY <1>0, <1>1, <1>3 DEF ToSet
<1>6. ToSet(f) \subseteq ToSet(s)
  <2>1. \A j \in 1 .. Len(s) - i : i + j \in 1 .. Len(s)
    BY <1>0
  <2> QED
    BY <2>1, <1>0, <1>2, <1>3 DEF ToSet
<1>7. ToSet(s) \subseteq ToSet(u) \union {s[i]} \union ToSet(f) /\ s[i] \in ToSet(s)
  BY <1>0, <1>4 DEF ToSet
<1> QED
  BY <1>1, <1>2, <1>5, <1>6, <1>7 DEF u, f

LEMMA Joined ==
  ASSUME NEW s \in Text, NEW t \in Text
  PROVE  /\ s \o t \in Text /\ ToSet(s \o t) = ToSet(s) \union ToSet(t)
         /\ Len(s \o t) = Len(s) + Len(t)
         /\ \A i \in 1 .. Len(s) : (s \o t)[i] = s[i]
         /\ \A i \in 1 .. Len(t) : (s \o t)[Len(s) + i] = t[i]
<1>0. Len(s) \in Nat /\ DOMAIN s = 1 .. Len(s) /\ Len(t) \in Nat /\ DOMAIN t = 1 .. Len(t)
  BY DEF Text
<1>1. s \o t \in Text /\ Len(s \o t) = Len(s) + Len(t) /\ DOMAIN (s \o t) = 1 .. Len(s) + Len(t)
  BY DEF Text
<1>2. \A i \in 1 .. Len(s) : (s \o t)[i] = s[i]
  BY DEF Text
<1>3. \A i \in 1 .. Len(t) : (s \o t)[Len(s) + i] = t[i]
  BY <1>0 DEF Text
<1> DEFINE c == s \o t
<1> HIDE DEF c
<1>4. ASSUME NEW i \in 1 .. Len(s) + Len(t)
      PROVE  c[i] \in ToSet(s) \union ToSet(t)
  <2>1. CASE i <= Len(s)
    BY <1>0, <1>2, <2>1 DEF ToSet, c
  <2>2. CASE i > Len(s)
    <3>1. i - Len(s) \in 1 .. Len(t) /\ c[i] = t[i - Len(s)]
      BY <1>0, <1>3, <2>2 DEF c
    <3> QED
      BY <3>1, <1>0 DEF ToSet
  <2> QED
    BY <1>0, <2>1, <2>2
<1>5. ToSet(s) \subseteq ToSet(c)
  BY <1>0, <1>1, <1>2 DEF ToSet, c
<1>6. ToSet(t) \subseteq ToSet(c)
  <2>1. \A i \in 1 .. Len(t) : Len(s) + i \in 1 .. Len(s) + Len(t)
    BY <1>0
  <2> QED
    BY <2>1, <1>0, <1>1, <1>3 DEF ToSet, c
<1>7. ToSet(c) \subseteq ToSet(s) \union ToSet(t)
  BY <1>1, <1>4 DEF ToSet, c
<1>8. ToSet(c) = ToSet(s) \union ToSet(t)
  BY <1>5, <1>6, <1>7
<1> QED
  BY <1>1, <1>2, <1>3, <1>8 DEF c

LEMMA WithoutKeeps ==
  ASSUME NEW part \in Text, NEW s \in Text
  PROVE  /\ Without(part, s) \in Text
         /\ ToSet(Without(part, s)) \subseteq ToSet(s)
         /\ ToSet(s) \subseteq ToSet(Without(part, s)) \union ToSet(part)
<1> DEFINE found == {i \in DOMAIN s : IsPrefix(part, SubSeq(s, i, Len(s)))}
           m == Min(found)
           e == m + Len(part) - 1
<1>0. Len(s) \in Nat /\ DOMAIN s = 1 .. Len(s) /\ Len(part) \in Nat /\ DOMAIN part = 1 .. Len(part)
  BY DEF Text
<1>1. CASE found = {}
  BY <1>1 DEF Without
<1>2. CASE found # {}
  <2>1. m \in found
    <3>1. found \subseteq Nat
      BY <1>0
    <3> HIDE DEF found
    <3>2. \E x \in found : \A y \in found : x <= y
      BY <1>2, <3>1, Least
    <3> QED
      BY <3>2 DEF Min
  <2>2. Without(part, s) = UpTo(s, m) \o From(s, e)
    BY <1>2 DEF Without
  <2>3. m \in 1 .. Len(s) /\ IsPrefix(part, SubSeq(s, m, Len(s)))
    BY <2>1, <1>0
  <2> HIDE DEF m
  <2>4. SubSeq(s, m, Len(s)) \in Text /\ Len(SubSeq(s, m, Len(s))) = Len(s) - m + 1
    BY <2>3, <1>0 DEF Text
  <2>5. \A j \in 1 .. Len(s) - m + 1 : SubSeq(s, m, Len(s))[j] = s[m + j - 1]
    BY <2>3, <1>0 DEF Text
  <2>6. Len(part) <= Len(s) - m + 1
    BY <2>3, <2>4 DEF IsPrefix
  <2>7. \A j \in 1 .. Len(part) : part[j] = s[m + j - 1]
    <3>1. SubSeq(part, 1, Len(part)) = SubSeq(SubSeq(s, m, Len(s)), 1, Len(part))
      BY <2>3 DEF IsPrefix
    <3>2. \A j \in 1 .. Len(part) : SubSeq(part, 1, Len(part))[j] = part[j]
      BY <1>0 DEF Text
    <3> DEFINE q == SubSeq(s, m, Len(s))
    <3> HIDE DEF q
    <3>3. \A j \in 1 .. Len(part) : SubSeq(q, 1, Len(part))[j] = q[j]
      BY <1>0, <2>4, <2>6 DEF Text, q
    <3>4. \A j \in 1 .. Len(part) : j \in 1 .. Len(s) - m + 1
      BY <1>0, <2>3, <2>6
    <3> QED
      BY <3>1, <3>2, <3>3, <3>4, <2>5 DEF q
  <2>8. UpTo(s, m) \in Text /\ ToSet(UpTo(s, m)) = {s[j] : j \in 1 .. m - 1}
    <3>1. UpTo(s, m) \in Text /\ Len(UpTo(s, m)) = m - 1 /\ \A j \in 1 .. m - 1 : UpTo(s, m)[j] = s[j]
      BY <2>3, Cut
    <3>2. DOMAIN UpTo(s, m) = 1 .. m - 1
      BY <3>1 DEF Text
    <3> QED
      BY <3>1, <3>2 DEF ToSet
  <2>9. e \in 0 .. Len(s)
    BY <1>0, <2>3, <2>6
  <2>10. From(s, e) \in Text /\ ToSet(From(s, e)) = {s[j] : j \in e + 1 .. Len(s)}
    <3> HIDE DEF e
    <3>0. From(s, e) \in Text /\ Len(From(s, e)) = Len(s) - e
      BY <2>9, Rest
    <3>1. From(s, e) \in Text /\ Len(From(s, e)) = Len(s) - e /\ DOMAIN From(s, e) = 1 .. Len(s) - e
      BY <3>0 DEF Text
    <3>2. \A j \in 1 .. Len(s) - e : From(s, e)[j] = s[e + j]
      BY <2>9, Rest
    <3>3. \A j \in 1 .. Len(s) - e : e + j \in e + 1 .. Len(s)
      BY <1>0, <2>9
    <3>4. \A j \in e + 1 .. Len(s) : j - e \in 1 .. Len(s) - e /\ e + (j - e) = j
      BY <1>0, <2>9
    <3> QED
      BY <3>1, <3>2, <3>3, <3>4 DEF ToSet
  <2>11. Without(part, s) \in Text
         /\ ToSet(Without(part, s)) = ToSet(UpTo(s, m)) \union ToSet(From(s, e))
    BY <2>2, <2>8, <2>10, Joined
  <2>12. ASSUME NEW j \in 1 .. Len(s)
         PROVE  s[j] \in ToSet(Without(part, s)) \union ToSet(part)
    <3>1. CASE j \in 1 .. m - 1
      BY <3>1, <2>8, <2>11
    <3>2. CASE j \in e + 1 .. Len(s)
      BY <3>2, <2>10, <2>11
    <3>3. CASE j >= m /\ j <= e
      <4>1. j - m + 1 \in 1 .. Len(part) /\ m + (j - m + 1) - 1 = j
        BY <3>3, <2>3, <1>0
      <4>2. part[j - m + 1] = s[j]
        BY <4>1, <2>7
      <4> QED
        BY <4>1, <4>2, <1>0 DEF ToSet
    <3> QED
      BY <3>1, <3>2, <3>3, <2>3, <1>0
  <2>13. \A j \in 1 .. m - 1 : j \in 1 .. Len(s)
    BY <2>3, <1>0
  <2>14. \A j \in e + 1 .. Len(s) : j \in 1 .. Len(s)
    BY <2>9, <1>0
  <2> HIDE DEF e
  <2>15. ToSet(Without(part, s)) \subseteq ToSet(s)
    BY <2>8, <2>10, <2>11, <2>13, <2>14, <1>0 DEF ToSet
  <2>16. ToSet(s) \subseteq ToSet(Without(part, s)) \union ToSet(part)
    BY <2>12, <1>0 DEF ToSet
  <2> QED
    BY <2>11, <2>15, <2>16
<1> QED
  BY <1>1, <1>2

-----------------------------------------------------------------------------
(* The last block of an answer and those before it. *)

LEMMA Added ==
  ASSUME NEW bs \in Blocks, NEW b \in ABlock
  PROVE  /\ Append(bs, b) \in Blocks /\ Append(bs, b) # <<>>
         /\ Last(Append(bs, b)) = b /\ Front(Append(bs, b)) = bs
         /\ Len(Append(bs, b)) = Len(bs) + 1
         /\ \A i \in 1 .. Len(bs) : Append(bs, b)[i] = bs[i]
         /\ Append(bs, b)[Len(bs) + 1] = b
         /\ Tokens(Append(bs, b)) = Tokens(bs) \union ToSet(b.text)
<1> DEFINE c == Append(bs, b)
<1>0. Len(bs) \in Nat /\ DOMAIN bs = 1 .. Len(bs)
  BY DEF Blocks
<1>1. /\ c \in Blocks /\ Len(c) = Len(bs) + 1
      /\ \A i \in 1 .. Len(bs) : c[i] = bs[i]
      /\ c[Len(bs) + 1] = b
  BY DEF Blocks
<1>2. Front(c) = bs
  BY <1>0, HeadTailAppend, AppendProperties DEF Blocks, Front
<1> HIDE DEF c
<1>3. DOMAIN c = 1 .. Len(bs) + 1
  BY <1>1 DEF Blocks
<1>4. c # <<>> /\ Last(c) = b
  BY <1>0, <1>1 DEF Last
<1>5. Tokens(c) \subseteq Tokens(bs) \union ToSet(b.text)
  <2>1. ASSUME NEW i \in 1 .. Len(bs) + 1
        PROVE  ToSet(c[i].text) \subseteq Tokens(bs) \union ToSet(b.text)
    <3>1. CASE i = Len(bs) + 1
      BY <3>1, <1>1
    <3>2. CASE i # Len(bs) + 1
      <4>1. i \in DOMAIN bs /\ c[i] = bs[i]
        BY <3>2, <1>0, <1>1
      <4> QED
        BY <4>1 DEF Tokens
    <3> QED
      BY <3>1, <3>2
  <2> QED
    BY <2>1, <1>3 DEF Tokens
<1>6. Tokens(bs) \subseteq Tokens(c)
  <2>1. \A i \in 1 .. Len(bs) : i \in 1 .. Len(bs) + 1
    BY <1>0
  <2> QED
    BY <2>1, <1>0, <1>1, <1>3 DEF Tokens
<1>7. ToSet(b.text) \subseteq Tokens(c)
  <2>1. Len(bs) + 1 \in DOMAIN c
    BY <1>0, <1>3
  <2> QED
    BY <2>1, <1>1 DEF Tokens
<1>8. Tokens(c) = Tokens(bs) \union ToSet(b.text)
  BY <1>5, <1>6, <1>7
<1> QED
  BY <1>1, <1>2, <1>4, <1>8 DEF c

LEMMA Split ==
  ASSUME NEW bs \in Blocks, bs # <<>>
  PROVE  /\ Front(bs) \in Blocks /\ Last(bs) \in ABlock
         /\ bs = Append(Front(bs), Last(bs))
         /\ Len(bs) \in Nat \ {0} /\ Len(Front(bs)) = Len(bs) - 1
         /\ \A b : WithLast(bs, b) = Append(Front(bs), b)
<1>0. Len(bs) \in Nat \ {0} /\ DOMAIN bs = 1 .. Len(bs)
  BY EmptySeq, LenProperties DEF Blocks
<1>1. /\ Front(bs) \in Blocks /\ Len(Front(bs)) = Len(bs) - 1
      /\ \A i \in 1 .. Len(bs) - 1 : Front(bs)[i] = bs[i]
  BY <1>0 DEF Blocks, Front
<1>2. Last(bs) \in ABlock
  BY <1>0 DEF Blocks, Last
<1> DEFINE f == Front(bs)
<1> HIDE DEF f
<1>3. ASSUME NEW b
      PROVE  WithLast(bs, b) = Append(f, b)
  <2> DEFINE T == ABlock \union {b}
             w == WithLast(bs, b)
             a == Append(f, b)
  <2>0. bs \in Seq(T) /\ f \in Seq(T) /\ b \in T
    BY <1>1 DEF f, Blocks
  <2>1. w \in Seq(T) /\ Len(w) = Len(bs) /\ \A i \in 1 .. Len(bs) : w[i] = IF i = Len(bs) THEN b ELSE bs[i]
    BY <1>0, <2>0 DEF WithLast, ReplaceAt
  <2>2. /\ a \in Seq(T) /\ Len(a) = Len(bs)
        /\ \A i \in 1 .. Len(bs) : a[i] = IF i = Len(bs) THEN b ELSE bs[i]
    <3>1. a \in Seq(T) /\ Len(a) = Len(f) + 1 /\ a[Len(f) + 1] = b /\ \A i \in 1 .. Len(f) : a[i] = f[i]
      BY <2>0
    <3>2. Len(f) = Len(bs) - 1 /\ \A i \in 1 .. Len(bs) - 1 : f[i] = bs[i]
      BY <1>1 DEF f
    <3> HIDE DEF a
    <3> QED
      BY <3>1, <3>2, <1>0
  <2> HIDE DEF w, a
  <2> QED
    BY <2>1, <2>2, SeqEqual DEF w, a
<1>4. bs = Append(f, Last(bs))
  <2>1. /\ Append(f, Last(bs)) \in Blocks /\ Len(Append(f, Last(bs))) = Len(f) + 1
        /\ Append(f, Last(bs))[Len(f) + 1] = Last(bs)
        /\ \A i \in 1 .. Len(f) : Append(f, Last(bs))[i] = f[i]
    BY <1>1, <1>2, Added DEF f
  <2> DEFINE a == Append(f, Last(bs))
  <2> HIDE DEF a
  <2>2. Len(a) = Len(bs) /\ \A i \in 1 .. Len(bs) : a[i] = bs[i]
    BY <1>0, <1>1, <2>1 DEF a, f, Last
  <2>3. a = bs
    BY <2>1, <2>2, SeqEqual DEF a, Blocks
  <2> QED
    BY <2>3 DEF a
<1> QED
  BY <1>0, <1>1, <1>2, <1>3, <1>4 DEF f

(* What is always so of a block that is done with: a section does not hold *)
(* its closing tag, and calls have their results.                          *)
Distinct(cs) == \A j, k \in 1 .. Len(cs) : cs[j].index = cs[k].index => j = k
ResultsOf(cs, rs) ==
  Len(rs) = Len(cs) /\ \A j \in 1 .. Len(cs) : rs[j] = cs[j].index
Fine(b) ==
  /\ b.type \in SectionTypes => Closing(b.type) \notin ToSet(b.text)
  /\ b.native => b.type = "reasoning"
  /\ b.type = "tool_calls" => b.text = <<>> /\ Distinct(b.calls) /\ ResultsOf(b.calls, b.results)
AllFine(bs) == \A i \in 1 .. Len(bs) : Fine(bs[i])

LEMMA FineAdded ==
  ASSUME NEW bs \in Blocks, NEW b \in ABlock
  PROVE  AllFine(Append(bs, b)) <=> AllFine(bs) /\ Fine(b)
<1>1. /\ Len(Append(bs, b)) = Len(bs) + 1 /\ Append(bs, b)[Len(bs) + 1] = b
      /\ \A i \in 1 .. Len(bs) : Append(bs, b)[i] = bs[i]
  BY Added
<1>2. Len(bs) \in Nat
  BY DEF Blocks
<1> DEFINE c == Append(bs, b)
<1> HIDE DEF c
<1>3. ASSUME AllFine(c)
      PROVE  AllFine(bs) /\ Fine(b)
  <2>1. Len(c) \in 1 .. Len(c) /\ \A i \in 1 .. Len(bs) : i \in 1 .. Len(c)
    BY <1>1, <1>2 DEF c
  <2> QED
    BY <1>1, <1>3, <2>1 DEF AllFine, c
<1>4. ASSUME AllFine(bs), Fine(b)
      PROVE  AllFine(c)
  <2> SUFFICES ASSUME NEW i \in 1 .. Len(c)
               PROVE  Fine(c[i])
    BY DEF AllFine
  <2>1. i = Len(bs) + 1 \/ i \in 1 .. Len(bs)
    BY <1>1, <1>2 DEF c
  <2> QED
    BY <1>1, <1>4, <2>1 DEF AllFine, c
<1> QED
  BY <1>3, <1>4 DEF c

LEMMA NewBlocks ==
  ASSUME NEW t \in Text
  PROVE  /\ TextBlock(t) \in ABlock /\ Fine(TextBlock(t))
         /\ TextBlock(t).type = "text" /\ TextBlock(t).text = t /\ ~TextBlock(t).native
         /\ \A k \in SectionTypes : /\ Block(k, t) \in ABlock
                                    /\ Block(k, t).type = k /\ Block(k, t).text = t
                                    /\ ~Block(k, t).native
BY EmptySeq DEF TextBlock, Block, ABlock, BlockTypes, Fine, SectionTypes

(* A section ends: only what follows the end of code may be lost.          *)
LEMMA SectionEnds ==
  ASSUME NEW kind \in SectionTypes, NEW bs \in Blocks, bs # <<>>,
         Last(bs).type = kind, ~Last(bs).native, AllFine(Front(bs)),
         NEW i, i = Position(Closing(kind), Last(bs).text),
         NEW r, r = EndSection(kind, bs)
  PROVE  /\ r \in Blocks /\ r # <<>> /\ AllFine(r) /\ ~Last(r).native
         /\ \/ Last(r).type = "text" /\ Last(r).text = IF i = 0 THEN <<>> ELSE From(Last(bs).text, i)
            \/ Last(r).type = kind /\ kind = "code_interpreter"
         /\ Tokens(r) \subseteq Tokens(bs)
         /\ \/ Tokens(bs) \subseteq Tokens(r) \union {Closing(kind)}
            \/ /\ Last(r).type = "code_interpreter" /\ kind = "code_interpreter"
               /\ i # 0 /\ From(Last(bs).text, i) # <<>>
<1> DEFINE F == Front(bs)
           L == Last(bs)
           t == L.text
           inner == IF i = 0 THEN t ELSE UpTo(t, i)
           left == IF i = 0 THEN <<>> ELSE From(t, i)
           ended == [L EXCEPT !.text = inner, !.done = (kind # "code_interpreter")]
<1>1. F \in Blocks /\ L \in ABlock /\ bs = Append(F, L) /\ \A b : WithLast(bs, b) = Append(F, b)
  BY Split
<1>2. t \in Text
  BY <1>1 DEF ABlock
<1>3. /\ i \in 0 .. Len(t) /\ (i = 0 => \A j \in 1 .. Len(t) : t[j] # Closing(kind))
      /\ i # 0 => t[i] = Closing(kind) /\ \A j \in 1 .. i - 1 : t[j] # Closing(kind)
  BY <1>2, PositionFinds DEF Text
<1>4. /\ inner \in Text /\ left \in Text
      /\ Closing(kind) \notin ToSet(inner)
      /\ ToSet(t) \subseteq ToSet(inner) \union ToSet(left) \union {Closing(kind)}
      /\ ToSet(inner) \subseteq ToSet(t) /\ ToSet(left) \subseteq ToSet(t)
  <2>1. CASE i = 0
    <3>1. DOMAIN t = 1 .. Len(t) /\ ToSet(<<>>) = {} /\ <<>> \in Text
      BY <1>2 DEF Text, ToSet
    <3> QED
      BY <2>1, <3>1, <1>2, <1>3 DEF ToSet
  <2>2. CASE i # 0
    <3>1. i \in 1 .. Len(t)
      BY <1>2, <1>3, <2>2 DEF Text
    <3>2. /\ UpTo(t, i) \in Text /\ From(t, i) \in Text
          /\ Len(UpTo(t, i)) = i - 1 /\ \A j \in 1 .. i - 1 : UpTo(t, i)[j] = t[j]
          /\ ToSet(t) = ToSet(UpTo(t, i)) \union {t[i]} \union ToSet(From(t, i))
      BY <1>2, <3>1, Cut
    <3>3. DOMAIN UpTo(t, i) = 1 .. i - 1
      BY <3>2 DEF Text
    <3>4. Closing(kind) \notin ToSet(UpTo(t, i))
      BY <3>2, <3>3, <1>3, <2>2 DEF ToSet
    <3> QED
      BY <2>2, <3>2, <3>4, <1>3
  <2> QED
    BY <2>1, <2>2
<1>5. Leftover(t, i) = left
  BY DEF Leftover
<1>6. ended \in ABlock /\ ended.type = kind /\ ended.text = inner /\ ended.native = FALSE /\ Fine(ended)
  BY <1>1, <1>4 DEF ABlock, Fine, SectionTypes
<1>7. r = IF inner = <<>> THEN Append(F, TextBlock(left))
          ELSE IF kind = "code_interpreter" THEN Append(F, ended)
          ELSE Append(Append(F, ended), TextBlock(left))
  BY <1>1, <1>5 DEF EndSection
<1>8. Tokens(bs) = Tokens(F) \union ToSet(t)
  <2>1. Tokens(Append(F, L)) = Tokens(F) \union ToSet(L.text)
    BY <1>1, Added
  <2> QED
    BY <2>1, <1>1
<1>9. TextBlock(left) \in ABlock /\ Fine(TextBlock(left)) /\ TextBlock(left).type = "text"
      /\ TextBlock(left).text = left /\ ~TextBlock(left).native
  BY <1>4, NewBlocks
<1> HIDE DEF F, ended, inner, left
<1>10. AllFine(F)
  BY DEF F
<1>11. CASE inner = <<>>
  <2>1. r = Append(F, TextBlock(left))
    BY <1>7, <1>11
  <2>2. r \in Blocks /\ r # <<>> /\ Last(r) = TextBlock(left) /\ Tokens(r) = Tokens(F) \union ToSet(left)
    BY <2>1, <1>1, <1>9, Added
  <2>3. AllFine(r)
    BY <2>1, <1>1, <1>9, <1>10, FineAdded
  <2>4. ToSet(inner) = {}
    BY <1>11 DEF ToSet
  <2> QED
    BY <2>2, <2>3, <2>4, <1>4, <1>8, <1>9 DEF left
<1>12. CASE inner # <<>> /\ kind = "code_interpreter"
  <2>1. r = Append(F, ended)
    BY <1>7, <1>12
  <2>2. r \in Blocks /\ r # <<>> /\ Last(r) = ended /\ Tokens(r) = Tokens(F) \union ToSet(inner)
    BY <2>1, <1>1, <1>6, Added
  <2>3. AllFine(r)
    BY <2>1, <1>1, <1>6, <1>10, FineAdded
  <2>4. CASE left = <<>>
    <3>1. ToSet(left) = {}
      BY <2>4 DEF ToSet
    <3> QED
      BY <2>2, <2>3, <3>1, <1>4, <1>6, <1>8, <1>12
  <2>5. CASE left # <<>>
    <3>1. i # 0 /\ From(t, i) # <<>>
      BY <2>5 DEF left
    <3> QED
      BY <2>2, <2>3, <3>1, <1>4, <1>6, <1>8, <1>12
  <2> QED
    BY <2>4, <2>5
<1>13. CASE inner # <<>> /\ kind # "code_interpreter"
  <2>1. r = Append(Append(F, ended), TextBlock(left))
    BY <1>7, <1>13
  <2>2. Append(F, ended) \in Blocks /\ Tokens(Append(F, ended)) = Tokens(F) \union ToSet(inner)
        /\ AllFine(Append(F, ended))
    BY <1>1, <1>6, <1>10, Added, FineAdded
  <2>3. /\ r \in Blocks /\ r # <<>> /\ Last(r) = TextBlock(left)
        /\ Tokens(r) = Tokens(F) \union ToSet(inner) \union ToSet(left) /\ AllFine(r)
    <3> DEFINE G == Append(F, ended)
    <3> HIDE DEF G
    <3>1. G \in Blocks /\ r = Append(G, TextBlock(left))
      BY <2>1, <2>2 DEF G
    <3>2. /\ r \in Blocks /\ r # <<>> /\ Last(r) = TextBlock(left)
          /\ Tokens(r) = Tokens(G) \union ToSet(TextBlock(left).text)
      BY <3>1, <1>9, Added
    <3>3. AllFine(r)
      BY <3>1, <2>2, <1>9, FineAdded DEF G
    <3> QED
      BY <3>2, <3>3, <2>2, <1>9 DEF G
  <2> QED
    BY <2>3, <1>4, <1>8, <1>9 DEF left
<1> QED
  BY <1>11, <1>12, <1>13

(* A section begins: the text before it becomes the last text, so only     *)
(* what is not in `content` may be lost, and what follows the end of code. *)
LEMMA SectionBegins ==
  ASSUME NEW kind \in SectionTypes, NEW c \in Text, NEW bs \in Blocks, bs # <<>>,
         Last(bs).type = "text", ~Last(bs).native, AllFine(Front(bs)),
         NEW i, i = Position(Opening(kind), c), i # 0,
         NEW r, r = BeginSection(kind, c, bs)
  PROVE  /\ r \in Blocks /\ r # <<>> /\ AllFine(r) /\ ~Last(r).native
         /\ Last(r).type \in {"text", kind}
         /\ Last(r).type = "text" => ToSet(Last(r).text) \subseteq ToSet(c)
         /\ Tokens(r) \subseteq Tokens(bs) \union ToSet(c)
         /\ \/ Tokens(Front(bs)) \union ToSet(c) \subseteq Tokens(r) \union {Opening(kind), Closing(kind)}
            \/ /\ Last(r).type = "code_interpreter" /\ kind = "code_interpreter"
               /\ Position(Closing(kind), From(c, i)) # 0
               /\ From(From(c, i), Position(Closing(kind), From(c, i))) # <<>>
<1> DEFINE F == Front(bs)
           L == Last(bs)
           before == UpTo(c, i)
           after == From(c, i)
           text == IF before # <<>> THEN before ELSE Without(<<Opening(kind)>> \o after, L.text)
           kept == IF text = <<>> THEN F ELSE Append(F, [L EXCEPT !.text = text])
           begun == Append(kept, Block(kind, after))
           j == Position(Closing(kind), after)
<1>1. F \in Blocks /\ L \in ABlock /\ bs = Append(F, L) /\ \A b : WithLast(bs, b) = Append(F, b)
  BY Split
<1>2. L.text \in Text
  BY <1>1 DEF ABlock
<1>3. i \in 1 .. Len(c) /\ c[i] = Opening(kind)
  BY PositionFinds DEF Text
<1>4. before \in Text /\ after \in Text
      /\ ToSet(c) = ToSet(before) \union {Opening(kind)} \union ToSet(after)
  BY <1>3, Cut
<1>5. text \in Text /\ ToSet(text) \subseteq ToSet(L.text) \union ToSet(c)
      /\ ToSet(before) \subseteq ToSet(text)
  <2>1. CASE before # <<>>
    BY <2>1, <1>4
  <2>2. CASE before = <<>>
    <3>1. <<Opening(kind)>> \in Text
      BY DEF Text, Token, Tags
    <3>2. <<Opening(kind)>> \o after \in Text
      BY <3>1, <1>4, Joined
    <3>3. Without(<<Opening(kind)>> \o after, L.text) \in Text
          /\ ToSet(Without(<<Opening(kind)>> \o after, L.text)) \subseteq ToSet(L.text)
      BY <3>2, <1>2, WithoutKeeps
    <3>4. ToSet(before) = {}
      BY <2>2 DEF ToSet
    <3> QED
      BY <3>3, <3>4, <2>2
  <2> QED
    BY <2>1, <2>2
<1>6. r = IF j # 0 THEN EndSection(kind, begun) ELSE begun
  BY <1>1 DEF BeginSection
<1>7. Tokens(bs) = Tokens(F) \union ToSet(L.text)
  <2>1. Tokens(Append(F, L)) = Tokens(F) \union ToSet(L.text)
    BY <1>1, Added
  <2> QED
    BY <2>1, <1>1
<1>8. /\ Block(kind, after) \in ABlock /\ Block(kind, after).type = kind
      /\ Block(kind, after).text = after /\ ~Block(kind, after).native
  BY <1>4, NewBlocks
<1>9. AllFine(F)
  OBVIOUS
<1> HIDE DEF F, before, after, text, j
<1>10. kept \in Blocks /\ Tokens(kept) = Tokens(F) \union ToSet(text) /\ AllFine(kept)
  <2>1. CASE text = <<>>
    <3>1. ToSet(text) = {}
      BY <2>1 DEF ToSet
    <3> QED
      BY <2>1, <3>1, <1>1, <1>9
  <2>2. CASE text # <<>>
    <3> DEFINE b == [L EXCEPT !.text = text]
    <3>1. b \in ABlock /\ b.text = text /\ Fine(b)
      BY <1>1, <1>5 DEF ABlock, Fine, SectionTypes
    <3>2. kept = Append(F, b)
      BY <2>2
    <3> HIDE DEF b, kept
    <3> QED
      BY <3>1, <3>2, <1>1, <1>9, Added, FineAdded
  <2> QED
    BY <2>1, <2>2
<1> HIDE DEF kept
<1>11. /\ begun \in Blocks /\ begun # <<>> /\ Last(begun) = Block(kind, after) /\ Front(begun) = kept
       /\ Tokens(begun) = Tokens(F) \union ToSet(text) \union ToSet(after)
  BY <1>8, <1>10, Added
<1> HIDE DEF begun
<1>12. Tokens(begun) \subseteq Tokens(bs) \union ToSet(c)
  BY <1>4, <1>5, <1>7, <1>11
<1>13. Tokens(F) \union ToSet(c) \subseteq Tokens(begun) \union {Opening(kind)}
  BY <1>4, <1>5, <1>11
<1>14. ToSet(after) \subseteq ToSet(c)
  BY <1>4
<1>15. CASE j = 0
  <2>1. r = begun
    BY <1>6, <1>15
  <2>2. Closing(kind) \notin ToSet(after)
    <3>1. \A n \in 1 .. Len(after) : after[n] # Closing(kind)
      BY <1>4, <1>15, PositionFinds DEF Text, j
    <3> QED
      BY <3>1, <1>4 DEF ToSet, Text
  <2>3. Fine(Block(kind, after))
    BY <1>8, <2>2 DEF Fine, SectionTypes
  <2>4. AllFine(begun)
    BY <2>3, <1>8, <1>10, FineAdded DEF begun
  <2>5. kind # "text"
    BY DEF SectionTypes
  <2> QED
    BY <2>1, <2>4, <2>5, <1>8, <1>11, <1>12, <1>13 DEF F
<1>16. CASE j # 0
  <2>1. r = EndSection(kind, begun)
    BY <1>6, <1>16
  <2>2. /\ Last(begun).type = kind /\ ~Last(begun).native /\ AllFine(Front(begun))
        /\ Last(begun).text = after
    BY <1>8, <1>10, <1>11
  <2>3. j = Position(Closing(kind), Last(begun).text)
    BY <2>2 DEF j
  <2>4. /\ r \in Blocks /\ r # <<>> /\ AllFine(r) /\ ~Last(r).native
        /\ \/ Last(r).type = "text" /\ Last(r).text = IF j = 0 THEN <<>> ELSE From(Last(begun).text, j)
           \/ Last(r).type = kind /\ kind = "code_interpreter"
        /\ Tokens(r) \subseteq Tokens(begun)
        /\ \/ Tokens(begun) \subseteq Tokens(r) \union {Closing(kind)}
           \/ /\ Last(r).type = "code_interpreter" /\ kind = "code_interpreter"
              /\ j # 0 /\ From(Last(begun).text, j) # <<>>
    BY <1>11, <2>1, <2>2, <2>3, SectionEnds
  <2>5. j \in 1 .. Len(after)
    BY <1>4, <1>16, PositionFinds DEF Text, j
  <2>6. ToSet(From(after, j)) \subseteq ToSet(after)
    BY <1>4, <2>5, Cut
  <2>7. Last(r).type = "text" => ToSet(Last(r).text) \subseteq ToSet(c)
    <3>1. "text" # "code_interpreter"
      OBVIOUS
    <3> QED
      BY <3>1, <2>2, <2>4, <2>6, <1>14, <1>16
  <2>8. \/ Tokens(F) \union ToSet(c) \subseteq Tokens(r) \union {Opening(kind), Closing(kind)}
        \/ /\ Last(r).type = "code_interpreter" /\ kind = "code_interpreter"
           /\ j # 0 /\ From(after, j) # <<>>
    BY <2>2, <2>4, <1>13
  <2> QED
    BY <2>4, <2>7, <2>8, <1>12 DEF F, after, j
<1> QED
  BY <1>15, <1>16

LEMMA SectionsRemoved ==
  ASSUME NEW kind, NEW c \in Text
  PROVE  /\ WithoutSections(kind, c) \in Text
         /\ \E f : Places(f, WithoutSections(kind, c), c, {i \in DOMAIN c : ~InSection(kind, c, i)}, Len(c))
         /\ ToSet(WithoutSections(kind, c)) = {c[i] : i \in {j \in DOMAIN c : ~InSection(kind, c, j)}}
<1> DEFINE S == {i \in DOMAIN c : ~InSection(kind, c, i)}
<1>1. WithoutSections(kind, c) = Kept(c, S)
  BY DEF WithoutSections
<1>2. Kept(c, S) \in Text /\ \E f : Places(f, Kept(c, S), c, S, Len(c))
  BY KeptPlaces DEF Text
<1>3. ToSet(Kept(c, S)) = {c[i] : i \in {j \in DOMAIN c : j \in S}}
  BY KeptSet DEF Text
<1>4. {j \in DOMAIN c : j \in S} = {j \in DOMAIN c : ~InSection(kind, c, j)}
  OBVIOUS
<1> QED
  BY <1>1, <1>2, <1>3, <1>4

-----------------------------------------------------------------------------
(* The text of one delta: each kind of tag is looked for in turn.          *)

Handling ==
  {st \in [content : Text, blocks : Blocks, end : BOOLEAN] :
     st.blocks # <<>> /\ AllFine(Front(st.blocks)) /\ ~Last(st.blocks).native
     /\ Last(st.blocks).type # "tool_calls"}

Begins(kind, st) == Last(st.blocks).type = "text" /\ Position(Opening(kind), st.content) # 0
Ends(kind, st) == Last(st.blocks).type = kind /\ Position(Closing(kind), st.content) # 0

LEMMA TagHandled ==
  ASSUME NEW kind \in SectionTypes, NEW st
  PROVE  /\ Begins(kind, st) =>
               HandleTag(kind, st) = [st EXCEPT !.blocks = BeginSection(kind, st.content, st.blocks)]
         /\ Ends(kind, st) =>
               HandleTag(kind, st) = [content |-> WithoutSections(kind, st.content),
                                      blocks |-> EndSection(kind, st.blocks),
                                      end |-> kind = "code_interpreter"]
         /\ ~Begins(kind, st) /\ ~Ends(kind, st) => HandleTag(kind, st) = st
BY DEF HandleTag, Begins, Ends, SectionTypes

LEMMA FrontFine ==
  ASSUME NEW bs \in Blocks, bs # <<>>, AllFine(bs)
  PROVE  AllFine(Front(bs)) /\ Fine(Last(bs))
BY Split, FineAdded

LEMMA StaysHandling ==
  ASSUME NEW kind \in SectionTypes, NEW st \in Handling
  PROVE  HandleTag(kind, st) \in Handling
<1> DEFINE c == st.content
           bs == st.blocks
           h == HandleTag(kind, st)
<1>1. /\ c \in Text /\ bs \in Blocks /\ st.end \in BOOLEAN /\ bs # <<>>
      /\ AllFine(Front(bs)) /\ ~Last(bs).native /\ Last(bs).type # "tool_calls"
      /\ st = [content |-> c, blocks |-> bs, end |-> st.end]
  BY DEF Handling
<1>0. kind # "text" /\ kind # "tool_calls"
  BY DEF SectionTypes
<1>2. CASE Begins(kind, st)
  <2> DEFINE r == BeginSection(kind, c, bs)
  <2>1. h = [content |-> c, blocks |-> r, end |-> st.end]
    BY <1>1, <1>2, TagHandled
  <2>2. r \in Blocks /\ r # <<>> /\ AllFine(r) /\ ~Last(r).native /\ Last(r).type \in {"text", kind}
    BY <1>1, <1>2, SectionBegins DEF Begins
  <2>3. AllFine(Front(r))
    BY <2>2, FrontFine
  <2> HIDE DEF r, c
  <2> QED
    BY <1>0, <1>1, <2>1, <2>2, <2>3 DEF Handling
<1>3. CASE Ends(kind, st)
  <2> DEFINE r == EndSection(kind, bs)
  <2>1. h = [content |-> WithoutSections(kind, c), blocks |-> r, end |-> kind = "code_interpreter"]
    BY <1>3, TagHandled
  <2>2. r \in Blocks /\ r # <<>> /\ AllFine(r) /\ ~Last(r).native /\ Last(r).type \in {"text", kind}
    BY <1>1, <1>3, SectionEnds DEF Ends
  <2>3. AllFine(Front(r))
    BY <2>2, FrontFine
  <2>4. WithoutSections(kind, c) \in Text
    BY <1>1, SectionsRemoved
  <2> HIDE DEF r
  <2> QED
    BY <1>0, <2>1, <2>2, <2>3, <2>4 DEF Handling
<1>4. CASE ~Begins(kind, st) /\ ~Ends(kind, st)
  BY <1>4, TagHandled
<1> QED
  BY <1>2, <1>3, <1>4

LEMMA HandledStep ==
  ASSUME NEW kinds \in Seq(SectionTypes), NEW st \in Handling
  PROVE  /\ HandledUpTo(kinds, st) \in [0 .. Len(kinds) -> Handling]
         /\ HandledUpTo(kinds, st)[0] = st
         /\ \A n \in 1 .. Len(kinds) :
              HandledUpTo(kinds, st)[n] = HandleTag(kinds[n], HandledUpTo(kinds, st)[n - 1])
<1> DEFINE Eq(f) == [n \in 0 .. Len(kinds) |-> IF n = 0 THEN st ELSE HandleTag(kinds[n], f[n - 1])]
           step == [n \in 1 .. Len(kinds) |-> [x \in Handling |-> HandleTag(kinds[n], x)]]
<1>0. Len(kinds) \in Nat /\ \A n \in 1 .. Len(kinds) : kinds[n] \in SectionTypes
  OBVIOUS
<1>1. step \in [1 .. Len(kinds) -> [Handling -> Handling]]
  BY <1>0, StaysHandling
<1>2. \A n \in 1 .. Len(kinds), x \in Handling : step[n][x] = HandleTag(kinds[n], x)
  OBVIOUS
<1> HIDE DEF step
<1>3. PICK g \in [0 .. Len(kinds) -> Handling] : Computed(g, st, step, Len(kinds))
  BY <1>0, <1>1, Computes
<1>4. g = Eq(g)
  <2>1. g[0] = st
    BY <1>3 DEF Computed
  <2>2. \A n \in 1 .. Len(kinds) : g[n - 1] \in Handling
    BY <1>0
  <2>3. \A n \in 1 .. Len(kinds) : g[n] = step[n][g[n - 1]]
    BY <1>3 DEF Computed
  <2>4. \A n \in 1 .. Len(kinds) : g[n] = HandleTag(kinds[n], g[n - 1])
    BY <1>2, <2>2, <2>3
  <2> QED
    BY <1>0, <2>1, <2>4
<1>5. HandledUpTo(kinds, st) = CHOOSE f : f = Eq(f)
  BY DEF HandledUpTo
<1>6. HandledUpTo(kinds, st) = Eq(HandledUpTo(kinds, st))
  <2> HIDE DEF Eq
  <2> QED
    BY <1>4, <1>5
<1> DEFINE f == HandledUpTo(kinds, st)
<1> HIDE DEF f
<1>7. f = Eq(f)
  BY <1>6 DEF f
<1>8. \A n \in 0 .. Len(kinds) : f[n] = IF n = 0 THEN st ELSE HandleTag(kinds[n], f[n - 1])
  BY <1>7
<1>9. 0 \in 0 .. Len(kinds) /\ \A n \in 1 .. Len(kinds) : n \in 0 .. Len(kinds) /\ n # 0
  BY <1>0
<1>10. f[0] = st
  BY <1>8, <1>9
<1>11. \A n \in 1 .. Len(kinds) : f[n] = HandleTag(kinds[n], f[n - 1])
  BY <1>8, <1>9
<1>12. \A n \in 0 .. Len(kinds) : f[n] \in Handling
  <2> DEFINE P == {n \in 0 .. Len(kinds) : f[n] \in Handling}
  <2>1. 0 \in P
    BY <1>0, <1>10
  <2>2. ASSUME NEW n \in 1 .. Len(kinds), n - 1 \in P
        PROVE  n \in P
    <3>1. f[n - 1] \in Handling /\ f[n] = HandleTag(kinds[n], f[n - 1]) /\ kinds[n] \in SectionTypes
      BY <2>2, <1>0, <1>11
    <3>2. f[n] \in Handling
      BY <3>1, StaysHandling
    <3> QED
      BY <3>2, <1>0
  <2>3. 0 .. Len(kinds) \subseteq P
    <3> HIDE DEF P
    <3> QED
      BY <2>1, <2>2, <1>0, Climb
  <2> QED
    BY <2>3
<1>13. f \in [0 .. Len(kinds) -> Handling]
  BY <1>7, <1>12
<1> QED
  BY <1>10, <1>11, <1>13 DEF f

(* The last text is in `content`, so that a section that begins does not   *)
(* lose it; a section that is open is of a kind looked for.                *)
LastInContent(bs, c) == Last(bs).type = "text" => Pieces(ToSet(Last(bs).text)) \subseteq ToSet(c)
KnownLast(bs) ==
  Last(bs).type \in SectionTypes /\ ~Last(bs).native => Contains(Kinds, Last(bs).type)

LEMMA NativeEnds ==
  ASSUME NEW bs \in Blocks, bs # <<>>, AllFine(bs), Last(bs).type # "tool_calls",
         NEW r, r = NativeEnded(bs)
  PROVE  /\ r \in Blocks /\ r # <<>> /\ AllFine(r) /\ Last(r).type # "tool_calls" /\ ~Last(r).native
         /\ Tokens(r) = Tokens(bs)
         /\ KnownLast(bs) => KnownLast(r)
         /\ \A c : LastInContent(bs, c) => LastInContent(r, c)
         /\ Last(r).type = "code_interpreter" <=> Last(bs).type = "code_interpreter"
<1> DEFINE F == Front(bs)
           L == Last(bs)
           b == [L EXCEPT !.done = TRUE]
<1>1. F \in Blocks /\ L \in ABlock /\ bs = Append(F, L) /\ WithLast(bs, b) = Append(F, b)
  BY Split
<1>2. AllFine(F) /\ Fine(L)
  BY FrontFine
<1>3. CASE L.type = "reasoning" /\ L.native
  <2>1. b \in ABlock /\ b.text = L.text /\ Fine(b)
    BY <1>1, <1>2 DEF ABlock, Fine, SectionTypes
  <2>2. r = Append(Append(F, b), TextBlock(<<>>))
    BY <1>1, <1>3 DEF NativeEnded
  <2> HIDE DEF b
  <2>3. Append(F, b) \in Blocks /\ AllFine(Append(F, b)) /\ Tokens(Append(F, b)) = Tokens(F) \union ToSet(L.text)
    BY <2>1, <1>1, <1>2, Added, FineAdded
  <2>4. Tokens(bs) = Tokens(F) \union ToSet(L.text)
    <3>1. Tokens(Append(F, L)) = Tokens(F) \union ToSet(L.text)
      BY <1>1, Added
    <3> QED
      BY <3>1, <1>1
  <2>5. /\ TextBlock(<<>>) \in ABlock /\ Fine(TextBlock(<<>>)) /\ TextBlock(<<>>).type = "text"
        /\ TextBlock(<<>>).text = <<>> /\ ~TextBlock(<<>>).native
    BY NewBlocks, EmptySeq DEF Text
  <2>6. ToSet(<<>>) = {}
    BY DEF ToSet
  <2> DEFINE G == Append(F, b)
  <2> HIDE DEF G
  <2>7. G \in Blocks /\ AllFine(G) /\ Tokens(G) = Tokens(bs) /\ r = Append(G, TextBlock(<<>>))
    BY <2>2, <2>3, <2>4 DEF G
  <2>8. r \in Blocks /\ r # <<>> /\ AllFine(r) /\ Last(r) = TextBlock(<<>>)
        /\ Tokens(r) = Tokens(G) \union ToSet(TextBlock(<<>>).text)
    BY <2>5, <2>7, Added, FineAdded
  <2>9. KnownLast(r) /\ \A c : LastInContent(r, c)
    BY <2>5, <2>6, <2>8 DEF KnownLast, LastInContent, SectionTypes, Pieces
  <2>10. Last(r).type = "text"
    BY <2>5, <2>8
  <2> QED
    BY <2>5, <2>6, <2>7, <2>8, <2>9, <2>10, <1>3
<1>4. CASE ~(L.type = "reasoning" /\ L.native)
  <2>1. r = bs
    BY <1>4 DEF NativeEnded
  <2>2. L.native = FALSE
    BY <1>1, <1>2, <1>4 DEF Fine, ABlock
  <2> QED
    BY <2>1, <2>2
<1> QED
  BY <1>3, <1>4

LEMMA TextReceived ==
  ASSUME NEW bs \in Blocks, bs # <<>>, AllFine(bs), Last(bs).type # "tool_calls",
         NEW c \in Text, NEW v \in Text, NEW st, st = Received(v, c, bs)
  PROVE  /\ st \in Handling /\ st.content = c \o v
         /\ Tokens(st.blocks) = Tokens(bs) \union ToSet(v)
         /\ Fine(Last(NativeEnded(bs)))
         /\ Last(NativeEnded(bs)).text \in Text
         /\ Last(st.blocks).type = Last(NativeEnded(bs)).type
         /\ Last(st.blocks).text = Last(NativeEnded(bs)).text \o v
         /\ KnownLast(bs) => KnownLast(st.blocks)
         /\ LastInContent(bs, c) => LastInContent(st.blocks, st.content)
         /\ Last(st.blocks).type = "code_interpreter" <=> Last(bs).type = "code_interpreter"
<1> DEFINE n == NativeEnded(bs)
           F == Front(n)
           L == Last(n)
           b == [L EXCEPT !.text = @ \o v]
<1>1. /\ n \in Blocks /\ n # <<>> /\ AllFine(n) /\ Last(n).type # "tool_calls" /\ ~Last(n).native
      /\ Tokens(n) = Tokens(bs)
      /\ KnownLast(bs) => KnownLast(n)
      /\ LastInContent(bs, c) => LastInContent(n, c)
      /\ Last(n).type = "code_interpreter" <=> Last(bs).type = "code_interpreter"
  BY NativeEnds
<1> HIDE DEF n
<1>2. F \in Blocks /\ L \in ABlock /\ n = Append(F, L) /\ WithLast(n, b) = Append(F, b)
  BY <1>1, Split
<1>3. AllFine(F) /\ Fine(L)
  BY <1>1, FrontFine
<1>4. st = [content |-> c \o v, blocks |-> Append(F, b), end |-> FALSE]
  BY <1>2 DEF Received, n
<1>5. c \o v \in Text /\ ToSet(c \o v) = ToSet(c) \union ToSet(v)
  BY Joined
<1>6. L.text \in Text
  BY <1>2 DEF ABlock
<1>7. L.text \o v \in Text /\ ToSet(L.text \o v) = ToSet(L.text) \union ToSet(v)
  BY <1>6, Joined
<1>8. b \in ABlock /\ b.type = L.type /\ b.native = L.native /\ b.text = L.text \o v
  BY <1>2, <1>7 DEF ABlock
<1> HIDE DEF b
<1>9. /\ Append(F, b) \in Blocks /\ Append(F, b) # <<>> /\ Last(Append(F, b)) = b /\ Front(Append(F, b)) = F
      /\ Tokens(Append(F, b)) = Tokens(F) \union ToSet(b.text)
  BY <1>2, <1>8, Added
<1>10. Tokens(n) = Tokens(F) \union ToSet(L.text)
  <2>1. Tokens(Append(F, L)) = Tokens(F) \union ToSet(L.text)
    BY <1>2, Added
  <2> QED
    BY <2>1, <1>2
<1> HIDE DEF F
<1>11. /\ st \in Handling /\ st.content = c \o v /\ st.blocks = Append(F, b)
  <2> DEFINE a == Append(F, b)
  <2>1. ~Last(a).native /\ Last(a).type # "tool_calls" /\ AllFine(Front(a)) /\ a \in Blocks /\ a # <<>>
    BY <1>1, <1>3, <1>8, <1>9
  <2> HIDE DEF a
  <2>2. [content |-> c \o v, blocks |-> a, end |-> FALSE] \in Handling
    BY <1>5, <2>1 DEF Handling
  <2> QED
    BY <1>4, <2>2 DEF a
<1>12. Tokens(st.blocks) = Tokens(bs) \union ToSet(v)
  BY <1>1, <1>7, <1>8, <1>9, <1>10, <1>11
<1>13. KnownLast(n) => KnownLast(st.blocks)
  BY <1>8, <1>9, <1>11 DEF KnownLast
<1>14. LastInContent(n, c) => LastInContent(st.blocks, st.content)
  BY <1>5, <1>7, <1>8, <1>9, <1>11 DEF LastInContent, Pieces
<1> QED
  BY <1>1, <1>3, <1>6, <1>8, <1>9, <1>11, <1>12, <1>13, <1>14 DEF n

LEMMA TextDiffers == "text" \notin SectionTypes /\ "text" # "code_interpreter"
BY DEF SectionTypes

(* The tokens of k are tokens of s, in the same order.                     *)
Order(g, k, s) ==
  /\ g \in [1 .. Len(k) -> 1 .. Len(s)]
  /\ \A i, j \in 1 .. Len(k) : i < j => g[i] < g[j]
  /\ \A i \in 1 .. Len(k) : k[i] = s[g[i]]

(* Code of an earlier delta, whose content was c, becomes a block.         *)
CodeWasThere(c, old, bs) ==
  /\ Contains(c, Opening("code_interpreter"))
  /\ Last(old).type # "code_interpreter" /\ Last(bs).type = "code_interpreter"

(* What is so of st, which the first kinds have made of the delta v, added *)
(* to content c and blocks old: either they had nothing to do,             *)
Untouched(n, received, st) ==
  st = received /\ \A m \in 1 .. n : ~Begins(Kinds[m], received) /\ ~Ends(Kinds[m], received)

(* or one has, and from then on sections may begin but not end.            *)
Orderly(c, old, v, st) ==
  /\ Tokens(st.blocks) \union ToSet(st.content) \subseteq Tokens(old) \union ToSet(c) \union ToSet(v)
  /\ \E g : Order(g, st.content, c \o v)
NothingLost(c, old, v, st) ==
  NothingBegins(v) /\ LastInContent(old, c) =>
    /\ LastInContent(st.blocks, st.content)
    /\ CodeWasThere(c, old, st.blocks) \/ Pieces(Tokens(old) \union ToSet(v)) \subseteq Tokens(st.blocks)
Touched(n, c, old, v, st) ==
  /\ AllFine(st.blocks) /\ KnownLast(st.blocks)
  /\ Last(st.blocks).type = "text" \/ \A m \in n + 1 .. Len(Kinds) : Kinds[m] # Last(st.blocks).type
  /\ Last(old).type = "code_interpreter" =>
       \A m \in n + 1 .. Len(Kinds) : Kinds[m] # "code_interpreter"
  /\ Orderly(c, old, v, st) /\ NothingLost(c, old, v, st)

LEMMA KindsDiffer ==
  ASSUME NEW n \in 1 .. Len(Kinds)
  PROVE  /\ Kinds[n] \in SectionTypes /\ Contains(Kinds, Kinds[n])
         /\ \A m \in n + 1 .. Len(Kinds) : m \in 1 .. Len(Kinds) /\ Kinds[m] # Kinds[n]
<1>1. DOMAIN Kinds = 1 .. Len(Kinds) /\ Len(Kinds) \in Nat /\ Kinds \in Seq(SectionTypes)
  BY TextAssumption
<1>2. Kinds[n] \in SectionTypes
  BY <1>1
<1>3. \A m \in n + 1 .. Len(Kinds) : m \in 1 .. Len(Kinds) /\ m # n
  BY <1>1
<1> QED
  BY <1>1, <1>2, <1>3, TextAssumption DEF Contains

LEMMA TagsAreNoPieces ==
  ASSUME NEW k, NEW S, NEW T, S \subseteq T \union {Opening(k), Closing(k)}
  PROVE  Pieces(S) \subseteq T
BY TagsDiffer DEF Pieces

(* Nothing follows the end of code in a delta.                             *)
LEMMA CodeBegins ==
  ASSUME NEW c \in Text, NEW v \in Text, NothingBegins(v),
         ~Contains(c, Opening("code_interpreter")),
         NEW k \in Text, NEW g, Order(g, k, c \o v),
         NEW i, i = Position(Opening("code_interpreter"), k), i # 0,
         NEW j, j = Position(Closing("code_interpreter"), From(k, i)), j # 0
  PROVE  From(From(k, i), j) = <<>>
<1> DEFINE a == From(k, i)
           s == c \o v
<1>0. Len(k) \in Nat /\ Len(c) \in Nat /\ Len(v) \in Nat
  BY DEF Text
<1>1. i \in 1 .. Len(k) /\ k[i] = Opening("code_interpreter")
  BY PositionFinds DEF Text
<1>2. a \in Text /\ Len(a) = Len(k) - i /\ \A m \in 1 .. Len(k) - i : a[m] = k[i + m]
  BY <1>1, Cut
<1> HIDE DEF a
<1>3. j \in 1 .. Len(a) /\ a[j] = Closing("code_interpreter")
  BY <1>2, PositionFinds DEF Text, a
<1>4. From(a, j) \in Text /\ Len(From(a, j)) = Len(a) - j
  BY <1>2, <1>3, Cut
<1>5. j = Len(a)
  <2> SUFFICES ASSUME j # Len(a)
               PROVE  FALSE
    OBVIOUS
  <2>a. Len(k) \in Nat /\ i \in 1 .. Len(k) /\ Len(a) = Len(k) - i /\ j \in 1 .. Len(a)
    BY <1>0, <1>1, <1>2, <1>3 DEF Text
  <2>1. i + j \in 1 .. Len(k) /\ i + j + 1 \in 1 .. Len(k) /\ i < i + j /\ i + j < i + j + 1
    BY <2>a
  <2>2. k[i + j] = Closing("code_interpreter")
    BY <1>2, <1>3
  <2>3. /\ s \in Text /\ Len(s) = Len(c) + Len(v)
        /\ \A m \in 1 .. Len(c) : s[m] = c[m]
        /\ \A m \in 1 .. Len(v) : s[Len(c) + m] = v[m]
    BY Joined
  <2> HIDE DEF s
  <2> DEFINE p == g[i]
             q == g[i + j]
             r == g[i + j + 1]
  <2>4. p \in 1 .. Len(s) /\ q \in 1 .. Len(s) /\ r \in 1 .. Len(s) /\ p < q /\ q < r
    BY <2>1, <1>1 DEF Order, s
  <2>5. s[p] = Opening("code_interpreter") /\ s[q] = Closing("code_interpreter")
    BY <2>1, <2>2, <1>1 DEF Order, s
  <2> HIDE DEF p, q, r
  <2>6. p > Len(c)
    <3>1. \A m \in 1 .. Len(c) : c[m] # Opening("code_interpreter")
      BY DEF Contains
    <3> QED
      BY <3>1, <2>3, <2>4, <2>5, <1>0
  <2>7. /\ q - Len(c) \in 1 .. Len(v) /\ r - Len(c) \in 1 .. Len(v) /\ q - Len(c) < r - Len(c)
        /\ Len(c) + (q - Len(c)) = q
    BY <2>3, <2>4, <2>6, <1>0
  <2>8. v[q - Len(c)] = Closing("code_interpreter")
    BY <2>3, <2>5, <2>7
  <2>9. DOMAIN v = 1 .. Len(v)
    BY DEF Text
  <2> QED
    BY <2>7, <2>8, <2>9 DEF NothingBegins
<1> QED
  <2>1. Len(From(a, j)) = 0
    BY <1>2, <1>4, <1>5, <1>0
  <2> QED
    BY <2>1, <1>4 DEF a, Text

(* A kind of tag that begins a section.                                    *)
LEMMA BeginsTouched ==
  ASSUME NEW n \in 1 .. Len(Kinds), NEW st \in Handling, Begins(Kinds[n], st),
         NEW c \in Text, NEW old \in Blocks, NEW v \in Text,
         Last(old).type = "code_interpreter" =>
           \A m \in n .. Len(Kinds) : Kinds[m] # "code_interpreter",
         Orderly(c, old, v, st), NothingLost(c, old, v, st)
  PROVE  Touched(n, c, old, v, HandleTag(Kinds[n], st))
<1> DEFINE kind == Kinds[n]
           k == st.content
           bs == st.blocks
           i == Position(Opening(kind), k)
           r == BeginSection(kind, k, bs)
           h == HandleTag(kind, st)
<1>0. /\ kind \in SectionTypes /\ Contains(Kinds, kind)
      /\ \A m \in n + 1 .. Len(Kinds) : m \in 1 .. Len(Kinds) /\ Kinds[m] # kind
  BY KindsDiffer
<1>a. Len(Kinds) \in Nat
  BY TextAssumption
<1>1. /\ k \in Text /\ bs \in Blocks /\ bs # <<>> /\ AllFine(Front(bs)) /\ ~Last(bs).native
      /\ st = [content |-> k, blocks |-> bs, end |-> st.end]
  BY DEF Handling
<1>2. Last(bs).type = "text" /\ i # 0
  BY DEF Begins
<1>3. h = [st EXCEPT !.blocks = r]
  BY <1>0, TagHandled
<1>4. h.content = k /\ h.blocks = r
  BY <1>1, <1>3
<1> HIDE DEF h, kind
<1>5. /\ r \in Blocks /\ r # <<>> /\ AllFine(r) /\ ~Last(r).native
      /\ Last(r).type \in {"text", kind}
      /\ Last(r).type = "text" => ToSet(Last(r).text) \subseteq ToSet(k)
      /\ Tokens(r) \subseteq Tokens(bs) \union ToSet(k)
      /\ \/ Tokens(Front(bs)) \union ToSet(k) \subseteq Tokens(r) \union {Opening(kind), Closing(kind)}
         \/ /\ Last(r).type = "code_interpreter" /\ kind = "code_interpreter"
            /\ Position(Closing(kind), From(k, i)) # 0
            /\ From(From(k, i), Position(Closing(kind), From(k, i))) # <<>>
  BY <1>0, <1>1, <1>2, SectionBegins
<1> HIDE DEF r, k, bs, i
<1>6. AllFine(h.blocks) /\ KnownLast(h.blocks)
  BY <1>0, <1>4, <1>5, TextDiffers DEF KnownLast
<1>7. Last(h.blocks).type = "text" \/ \A m \in n + 1 .. Len(Kinds) : Kinds[m] # Last(h.blocks).type
  BY <1>0, <1>4, <1>5
<1>8. Last(old).type = "code_interpreter" => \A m \in n + 1 .. Len(Kinds) : Kinds[m] # "code_interpreter"
  <2>1. n + 1 .. Len(Kinds) \subseteq n .. Len(Kinds)
    BY <1>a
  <2> QED
    BY <2>1
<1>9. Orderly(c, old, v, h)
  BY <1>4, <1>5 DEF Orderly, k, bs
<1>10. ASSUME NothingBegins(v), LastInContent(old, c)
       PROVE  /\ LastInContent(h.blocks, h.content)
              /\ CodeWasThere(c, old, h.blocks) \/ Pieces(Tokens(old) \union ToSet(v)) \subseteq Tokens(h.blocks)
  <2>1. /\ LastInContent(bs, k)
        /\ CodeWasThere(c, old, bs) \/ Pieces(Tokens(old) \union ToSet(v)) \subseteq Tokens(bs)
    BY <1>10 DEF NothingLost, bs, k
  <2>2. Pieces(Tokens(old) \union ToSet(v)) \subseteq Tokens(bs)
    BY <2>1, <1>2, TextDiffers DEF CodeWasThere
  <2>3. Tokens(bs) = Tokens(Front(bs)) \union ToSet(Last(bs).text)
    <3>1. Front(bs) \in Blocks /\ Last(bs) \in ABlock /\ bs = Append(Front(bs), Last(bs))
      BY <1>1, Split
    <3>2. Tokens(Append(Front(bs), Last(bs))) = Tokens(Front(bs)) \union ToSet(Last(bs).text)
      BY <3>1, Added
    <3> QED
      BY <3>1, <3>2
  <2>4. Pieces(Tokens(old) \union ToSet(v)) \subseteq Pieces(Tokens(Front(bs)) \union ToSet(k))
    BY <2>1, <2>2, <2>3, <1>2 DEF Pieces, LastInContent
  <2>5. LastInContent(h.blocks, h.content)
    BY <1>4, <1>5 DEF LastInContent, Pieces
  <2>6. CASE Tokens(Front(bs)) \union ToSet(k) \subseteq Tokens(r) \union {Opening(kind), Closing(kind)}
    <3>1. Pieces(Tokens(Front(bs)) \union ToSet(k)) \subseteq Tokens(r)
      BY <2>6, TagsAreNoPieces
    <3> QED
      BY <3>1, <2>4, <2>5, <1>4
  <2>7. CASE /\ Last(r).type = "code_interpreter" /\ kind = "code_interpreter"
             /\ Position(Closing(kind), From(k, i)) # 0
             /\ From(From(k, i), Position(Closing(kind), From(k, i))) # <<>>
    <3>1. Last(old).type # "code_interpreter"
      <4>1. n \in n .. Len(Kinds)
        BY <1>a
      <4> QED
        BY <4>1, <2>7 DEF kind
    <3>2. CASE Contains(c, Opening("code_interpreter"))
      BY <3>1, <3>2, <2>5, <2>7, <1>4 DEF CodeWasThere
    <3>3. CASE ~Contains(c, Opening("code_interpreter"))
      <4>1. PICK g : Order(g, k, c \o v)
        BY DEF Orderly, k
      <4>2. i = Position(Opening("code_interpreter"), k)
        BY <2>7 DEF i
      <4>3. From(From(k, i), Position(Closing("code_interpreter"), From(k, i))) = <<>>
        BY <4>1, <4>2, <3>3, <2>7, <1>1, <1>2, <1>10, CodeBegins
      <4> QED
        BY <4>3, <2>7
    <3> QED
      BY <3>2, <3>3
  <2> QED
    BY <2>6, <2>7, <1>5
<1>11. NothingLost(c, old, v, h)
  BY <1>10 DEF NothingLost
<1> QED
  BY <1>6, <1>7, <1>8, <1>9, <1>11 DEF Touched, h, kind

(* A kind of tag that ends a section; the blocks are those of the delta.   *)
LEMMA EndsTouched ==
  ASSUME NEW n \in 1 .. Len(Kinds), NEW c \in Text, NEW v \in Text,
         NEW old \in Blocks, old # <<>>, AllFine(old), Last(old).type # "tool_calls",
         NEW st, st = Received(v, c, old), Ends(Kinds[n], st)
  PROVE  Touched(n, c, old, v, HandleTag(Kinds[n], st))
<1> DEFINE kind == Kinds[n]
           s == c \o v
           t == Last(NativeEnded(old)).text
           bs == st.blocks
           i == Position(Closing(kind), Last(bs).text)
           r == EndSection(kind, bs)
           k == WithoutSections(kind, s)
           h == HandleTag(kind, st)
<1>0. /\ kind \in SectionTypes /\ Contains(Kinds, kind)
      /\ \A m \in n + 1 .. Len(Kinds) : m \in 1 .. Len(Kinds) /\ Kinds[m] # kind
  BY KindsDiffer
<1>1. /\ st \in Handling /\ st.content = s
      /\ Tokens(bs) = Tokens(old) \union ToSet(v)
      /\ Fine(Last(NativeEnded(old))) /\ t \in Text
      /\ Last(bs).type = Last(NativeEnded(old)).type
      /\ Last(bs).text = t \o v
      /\ LastInContent(old, c) => LastInContent(bs, s)
      /\ Last(bs).type = "code_interpreter" <=> Last(old).type = "code_interpreter"
  <2>a. /\ st \in Handling /\ st.content = c \o v
        /\ Tokens(st.blocks) = Tokens(old) \union ToSet(v)
    BY TextReceived, SMTT(20)
  <2>b. /\ Fine(Last(NativeEnded(old)))
        /\ Last(NativeEnded(old)).text \in Text
    BY TextReceived, SMTT(20)
  <2>c. /\ Last(st.blocks).type = Last(NativeEnded(old)).type
        /\ Last(st.blocks).text = Last(NativeEnded(old)).text \o v
    BY TextReceived, SMTT(20)
  <2>1. /\ st \in Handling /\ st.content = c \o v
        /\ Tokens(st.blocks) = Tokens(old) \union ToSet(v)
        /\ Fine(Last(NativeEnded(old)))
        /\ Last(NativeEnded(old)).text \in Text
        /\ Last(st.blocks).type = Last(NativeEnded(old)).type
        /\ Last(st.blocks).text = Last(NativeEnded(old)).text \o v
    BY <2>a, <2>b, <2>c
  <2>2. /\ LastInContent(old, c) => LastInContent(st.blocks, st.content)
        /\ Last(st.blocks).type = "code_interpreter" <=> Last(old).type = "code_interpreter"
    BY TextReceived, SMTT(20)
  <2>3. LastInContent(old, c) => LastInContent(st.blocks, c \o v)
    BY <2>1, <2>2
  <2> QED
    BY <2>1, <2>2, <2>3
<1>2. bs \in Blocks /\ bs # <<>> /\ AllFine(Front(bs)) /\ ~Last(bs).native
  BY <1>1 DEF Handling
<1>3. Last(bs).type = kind
  BY DEF Ends
<1>4. h = [content |-> k, blocks |-> r, end |-> kind = "code_interpreter"]
  <2> HIDE DEF kind
  <2>1. Ends(kind, st)
    BY DEF kind
  <2>2. h = [content |-> WithoutSections(kind, st.content), blocks |-> EndSection(kind, st.blocks),
             end |-> kind = "code_interpreter"]
    BY <1>0, <2>1, TagHandled
  <2> QED
    BY <2>2, <1>1
<1>5. h.content = k /\ h.blocks = r
  BY <1>4
<1>6. /\ r \in Blocks /\ r # <<>> /\ AllFine(r) /\ ~Last(r).native
      /\ \/ Last(r).type = "text" /\ Last(r).text = IF i = 0 THEN <<>> ELSE From(Last(bs).text, i)
         \/ Last(r).type = kind /\ kind = "code_interpreter"
      /\ Tokens(r) \subseteq Tokens(bs)
      /\ \/ Tokens(bs) \subseteq Tokens(r) \union {Closing(kind)}
         \/ /\ Last(r).type = "code_interpreter" /\ kind = "code_interpreter"
            /\ i # 0 /\ From(Last(bs).text, i) # <<>>
  BY <1>0, <1>2, <1>3, SectionEnds
<1>7. s \in Text /\ ToSet(s) = ToSet(c) \union ToSet(v) /\ Len(s) = Len(c) + Len(v)
      /\ \A j \in 1 .. Len(v) : s[Len(c) + j] = v[j]
  BY Joined
<1>8. /\ k \in Text
      /\ \E f : Places(f, k, s, {j \in DOMAIN s : ~InSection(kind, s, j)}, Len(s))
      /\ ToSet(k) = {s[j] : j \in {m \in DOMAIN s : ~InSection(kind, s, m)}}
  BY <1>7, SectionsRemoved
<1>9. i # 0 => \E p \in 1 .. Len(v) : /\ v[p] = Closing(kind)
                                      /\ From(Last(bs).text, i) \in Text
                                      /\ Len(From(Last(bs).text, i)) = Len(v) - p
                                      /\ \A q \in 1 .. Len(v) - p : From(Last(bs).text, i)[q] = v[p + q]
  <2> SUFFICES ASSUME i # 0
               PROVE  \E p \in 1 .. Len(v) : /\ v[p] = Closing(kind)
                                             /\ From(t \o v, i) \in Text
                                             /\ Len(From(t \o v, i)) = Len(v) - p
                                             /\ \A q \in 1 .. Len(v) - p : From(t \o v, i)[q] = v[p + q]
    BY <1>1
  <2>1. /\ t \o v \in Text /\ Len(t \o v) = Len(t) + Len(v)
        /\ \A j \in 1 .. Len(t) : (t \o v)[j] = t[j]
        /\ \A j \in 1 .. Len(v) : (t \o v)[Len(t) + j] = v[j]
    BY <1>1, Joined
  <2> DEFINE w == t \o v
  <2>2. i = Position(Closing(kind), w)
    BY <1>1
  <2> HIDE DEF w, i
  <2>3. i \in 1 .. Len(w) /\ w[i] = Closing(kind)
    <3>1. w \in Seq(Token) /\ Len(w) \in Nat
      BY <2>1 DEF Text, w
    <3> HIDE DEF kind
    <3>2. Position(Closing(kind), w) \in 0 .. Len(w)
          /\ (Position(Closing(kind), w) # 0 => w[Position(Closing(kind), w)] = Closing(kind))
      BY <3>1, PositionFinds
    <3>3. i # 0
      BY DEF i
    <3> QED
      BY <3>1, <3>2, <3>3, <2>2
  <2>4. From(w, i) \in Text /\ Len(From(w, i)) = Len(w) - i /\ \A j \in 1 .. Len(w) - i : From(w, i)[j] = w[i + j]
    BY <2>1, <2>3, Cut DEF w
  <2>5. Closing(kind) \notin ToSet(t)
    BY <1>0, <1>1, <1>3 DEF Fine
  <2>6. Len(t) \in Nat /\ Len(v) \in Nat /\ DOMAIN t = 1 .. Len(t)
    BY <1>1 DEF Text
  <2>7. i > Len(t)
    <3>1. \A j \in 1 .. Len(t) : t[j] # Closing(kind)
      BY <2>5, <2>6 DEF ToSet
    <3> QED
      BY <3>1, <2>1, <2>3, <2>6 DEF w
  <2> DEFINE p == i - Len(t)
  <2>8. p \in 1 .. Len(v) /\ Len(t) + p = i /\ Len(w) - i = Len(v) - p
    BY <2>1, <2>3, <2>6, <2>7 DEF w
  <2>9. v[p] = Closing(kind)
    BY <2>1, <2>3, <2>8 DEF w
  <2>10. \A q \in 1 .. Len(v) - p : From(w, i)[q] = v[p + q]
    <3> SUFFICES ASSUME NEW q \in 1 .. Len(v) - p
                 PROVE  From(w, i)[q] = v[p + q]
      OBVIOUS
    <3>1. p + q \in 1 .. Len(v) /\ Len(t) + (p + q) = i + q /\ q \in 1 .. Len(w) - i
      BY <2>6, <2>8
    <3>2. From(w, i)[q] = w[i + q] /\ w[Len(t) + (p + q)] = v[p + q]
      BY <3>1, <2>1, <2>4 DEF w
    <3> QED
      BY <3>1, <3>2
  <2> QED
    BY <2>4, <2>8, <2>9, <2>10 DEF w
<1> HIDE DEF h, kind, bs, i, r, k, s
<1>10. AllFine(h.blocks) /\ KnownLast(h.blocks)
  BY <1>0, <1>5, <1>6, TextDiffers DEF KnownLast
<1>11. Last(h.blocks).type = "text" \/ \A m \in n + 1 .. Len(Kinds) : Kinds[m] # Last(h.blocks).type
  BY <1>0, <1>5, <1>6
<1>12. Last(old).type = "code_interpreter" => \A m \in n + 1 .. Len(Kinds) : Kinds[m] # "code_interpreter"
  BY <1>0, <1>1, <1>3
<1>13. Orderly(c, old, v, h)
  <2>1. PICK f : Places(f, k, s, {j \in DOMAIN s : ~InSection(kind, s, j)}, Len(s))
    BY <1>8
  <2>2. Order(f, k, s)
    BY <2>1 DEF Places, Order
  <2>3. ToSet(k) \subseteq ToSet(s)
    BY <1>8 DEF ToSet
  <2> QED
    BY <2>2, <2>3, <1>1, <1>5, <1>6, <1>7 DEF Orderly, s
<1>14. ASSUME NothingBegins(v), LastInContent(old, c)
       PROVE  /\ LastInContent(h.blocks, h.content)
              /\ Pieces(Tokens(old) \union ToSet(v)) \subseteq Tokens(h.blocks)
  <2>0. DOMAIN v = 1 .. Len(v) /\ Len(v) \in Nat /\ Len(c) \in Nat /\ DOMAIN s = 1 .. Len(s)
    BY <1>7 DEF Text
  <2>1. LastInContent(h.blocks, h.content)
    <3>1. CASE i = 0
      <4>1. ToSet(<<>>) = {}
        BY DEF ToSet
      <4> QED
        BY <4>1, <3>1, <1>0, <1>5, <1>6, TextDiffers DEF LastInContent, Pieces
    <3>2. CASE i # 0
      <4>1. PICK p \in 1 .. Len(v) : /\ v[p] = Closing(kind)
                                     /\ From(Last(bs).text, i) \in Text
                                     /\ Len(From(Last(bs).text, i)) = Len(v) - p
                                     /\ \A q \in 1 .. Len(v) - p : From(Last(bs).text, i)[q] = v[p + q]
        BY <1>9, <3>2
      <4> DEFINE l == From(Last(bs).text, i)
      <4> HIDE DEF l
      <4>2. DOMAIN l = 1 .. Len(v) - p
        BY <4>1 DEF Text, l
      <4>3. ASSUME NEW q \in 1 .. Len(v) - p
            PROVE  l[q] \in ToSet(k)
        <5> DEFINE x == Len(c) + (p + q)
        <5>1. /\ p + q \in 1 .. Len(v) /\ x \in 1 .. Len(s) /\ Len(c) + p \in 1 .. Len(s)
              /\ Len(c) + p < x /\ Len(c) + p <= x - 1
          BY <2>0, <1>7
        <5>2. l[q] = s[x] /\ s[Len(c) + p] = Closing(kind)
          BY <5>1, <4>1, <1>7 DEF l
        <5> HIDE DEF x
        <5>3. ASSUME InSection(kind, s, x)
              PROVE  FALSE
          <6>1. PICK o \in 1 .. x : s[o] = Opening(kind) /\ \A j \in o .. x - 1 : s[j] # Closing(kind)
            BY <5>3 DEF InSection
          <6>2. o > Len(c) + p
            <7>1. CASE o <= Len(c) + p
              <8>1. Len(c) + p \in o .. x - 1
                BY <7>1, <5>1, <2>0
              <8> QED
                BY <8>1, <6>1, <5>2
            <7> QED
              BY <7>1, <2>0, <5>1
          <6>3. o - Len(c) \in 1 .. Len(v) /\ p < o - Len(c) /\ Len(c) + (o - Len(c)) = o
            BY <6>2, <5>1, <2>0, <1>7
          <6>4. v[o - Len(c)] = Opening(kind)
            BY <6>1, <6>3, <1>7
          <6>5. v[p][1] = "close" /\ v[o - Len(c)][1] = "open"
            BY <6>4, <4>1, TagsDiffer
          <6> QED
            BY <6>3, <6>5, <2>0, <1>14 DEF NothingBegins
        <5> QED
          BY <5>1, <5>2, <5>3, <2>0, <1>8
      <4>4. ToSet(l) \subseteq ToSet(k)
        BY <4>2, <4>3 DEF ToSet
      <4> QED
        BY <4>4, <3>2, <1>0, <1>5, <1>6, TextDiffers DEF LastInContent, Pieces, l
    <3> QED
      BY <3>1, <3>2
  <2>2. CASE Tokens(bs) \subseteq Tokens(r) \union {Closing(kind)}
    <3>1. Pieces(Tokens(bs)) \subseteq Tokens(r)
      BY <2>2, TagsAreNoPieces
    <3> QED
      BY <3>1, <2>1, <1>1, <1>5
  <2>3. CASE kind = "code_interpreter" /\ i # 0 /\ From(Last(bs).text, i) # <<>>
    <3>1. PICK p \in 1 .. Len(v) : /\ v[p] = Closing(kind)
                                   /\ From(Last(bs).text, i) \in Text
                                   /\ Len(From(Last(bs).text, i)) = Len(v) - p
      BY <1>9, <2>3
    <3>2. p # Len(v)
      <4>1. ASSUME p = Len(v)
            PROVE  FALSE
        <5>1. Len(From(Last(bs).text, i)) = 0
          BY <4>1, <3>1, <2>0
        <5> QED
          BY <5>1, <3>1, <2>3 DEF Text
      <4> QED
        BY <4>1
    <3>a. Len(v) \in Nat
      BY <2>0
    <3>3. Len(v) \in 1 .. Len(v) /\ p < Len(v)
      BY <3>2, <3>a
    <3> QED
      BY <3>1, <3>3, <2>0, <2>3, <1>14 DEF NothingBegins
  <2> QED
    BY <2>1, <2>2, <2>3, <1>6
<1>15. NothingLost(c, old, v, h)
  BY <1>14 DEF NothingLost
<1> QED
  BY <1>10, <1>11, <1>12, <1>13, <1>15 DEF Touched, h, kind

LEMMA KindHandled ==
  ASSUME NEW n \in 1 .. Len(Kinds), NEW c \in Text, NEW v \in Text,
         NEW old \in Blocks, old # <<>>, AllFine(old), Last(old).type # "tool_calls",
         NEW received, received = Received(v, c, old), NEW st \in Handling,
         Untouched(n - 1, received, st) \/ Touched(n - 1, c, old, v, st)
  PROVE  Untouched(n, received, HandleTag(Kinds[n], st)) \/ Touched(n, c, old, v, HandleTag(Kinds[n], st))
<1> DEFINE h == HandleTag(Kinds[n], st)
<1>0. /\ Kinds[n] \in SectionTypes
      /\ \A m \in n + 1 .. Len(Kinds) : m \in 1 .. Len(Kinds) /\ Kinds[m] # Kinds[n]
  BY KindsDiffer
<1>1. Len(Kinds) \in Nat
  BY TextAssumption
<1>2. /\ received \in Handling /\ received.content = c \o v
      /\ Tokens(received.blocks) = Tokens(old) \union ToSet(v)
  BY TextReceived
<1>3. /\ LastInContent(old, c) => LastInContent(received.blocks, received.content)
      /\ Last(received.blocks).type = "code_interpreter" <=> Last(old).type = "code_interpreter"
  BY TextReceived
<1>4. ~Begins(Kinds[n], st) /\ ~Ends(Kinds[n], st) => h = st
  BY <1>0, TagHandled
<1>5. ~(Begins(Kinds[n], st) /\ Ends(Kinds[n], st))
  BY <1>0, TextDiffers DEF Begins, Ends
<1> HIDE DEF h
<1>6. CASE Untouched(n - 1, received, st)
  <2>1. st = received /\ \A m \in 1 .. n - 1 : ~Begins(Kinds[m], received) /\ ~Ends(Kinds[m], received)
    BY <1>6 DEF Untouched
  <2>2. CASE Begins(Kinds[n], st)
    <3>1. Last(old).type # "code_interpreter"
      BY <2>1, <2>2, <1>3, TextDiffers DEF Begins
    <3>2. Orderly(c, old, v, st)
      <4>1. c \o v \in Text /\ ToSet(c \o v) = ToSet(c) \union ToSet(v)
        BY Joined
      <4>2. Tokens(st.blocks) \union ToSet(st.content) \subseteq Tokens(old) \union ToSet(c) \union ToSet(v)
        BY <4>1, <1>2, <2>1
      <4> DEFINE k == c \o v
      <4> HIDE DEF k
      <4>3. Order([i \in 1 .. Len(k) |-> i], k, k)
        BY DEF Order
      <4> QED
        BY <4>2, <4>3, <1>2, <2>1 DEF Orderly, k
    <3>3. NothingLost(c, old, v, st)
      BY <1>2, <1>3, <2>1 DEF NothingLost, Pieces
    <3>4. Touched(n, c, old, v, HandleTag(Kinds[n], st))
      BY <2>2, <3>1, <3>2, <3>3, BeginsTouched
    <3> QED
      BY <3>4
  <2>3. CASE Ends(Kinds[n], st)
    <3>1. Touched(n, c, old, v, HandleTag(Kinds[n], st))
      BY <2>1, <2>3, EndsTouched
    <3> QED
      BY <3>1
  <2>4. CASE ~Begins(Kinds[n], st) /\ ~Ends(Kinds[n], st)
    <3>1. \A m \in 1 .. n : m \in 1 .. n - 1 \/ m = n
      BY <1>1
    <3>2. Untouched(n, received, h)
      BY <1>4, <2>1, <2>4, <3>1 DEF Untouched
    <3> QED
      BY <3>2 DEF h
  <2> QED
    BY <2>2, <2>3, <2>4
<1>7. CASE Touched(n - 1, c, old, v, st)
  <2>1. n - 1 + 1 .. Len(Kinds) = n .. Len(Kinds) /\ n \in n .. Len(Kinds)
    BY <1>1
  <2>2. /\ AllFine(st.blocks) /\ KnownLast(st.blocks)
        /\ Last(st.blocks).type = "text" \/ \A m \in n .. Len(Kinds) : Kinds[m] # Last(st.blocks).type
        /\ Last(old).type = "code_interpreter" => \A m \in n .. Len(Kinds) : Kinds[m] # "code_interpreter"
        /\ Orderly(c, old, v, st) /\ NothingLost(c, old, v, st)
    BY <1>7, <2>1 DEF Touched
  <2>3. CASE Begins(Kinds[n], st)
    <3>1. Touched(n, c, old, v, HandleTag(Kinds[n], st))
      BY <2>2, <2>3, BeginsTouched
    <3> QED
      BY <3>1
  <2>4. ~Ends(Kinds[n], st)
    BY <2>1, <2>2, <1>0, TextDiffers DEF Ends
  <2>5. CASE ~Begins(Kinds[n], st)
    <3>1. h = st
      BY <2>4, <2>5, <1>4
    <3>2. n + 1 .. Len(Kinds) \subseteq n .. Len(Kinds)
      BY <1>1
    <3>3. Touched(n, c, old, v, st)
      BY <2>2, <3>2 DEF Touched
    <3> QED
      BY <3>1, <3>3 DEF h
  <2> QED
    BY <2>3, <2>5
<1> QED
  BY <1>6, <1>7 DEF h

(* What is always so of the blocks while text is received.                 *)
Receives(bs) ==
  bs \in Blocks /\ bs # <<>> /\ AllFine(bs) /\ KnownLast(bs) /\ Last(bs).type # "tool_calls"

LEMMA TextAdded ==
  ASSUME NEW c \in Text, NEW v \in Text, NEW old, Receives(old),
         NEW st, st = AddText(v, c, old, Kinds)
  PROVE  /\ st.content \in Text /\ Receives(st.blocks) /\ st.end \in BOOLEAN
         /\ Tokens(st.blocks) \union ToSet(st.content) \subseteq Tokens(old) \union ToSet(c) \union ToSet(v)
         /\ NothingBegins(v) /\ LastInContent(old, c) /\ ~CodeWasThere(c, old, st.blocks) =>
              /\ LastInContent(st.blocks, st.content)
              /\ Pieces(Tokens(old) \union ToSet(v)) \subseteq Tokens(st.blocks)
<1> DEFINE rc == Received(v, c, old)
           h == HandledUpTo(Kinds, rc)
           P == {n \in 0 .. Len(Kinds) : Untouched(n, rc, h[n]) \/ Touched(n, c, old, v, h[n])}
<1>0. Len(Kinds) \in Nat /\ Kinds \in Seq(SectionTypes)
  BY TextAssumption
<1>1. old \in Blocks /\ old # <<>> /\ AllFine(old) /\ KnownLast(old) /\ Last(old).type # "tool_calls"
  BY DEF Receives
<1>2. /\ rc \in Handling /\ rc.content = c \o v
      /\ Tokens(rc.blocks) = Tokens(old) \union ToSet(v)
  BY <1>1, TextReceived
<1>3. /\ KnownLast(rc.blocks)
      /\ LastInContent(old, c) => LastInContent(rc.blocks, rc.content)
  BY <1>1, TextReceived
<1>4. /\ Fine(Last(NativeEnded(old))) /\ Last(NativeEnded(old)).text \in Text
      /\ Last(rc.blocks).type = Last(NativeEnded(old)).type
      /\ Last(rc.blocks).text = Last(NativeEnded(old)).text \o v
  BY <1>1, TextReceived
<1> HIDE DEF rc
<1>5. /\ h \in [0 .. Len(Kinds) -> Handling] /\ h[0] = rc
      /\ \A n \in 1 .. Len(Kinds) : h[n] = HandleTag(Kinds[n], h[n - 1])
  BY <1>0, <1>2, HandledStep
<1>6. st = h[Len(Kinds)]
  BY DEF AddText, rc
<1> HIDE DEF h
<1>7. 0 .. Len(Kinds) \subseteq P
  <2>1. 0 \in P
    <3>1. Untouched(0, rc, h[0])
      BY <1>5 DEF Untouched
    <3> QED
      BY <3>1, <1>0
  <2>2. ASSUME NEW n \in 1 .. Len(Kinds), n - 1 \in P
        PROVE  n \in P
    <3>1. n - 1 \in 0 .. Len(Kinds) /\ n \in 0 .. Len(Kinds)
      BY <1>0
    <3>2. h[n - 1] \in Handling /\ h[n] = HandleTag(Kinds[n], h[n - 1])
      BY <3>1, <1>5
    <3>3. Untouched(n - 1, rc, h[n - 1]) \/ Touched(n - 1, c, old, v, h[n - 1])
      BY <2>2
    <3>4. Untouched(n, rc, HandleTag(Kinds[n], h[n - 1]))
          \/ Touched(n, c, old, v, HandleTag(Kinds[n], h[n - 1]))
      BY <3>2, <3>3, <1>1, KindHandled DEF rc
    <3> QED
      BY <3>1, <3>2, <3>4
  <2> HIDE DEF P
  <2> QED
    BY <2>1, <2>2, <1>0, Climb
<1>8. Untouched(Len(Kinds), rc, st) \/ Touched(Len(Kinds), c, old, v, st)
  <2>1. Len(Kinds) \in P
    BY <1>0, <1>7
  <2> QED
    BY <2>1, <1>6
<1>9. st \in Handling
  <2>1. Len(Kinds) \in 0 .. Len(Kinds)
    BY <1>0
  <2> QED
    BY <2>1, <1>5, <1>6
<1>10. /\ st.content \in Text /\ st.blocks \in Blocks /\ st.end \in BOOLEAN /\ st.blocks # <<>>
       /\ Last(st.blocks).type # "tool_calls" /\ ~Last(st.blocks).native /\ AllFine(Front(st.blocks))
  BY <1>9 DEF Handling
<1>11. CASE Touched(Len(Kinds), c, old, v, st)
  BY <1>10, <1>11 DEF Touched, Orderly, NothingLost, Receives
<1>12. CASE Untouched(Len(Kinds), rc, st)
  <2> DEFINE L == Last(st.blocks)
  <2>1. st = rc /\ \A m \in 1 .. Len(Kinds) : ~Begins(Kinds[m], rc) /\ ~Ends(Kinds[m], rc)
    BY <1>12 DEF Untouched
  <2>2. c \o v \in Text /\ ToSet(c \o v) = ToSet(c) \union ToSet(v)
    BY Joined
  <2>3. ASSUME L.type \in SectionTypes
        PROVE  Closing(L.type) \notin ToSet(L.text)
    <3>1. Contains(Kinds, L.type)
      BY <2>1, <2>3, <1>3, <1>10 DEF KnownLast
    <3>2. PICK m \in 1 .. Len(Kinds) : Kinds[m] = L.type
      BY <3>1 DEF Contains
    <3>3. Position(Closing(L.type), c \o v) = 0
      BY <3>2, <2>1, <1>2 DEF Ends
    <3>4. Closing(L.type) \notin ToSet(c \o v)
      <4>1. \A j \in 1 .. Len(c \o v) : (c \o v)[j] # Closing(L.type)
        BY <3>3, <2>2, PositionFinds DEF Text
      <4>2. DOMAIN (c \o v) = 1 .. Len(c \o v)
        BY <2>2 DEF Text
      <4> QED
        BY <4>1, <4>2 DEF ToSet
    <3>5. Closing(L.type) \notin ToSet(Last(NativeEnded(old)).text)
      BY <1>4, <2>1, <2>3 DEF Fine
    <3>6. ToSet(L.text) = ToSet(Last(NativeEnded(old)).text) \union ToSet(v)
      <4> DEFINE t == Last(NativeEnded(old)).text
      <4>1. L.text = t \o v /\ t \in Text
        BY <1>4, <2>1
      <4> HIDE DEF t
      <4>2. ToSet(t \o v) = ToSet(t) \union ToSet(v)
        BY <4>1, Joined
      <4>3. ToSet(L.text) = ToSet(t) \union ToSet(v)
        BY <4>1, <4>2
      <4> QED
        BY <4>3 DEF t
    <3> QED
      BY <3>4, <3>5, <3>6, <2>2
  <2>4. Fine(L)
    BY <2>3, <1>10 DEF Fine
  <2>5. AllFine(st.blocks)
    <3>1. Front(st.blocks) \in Blocks /\ L \in ABlock /\ st.blocks = Append(Front(st.blocks), L)
      BY <1>10, Split
    <3>2. AllFine(Append(Front(st.blocks), L))
      BY <3>1, <2>4, <1>10, FineAdded
    <3> QED
      BY <3>1, <3>2
  <2>6. Tokens(st.blocks) \union ToSet(st.content) \subseteq Tokens(old) \union ToSet(c) \union ToSet(v)
    BY <2>1, <2>2, <1>2
  <2>7. LastInContent(old, c) => /\ LastInContent(st.blocks, st.content)
                                 /\ Pieces(Tokens(old) \union ToSet(v)) \subseteq Tokens(st.blocks)
    BY <2>1, <1>2, <1>3 DEF Pieces
  <2>8. Receives(st.blocks)
    BY <2>1, <2>5, <1>3, <1>10 DEF Receives
  <2> QED
    BY <2>6, <2>7, <2>8, <1>10
<1> QED
  BY <1>8, <1>11, <1>12

-----------------------------------------------------------------------------
(* The other operations on the blocks. *)

LEMMA ReasoningAdded ==
  ASSUME NEW bs, Receives(bs), NEW m \in Nat, NEW r, r = AddReasoning(<<Thought(m)>>, bs)
  PROVE  /\ Receives(r) /\ Last(r).type = "reasoning"
         /\ Last(bs).type = "reasoning" => Last(r).native = Last(bs).native
         /\ Last(bs).type # "reasoning" => Last(r).native = TRUE
         /\ Tokens(r) = Tokens(bs) \union {Thought(m)}
<1> DEFINE v == <<Thought(m)>>
           F == Front(bs)
           L == Last(bs)
<1>1. v \in Text /\ ToSet(v) = {Thought(m)}
  <2>1. v \in Seq(Token) /\ DOMAIN v = {1} /\ v[1] = Thought(m)
    BY DEF Token
  <2> HIDE DEF v
  <2> QED
    BY <2>1 DEF Text, ToSet
<1> HIDE DEF v
<1>2. bs \in Blocks /\ bs # <<>> /\ AllFine(bs) /\ KnownLast(bs)
  BY DEF Receives
<1>3. F \in Blocks /\ L \in ABlock /\ bs = Append(F, L) /\ \A b : WithLast(bs, b) = Append(F, b)
  BY <1>2, Split
<1>4. AllFine(F) /\ Fine(L)
  BY <1>2, FrontFine
<1>5. CASE L.type = "reasoning"
  <2> DEFINE b == [L EXCEPT !.text = @ \o v]
  <2>1. r = Append(F, b)
    BY <1>3, <1>5 DEF AddReasoning, v
  <2>2. L.text \in Text
    BY <1>3 DEF ABlock
  <2>3. L.text \o v \in Text /\ ToSet(L.text \o v) = ToSet(L.text) \union {Thought(m)}
    BY <1>1, <2>2, Joined
  <2>4. b \in ABlock /\ b.type = "reasoning" /\ b.text = L.text \o v /\ b.native = L.native
    BY <1>3, <1>5, <2>3 DEF ABlock
  <2>5. Closing("reasoning") # Thought(m)
    BY DEF Closing, Thought
  <2>6. Fine(b)
    <3>1. Closing("reasoning") \notin ToSet(L.text)
      BY <1>4, <1>5 DEF Fine, SectionTypes
    <3> HIDE DEF b
    <3> QED
      BY <3>1, <2>3, <2>4, <2>5 DEF Fine
  <2> HIDE DEF b, F
  <2>7. /\ r \in Blocks /\ r # <<>> /\ Last(r) = b
        /\ Tokens(r) = Tokens(F) \union ToSet(b.text)
    <3>1. /\ Append(F, b) \in Blocks /\ Append(F, b) # <<>> /\ Last(Append(F, b)) = b
          /\ Tokens(Append(F, b)) = Tokens(F) \union ToSet(b.text)
      BY <1>3, <2>4, Added
    <3> QED
      BY <2>1, <3>1
  <2>8. AllFine(r)
    <3>1. AllFine(Append(F, b))
      BY <1>3, <1>4, <2>4, <2>6, FineAdded
    <3> QED
      BY <2>1, <3>1
  <2>9. Tokens(Append(F, L)) = Tokens(F) \union ToSet(L.text)
    BY <1>3, Added
  <2>10. Tokens(r) = Tokens(bs) \union {Thought(m)}
    BY <1>3, <2>3, <2>4, <2>7, <2>9
  <2>11. KnownLast(r)
    BY <1>2, <1>5, <2>4, <2>7 DEF KnownLast
  <2>12. Last(r).native = Last(bs).native
    BY <2>4, <2>7
  <2> QED
    BY <1>5, <2>4, <2>7, <2>8, <2>10, <2>11, <2>12 DEF Receives
<1>6. CASE L.type # "reasoning"
  <2> DEFINE b == [Block("reasoning", v) EXCEPT !.native = TRUE]
  <2>1. r = Append(bs, b)
    BY <1>6 DEF AddReasoning, v
  <2>2. b \in ABlock /\ b.type = "reasoning" /\ b.text = v /\ b.native = TRUE
    BY <1>1, EmptySeq DEF Block, ABlock, BlockTypes, SectionTypes
  <2>3. Closing("reasoning") # Thought(m)
    BY DEF Closing, Thought
  <2> HIDE DEF b
  <2>4. Fine(b)
    BY <1>1, <2>2, <2>3 DEF Fine
  <2>5. /\ r \in Blocks /\ r # <<>> /\ Last(r) = b
        /\ Tokens(r) = Tokens(bs) \union ToSet(b.text)
    <3>1. /\ Append(bs, b) \in Blocks /\ Append(bs, b) # <<>> /\ Last(Append(bs, b)) = b
          /\ Tokens(Append(bs, b)) = Tokens(bs) \union ToSet(b.text)
      BY <1>2, <2>2, Added
    <3> QED
      BY <2>1, <3>1
  <2>6. AllFine(r)
    BY <1>2, <2>1, <2>2, <2>4, FineAdded
  <2>7. KnownLast(r)
    BY <2>2, <2>5 DEF KnownLast
  <2> QED
    BY <1>1, <1>6, <2>2, <2>5, <2>6, <2>7 DEF Receives
<1> QED
  BY <1>5, <1>6

LEMMA Tidied ==
  ASSUME NEW bs \in Blocks, bs # <<>>, AllFine(bs), NEW r, r = Tidy(bs)
  PROVE  r \in Blocks /\ r # <<>> /\ AllFine(r) /\ Tokens(r) = Tokens(bs)
<1> DEFINE q == IF Last(bs) = TextBlock(<<>>) /\ Len(bs) > 1 THEN Front(bs) ELSE bs
           F == Front(q)
           L == Last(q)
           b == [L EXCEPT !.done = TRUE]
<1>1. q \in Blocks /\ q # <<>> /\ AllFine(q) /\ Tokens(q) = Tokens(bs)
  <2>1. CASE Last(bs) = TextBlock(<<>>) /\ Len(bs) > 1
    <3>1. /\ Front(bs) \in Blocks /\ Last(bs) \in ABlock /\ bs = Append(Front(bs), Last(bs))
          /\ Len(bs) \in Nat \ {0} /\ Len(Front(bs)) = Len(bs) - 1
      BY Split
    <3>2. Front(bs) # <<>>
      BY <3>1, <2>1
    <3>3. AllFine(Front(bs))
      BY FrontFine
    <3>4. Tokens(Append(Front(bs), Last(bs))) = Tokens(Front(bs)) \union ToSet(Last(bs).text)
      BY <3>1, Added
    <3>5. ToSet(Last(bs).text) = {}
      BY <2>1 DEF ToSet, TextBlock, Block
    <3> QED
      BY <3>1, <3>2, <3>3, <3>4, <3>5, <2>1
  <2>2. CASE ~(Last(bs) = TextBlock(<<>>) /\ Len(bs) > 1)
    BY <2>2
  <2> QED
    BY <2>1, <2>2
<1>2. r = IF L.type = "reasoning" THEN WithLast(q, b) ELSE q
  BY DEF Tidy
<1> HIDE DEF q
<1>3. F \in Blocks /\ L \in ABlock /\ q = Append(F, L) /\ WithLast(q, b) = Append(F, b)
  BY <1>1, Split
<1>4. AllFine(F) /\ Fine(L)
  BY <1>1, FrontFine
<1>5. b \in ABlock /\ b.text = L.text /\ Fine(b)
  BY <1>3, <1>4 DEF ABlock, Fine
<1> HIDE DEF b, F, L
<1>6. /\ Append(F, b) \in Blocks /\ Append(F, b) # <<>> /\ AllFine(Append(F, b))
      /\ Tokens(Append(F, b)) = Tokens(F) \union ToSet(L.text)
  BY <1>3, <1>4, <1>5, Added, FineAdded
<1>7. Tokens(Append(F, L)) = Tokens(F) \union ToSet(L.text)
  BY <1>3, Added
<1>8. Tokens(Append(F, b)) = Tokens(q)
  BY <1>3, <1>6, <1>7
<1> QED
  BY <1>1, <1>2, <1>3, <1>6, <1>8

(* The last block is replaced by one with the same text, and a text begins. *)
LEMMA TextBegins ==
  ASSUME NEW bs \in Blocks, bs # <<>>, AllFine(Front(bs)),
         NEW b \in ABlock, Fine(b), b.text = Last(bs).text,
         NEW r, r = Append(WithLast(bs, b), TextBlock(<<>>))
  PROVE  r \in Blocks /\ r # <<>> /\ AllFine(r) /\ Tokens(r) = Tokens(bs) /\ Last(r) = TextBlock(<<>>)
<1> DEFINE F == Front(bs)
           L == Last(bs)
           G == Append(F, b)
<1>1. F \in Blocks /\ L \in ABlock /\ bs = Append(F, L) /\ WithLast(bs, b) = G
  BY Split
<1> HIDE DEF F, L
<1>2. G \in Blocks /\ AllFine(G) /\ Tokens(G) = Tokens(F) \union ToSet(b.text)
  BY <1>1, Added, FineAdded DEF F
<1>3. Tokens(Append(F, L)) = Tokens(F) \union ToSet(L.text)
  BY <1>1, Added
<1> HIDE DEF G
<1>4. TextBlock(<<>>) \in ABlock /\ Fine(TextBlock(<<>>)) /\ TextBlock(<<>>).text = <<>>
  BY NewBlocks, EmptySeq DEF Text
<1>5. ToSet(<<>>) = {}
  BY DEF ToSet
<1>6. r = Append(G, TextBlock(<<>>))
  BY <1>1
<1>7. /\ r \in Blocks /\ r # <<>> /\ AllFine(r) /\ Last(r) = TextBlock(<<>>)
      /\ Tokens(r) = Tokens(G) \union ToSet(TextBlock(<<>>).text)
  <2> DEFINE e == TextBlock(<<>>)
  <2>0. e \in ABlock /\ Fine(e)
    BY <1>4
  <2> HIDE DEF e
  <2>1. /\ Append(G, e) \in Blocks /\ Append(G, e) # <<>> /\ Last(Append(G, e)) = e
        /\ Tokens(Append(G, e)) = Tokens(G) \union ToSet(e.text)
    BY <1>2, <2>0, Added
  <2>2. AllFine(Append(G, e))
    BY <1>2, <2>0, FineAdded
  <2>3. r = Append(G, e)
    BY <1>6 DEF e
  <2>4. /\ r \in Blocks /\ r # <<>> /\ AllFine(r) /\ Last(r) = e
        /\ Tokens(r) = Tokens(G) \union ToSet(e.text)
    BY <2>1, <2>2, <2>3
  <2> QED
    BY <2>4 DEF e
<1>8. Tokens(bs) = Tokens(G)
  BY <1>1, <1>2, <1>3 DEF L
<1> QED
  BY <1>4, <1>5, <1>7, <1>8

(* The calls of a stream, each index once. *)
Batch == {cs \in Seq(Call) : Distinct(cs)}

LEMMA CallMerged ==
  ASSUME calls \in Batch, \A i \in 1 .. Len(calls) : calls[i].index \in CallIndex /\ calls[i].parts \in Nat \ {0},
         NEW index \in CallIndex, NEW cs, cs = MergeCall(index)
  PROVE  /\ cs \in Batch /\ \A i \in 1 .. Len(cs) : cs[i].index \in CallIndex /\ cs[i].parts \in Nat \ {0}
         /\ Len(cs) >= Len(calls)
<1> DEFINE I == {j \in 1 .. Len(calls) : calls[j].index = index}
           i == SelectInSeq(calls, LAMBDA c : c.index = index)
<1>0. calls \in Seq(Call) /\ Distinct(calls) /\ index \in Nat /\ Len(calls) \in Nat
  BY BoundAssumption DEF Batch
<1>1. i = IF I # {} THEN Min(I) ELSE 0
  BY DEF SelectInSeq
<1>2. I # {} => Min(I) \in I
  <2>1. ASSUME I # {}
        PROVE  \E x \in I : \A y \in I : x <= y
    <3> HIDE DEF I
    <3>1. I \subseteq Nat
      BY DEF I
    <3> QED
      BY <2>1, <3>1, Least
  <2> QED
    BY <2>1 DEF Min
<1>3. cs = IF i = 0 THEN Append(calls, [index |-> index, parts |-> 1])
           ELSE [calls EXCEPT ![i].parts = @ + 1]
  BY DEF MergeCall
<1> HIDE DEF i
<1>4. CASE I = {}
  <2> DEFINE n == [index |-> index, parts |-> 1]
  <2>1. cs = Append(calls, n)
    BY <1>1, <1>3, <1>4
  <2>2. n \in Call /\ n.index = index /\ n.parts = 1
    BY <1>0 DEF Call
  <2> HIDE DEF n
  <2>3. /\ cs \in Seq(Call) /\ Len(cs) = Len(calls) + 1 /\ cs[Len(calls) + 1] = n
        /\ \A j \in 1 .. Len(calls) : cs[j] = calls[j]
    BY <1>0, <2>1, <2>2
  <2>4. \A j \in 1 .. Len(cs) : j \in 1 .. Len(calls) \/ j = Len(calls) + 1
    BY <1>0, <2>3
  <2>5. \A j \in 1 .. Len(calls) : calls[j].index # index
    BY <1>4
  <2>6. Distinct(cs)
    <3> SUFFICES ASSUME NEW j \in 1 .. Len(cs), NEW k \in 1 .. Len(cs), cs[j].index = cs[k].index
                 PROVE  j = k
      BY DEF Distinct
    <3>1. CASE j \in 1 .. Len(calls) /\ k \in 1 .. Len(calls)
      BY <3>1, <1>0, <2>3 DEF Distinct
    <3>2. CASE j = Len(calls) + 1 /\ k \in 1 .. Len(calls)
      BY <3>2, <2>2, <2>3, <2>5
    <3>3. CASE k = Len(calls) + 1 /\ j \in 1 .. Len(calls)
      BY <3>3, <2>2, <2>3, <2>5
    <3>4. CASE j = Len(calls) + 1 /\ k = Len(calls) + 1
      BY <3>4
    <3> QED
      BY <3>1, <3>2, <3>3, <3>4, <2>4
  <2>7. \A j \in 1 .. Len(cs) : cs[j].index \in CallIndex /\ cs[j].parts \in Nat \ {0}
    BY <2>2, <2>3, <2>4
  <2> QED
    BY <1>0, <2>3, <2>6, <2>7 DEF Batch
<1>5. CASE I # {}
  <2>1. i \in 1 .. Len(calls) /\ i # 0
    BY <1>1, <1>2, <1>5, <1>0
  <2>2. cs = [calls EXCEPT ![i].parts = @ + 1]
    BY <1>3, <2>1
  <2>3. calls[i] \in Call
    BY <1>0, <2>1
  <2>4. cs \in Seq(Call) /\ Len(cs) = Len(calls)
    <3>1. [calls[i] EXCEPT !.parts = @ + 1] \in Call
      BY <2>3 DEF Call
    <3> QED
      BY <3>1, <1>0, <2>1, <2>2
  <2>5. \A j \in 1 .. Len(calls) : cs[j] = IF j = i THEN [calls[i] EXCEPT !.parts = @ + 1] ELSE calls[j]
    BY <1>0, <2>2
  <2>6. [calls[i] EXCEPT !.parts = @ + 1].index = calls[i].index
        /\ [calls[i] EXCEPT !.parts = @ + 1].parts = calls[i].parts + 1
    BY <2>3 DEF Call
  <2>7. \A j \in 1 .. Len(cs) : cs[j].index = calls[j].index
    BY <2>4, <2>5, <2>6
  <2>a. calls[i].parts + 1 \in Nat \ {0}
    BY <2>3 DEF Call
  <2>b. cs[i].parts = calls[i].parts + 1 /\ \A j \in 1 .. Len(calls) : j # i => cs[j] = calls[j]
    BY <2>1, <2>5, <2>6
  <2>8. \A j \in 1 .. Len(cs) : cs[j].parts \in Nat \ {0}
    BY <2>4, <2>a, <2>b
  <2> QED
    BY <1>0, <2>4, <2>7, <2>8 DEF Batch, Distinct
<1> QED
  BY <1>4, <1>5

-----------------------------------------------------------------------------
(* The invariant. *)

Data == [full : BOOLEAN, blocks : Blocks, raw : Text]

Types ==
  /\ TypeOK
  /\ content \in Text /\ blocks \in Blocks /\ heard \in Text
  /\ calls \in Batch /\ toolCalls \in Seq(Batch) /\ results \in Seq(Nat)
  /\ pending \in Data /\ page \in Data /\ saved \in Blocks

(* Where the task is in which loop.                                        *)
Loops ==
  /\ at = "start" => loop = "first"
  /\ at = "whole" => loop = "whole"
  /\ at = "tool" => loop = "tools"
  /\ at = "code" => loop = "code"
  /\ at \in {"stream", "closing"} => loop \in {"first", "tools", "code"}
  /\ at = "next" => loop \in {"tools", "code", "none"}
  /\ at = "request" => loop \in {"tools", "code"}
  /\ loop = "whole" => toolCalls = <<>>

(* At most one batch waits while tools are run; the loop of the code has   *)
(* calls that wait only when no more may be run.                           *)
Waiting ==
  /\ loop \in {"first", "tools"} /\ at \notin {"next", "background", "cancelling", "ended"} => toolCalls = <<>>
  /\ loop = "tools" /\ at = "next" => Len(toolCalls) <= 1
  /\ loop = "code" /\ at \in {"code", "request", "stream", "closing"} => codeRounds > 0
  /\ loop \in {"code", "none"} => toolCalls = <<>> \/ toolRounds = MaxToolRounds \/ codeRounds > 0
  /\ "done" \in told => at \in {"whole", "background", "cancelling", "ended"} /\ CallsAreRun

(* Until code is run, each call that is owed is in the stream, in the batch *)
(* that waits or in the one being run, or its stream broke.                *)
Waited == Len(calls) + (IF toolCalls = <<>> THEN 0 ELSE Len(Head(toolCalls)))
Unrun == IF at = "tool" THEN Len(Last(blocks).calls) - Len(results) ELSE 0
Owing ==
  /\ loop \in {"first", "tools"} => codeRounds = 0
  /\ at \notin {"stream", "closing", "cancelling", "ended"} => calls = <<>>
  /\ codeRounds = 0 /\ at \notin {"cancelling", "ended"} =>
       Len(toolCalls) <= 1 /\ owed = dropped + Waited + Unrun

(* The blocks are as they should be; the last one may be calls being run.  *)
Running(b) ==
  /\ b.text = <<>> /\ ~b.native /\ Distinct(b.calls)
  /\ Len(results) <= Len(b.calls)
  /\ \A j \in 1 .. Len(results) : results[j] = b.calls[j].index
InOrder ==
  /\ at = "tool" => AllFine(Front(blocks)) /\ Running(Last(blocks))
  /\ at \notin {"tool", "cancelling", "ended"} => AllFine(blocks)
  /\ at \in {"start", "stream"} => KnownLast(blocks) /\ Last(blocks).type # "tool_calls"
  /\ at = "request" => Last(blocks) = TextBlock(<<>>)

(* All text is in the blocks and nothing else.                             *)
AllThere ==
  /\ Tokens(blocks) \union ToSet(content) \subseteq ToSet(heard)
  /\ NothingDropped
  /\ Regular /\ at \in {"start", "stream"} => LastInContent(blocks, content)

(* What is shown or saved.                                                 *)
ShownIsHeard ==
  ~realtime /\ loop # "whole" =>
    /\ Tokens(page.blocks) \union Tokens(pending.blocks) \subseteq ToSet(heard)
    /\ page.raw = <<>> /\ pending.raw = <<>>
SavedInTime ==
  /\ at \in {"background", "ended"} /\ ~realtime /\ loop # "whole"
       /\ told \intersect {"error", "again"} = {} =>
       saved = Rendered(blocks)
  /\ SavedAsReceived

IInv == Types /\ Loops /\ Waiting /\ Owing /\ InOrder /\ AllThere /\ ShownIsHeard /\ SavedInTime

-----------------------------------------------------------------------------
(* Data that is shown. *)

LEMMA NoBlocks == <<>> \in Blocks /\ <<>> \in Text /\ Tokens(<<>>) = {} /\ ToSet(<<>>) = {}
<1>1. <<>> \in Blocks /\ <<>> \in Text
  BY EmptySeq DEF Blocks, Text
<1>2. DOMAIN <<>> = {}
  OBVIOUS
<1> QED
  BY <1>1, <1>2 DEF Tokens, ToSet

LEMMA DataMade ==
  /\ Nothing \in Data /\ Nothing.blocks = <<>> /\ Nothing.raw = <<>>
  /\ \A bs \in Blocks : Full(bs) \in Data /\ Tokens(Full(bs).blocks) = Tokens(bs) /\ Full(bs).raw = <<>>
  /\ \A v \in Text : Raw(v) \in Data /\ Raw(v).blocks = <<>> /\ Raw(v).raw = v
<1>1. \A bs \in Blocks : Full(bs) \in Data /\ Tokens(Full(bs).blocks) = Tokens(bs) /\ Full(bs).raw = <<>>
  <2> SUFFICES ASSUME NEW bs \in Blocks
               PROVE  Full(bs) \in Data /\ Tokens(Full(bs).blocks) = Tokens(bs) /\ Full(bs).raw = <<>>
    OBVIOUS
  <2>1. Rendered(bs) \in Blocks /\ Tokens(Rendered(bs)) = Tokens(bs)
    BY RenderedKeeps
  <2> QED
    BY <2>1, NoBlocks DEF Full, Data
<1> QED
  BY <1>1, NoBlocks DEF Nothing, Raw, Data

LEMMA ShownMade ==
  ASSUME NEW p \in Data, NEW data \in Data, NEW r, r = Shown(p, data)
  PROVE  /\ r \in Data /\ Tokens(r.blocks) \subseteq Tokens(p.blocks) \union Tokens(data.blocks)
         /\ p.raw = <<>> /\ data.raw = <<>> => r.raw = <<>>
<1>0. p.full \in BOOLEAN /\ p.blocks \in Blocks /\ p.raw \in Text /\ data.full \in BOOLEAN /\ data.raw \in Text
  BY DEF Data
<1>1. CASE data.full
  <2>1. r = data \/ r = p
    BY <1>1 DEF Shown
  <2> QED
    BY <2>1
<1>2. CASE ~data.full
  <2>1. r = [p EXCEPT !.raw = @ \o data.raw]
    BY <1>2 DEF Shown
  <2>2. p.raw \o data.raw \in Text
    BY <1>0, Joined
  <2>3. <<>> \o <<>> = <<>>
    OBVIOUS
  <2>4. r \in Data /\ r.blocks = p.blocks /\ r.raw = p.raw \o data.raw
    BY <1>0, <2>1, <2>2 DEF Data
  <2> QED
    BY <2>3, <2>4
<1> QED
  BY <1>1, <1>2

LEMMA Delivered ==
  ASSUME NEW data \in Data, pending \in Data, page \in Data, unsent \in 0 .. ChunkSize - 1, Deliver(data)
  PROVE  /\ pending' \in Data /\ page' \in Data /\ unsent' \in 0 .. ChunkSize - 1
         /\ Tokens(page'.blocks) \union Tokens(pending'.blocks)
              \subseteq Tokens(page.blocks) \union Tokens(pending.blocks) \union Tokens(data.blocks)
         /\ page.raw = <<>> /\ data.raw = <<>> => page'.raw = <<>>
         /\ pending.raw = <<>> /\ data.raw = <<>> => pending'.raw = <<>>
<1>0. ChunkSize \in Nat \ {0}
  BY BoundAssumption
<1>1. CASE unsent + 1 >= ChunkSize
  <2>1. page' = Shown(page, data) /\ pending' = Nothing /\ unsent' = 0
    BY <1>1 DEF Deliver
  <2>2. /\ page' \in Data /\ Tokens(page'.blocks) \subseteq Tokens(page.blocks) \union Tokens(data.blocks)
        /\ page.raw = <<>> /\ data.raw = <<>> => page'.raw = <<>>
    BY <2>1, ShownMade
  <2> QED
    BY <2>1, <2>2, <1>0, DataMade, NoBlocks
<1>2. CASE ~(unsent + 1 >= ChunkSize)
  <2>1. pending' = data /\ unsent' = unsent + 1 /\ page' = page
    BY <1>2 DEF Deliver
  <2>2. unsent + 1 \in 0 .. ChunkSize - 1
    BY <1>0, <1>2
  <2> QED
    BY <2>1, <2>2
<1> QED
  BY <1>1, <1>2

(* The text of a delta, its pieces numbered.                               *)
LEMMA Numbered ==
  ASSUME deltas \in Nat, NEW d \in Deltas,
         NEW v, v = [i \in DOMAIN d |-> IF d[i] = Piece(0) THEN Piece(10 * (deltas + 1) + i) ELSE d[i]]
  PROVE  v \in Text /\ v # <<>> /\ (NothingBegins(d) => NothingBegins(v))
<1>1. d \in Seq(Tags \union {Piece(0)}) /\ d # <<>>
  BY TextAssumption
<1>2. Len(d) \in Nat /\ DOMAIN d = 1 .. Len(d) /\ Len(d) # 0
  BY <1>1
<1>3. \A i \in 1 .. Len(d) : d[i] \in Tags \/ d[i] = Piece(0)
  BY <1>1
<1>4. \A i \in 1 .. Len(d) : v[i] \in Token
  <2> SUFFICES ASSUME NEW i \in 1 .. Len(d)
               PROVE  v[i] \in Token
    OBVIOUS
  <2>1. 10 * (deltas + 1) + i \in Nat
    BY <1>2
  <2>2. v[i] = IF d[i] = Piece(0) THEN Piece(10 * (deltas + 1) + i) ELSE d[i]
    BY <1>2
  <2> QED
    BY <2>1, <2>2, <1>3 DEF Token
<1>5. v \in Seq(Token) /\ Len(v) = Len(d)
  BY <1>2, <1>4
<1>6. ASSUME NothingBegins(d)
      PROVE  NothingBegins(v)
  <2> SUFFICES ASSUME NEW i \in 1 .. Len(d), NEW j \in 1 .. Len(d), i < j
               PROVE  v[i] # Closing("code_interpreter") /\ ~(v[i][1] = "close" /\ v[j][1] = "open")
    BY <1>2, <1>5 DEF NothingBegins
  <2>1. d[i] # Closing("code_interpreter") /\ ~(d[i][1] = "close" /\ d[j][1] = "open")
    BY <1>2, <1>6 DEF NothingBegins
  <2>2. \A k \in 1 .. Len(d) : v[k] = d[k] \/ v[k] = Piece(10 * (deltas + 1) + k)
    BY <1>2
  <2>3. \A n : Piece(n) # Closing("code_interpreter") /\ Piece(n)[1] = "text"
    BY DEF Piece, Closing
  <2> QED
    BY <2>1, <2>2, <2>3
<1> QED
  BY <1>2, <1>5, <1>6 DEF Text

(* What a delta of text does to the blocks.                                *)
LEMMA TextParsed ==
  ASSUME Types, Loops, InOrder, AllThere, NEW d \in Deltas, TextDelta(d)
  PROVE  /\ content' \in Text /\ blocks' \in Blocks /\ heard' \in Text /\ late' \in BOOLEAN
         /\ Receives(blocks')
         /\ ToSet(heard) \subseteq ToSet(heard')
         /\ Tokens(blocks') \union ToSet(content') \subseteq ToSet(heard')
         /\ Regular' => /\ Regular /\ LastInContent(blocks', content')
                        /\ Pieces(ToSet(heard')) \subseteq Tokens(blocks')
         /\ \/ at' = "closing" /\ UNCHANGED <<saved, page, pending, unsent>>
            \/ /\ at' = "stream" /\ SaveNow(blocks')
               /\ \E v \in Text : Deliver(IF realtime THEN Raw(v) ELSE Full(blocks'))
<1> DEFINE v == [i \in DOMAIN d |-> IF d[i] = Piece(0) THEN Piece(10 * (deltas + 1) + i) ELSE d[i]]
           st == AddText(v, content, blocks, Kinds)
<1>1. v \in Text /\ (NothingBegins(d) => NothingBegins(v))
  <2>1. deltas \in Nat
    BY BoundAssumption DEF Types, TypeOK
  <2> QED
    BY <2>1, Numbered
<1>2. /\ at = "stream"
      /\ content' = st.content /\ blocks' = st.blocks /\ heard' = heard \o v
      /\ late' = (late \/ FoundLate(st.blocks))
      /\ IF st.end
         THEN at' = "closing" /\ UNCHANGED <<saved, page, pending, unsent>>
         ELSE /\ SaveNow(st.blocks)
              /\ Deliver(IF realtime THEN Raw(v) ELSE Full(st.blocks))
              /\ at' = at
  BY DEF TextDelta, Receiving
<1> HIDE DEF v
<1>3. content \in Text /\ heard \in Text /\ late \in BOOLEAN
  BY DEF Types, TypeOK
<1>4. Receives(blocks)
  BY <1>2 DEF Types, TypeOK, InOrder, Receives
<1>5. /\ st.content \in Text /\ Receives(st.blocks) /\ st.end \in BOOLEAN
      /\ Tokens(st.blocks) \union ToSet(st.content) \subseteq Tokens(blocks) \union ToSet(content) \union ToSet(v)
      /\ NothingBegins(v) /\ LastInContent(blocks, content) /\ ~CodeWasThere(content, blocks, st.blocks) =>
              /\ LastInContent(st.blocks, st.content)
              /\ Pieces(Tokens(blocks) \union ToSet(v)) \subseteq Tokens(st.blocks)
  BY <1>1, <1>3, <1>4, TextAdded
<1> HIDE DEF st
<1>6. heard \o v \in Text /\ ToSet(heard \o v) = ToSet(heard) \union ToSet(v)
  BY <1>1, <1>3, Joined
<1>7. Tokens(blocks) \union ToSet(content) \subseteq ToSet(heard)
  BY DEF AllThere
<1>8. FoundLate(st.blocks) <=> CodeWasThere(content, blocks, st.blocks)
  BY DEF FoundLate, CodeWasThere
<1>9. ASSUME Regular'
      PROVE  /\ Regular /\ LastInContent(blocks', content')
             /\ Pieces(ToSet(heard')) \subseteq Tokens(blocks')
  <2>1. ~late' /\ \A e \in Deltas : NothingBegins(e)
    BY <1>9 DEF Regular, NothingBegins
  <2>2. ~late /\ ~FoundLate(st.blocks) /\ Regular
    BY <2>1, <1>2 DEF Regular
  <2>3. LastInContent(blocks, content) /\ Pieces(ToSet(heard)) \subseteq Tokens(blocks)
    BY <2>2, <1>2 DEF AllThere, NothingDropped
  <2>4. LastInContent(st.blocks, st.content) /\ Pieces(Tokens(blocks) \union ToSet(v)) \subseteq Tokens(st.blocks)
    BY <2>1, <2>2, <2>3, <1>1, <1>5, <1>8
  <2>5. Pieces(ToSet(heard) \union ToSet(v)) \subseteq Pieces(Tokens(blocks) \union ToSet(v))
    BY <2>3 DEF Pieces
  <2> QED
    BY <2>2, <2>4, <2>5, <1>2, <1>6
<1>10. late' \in BOOLEAN
  BY <1>2, <1>3 DEF FoundLate
<1>11. /\ content' \in Text /\ blocks' \in Blocks /\ heard' \in Text /\ Receives(blocks')
       /\ ToSet(heard) \subseteq ToSet(heard')
       /\ Tokens(blocks') \union ToSet(content') \subseteq ToSet(heard')
  BY <1>2, <1>5, <1>6, <1>7 DEF Receives
<1>12. \/ at' = "closing" /\ UNCHANGED <<saved, page, pending, unsent>>
       \/ /\ at' = "stream" /\ SaveNow(blocks')
          /\ \E w \in Text : Deliver(IF realtime THEN Raw(w) ELSE Full(blocks'))
  BY <1>1, <1>2
<1> QED
  BY <1>9, <1>10, <1>11, <1>12

LEMMA ToolsBegin ==
  ASSUME NEW bs \in Blocks, NEW cs \in Batch,
         NEW b, b = [Block("tool_calls", <<>>) EXCEPT !.calls = cs]
  PROVE  /\ b \in ABlock /\ b.type = "tool_calls" /\ b.text = <<>> /\ ~b.native
         /\ b.calls = cs /\ Distinct(b.calls)
         /\ Append(bs, b) \in Blocks /\ Append(bs, b) # <<>>
         /\ Front(Append(bs, b)) = bs /\ Last(Append(bs, b)) = b
         /\ Tokens(Append(bs, b)) = Tokens(bs)
<1>1. cs \in Seq(Call) /\ Distinct(cs)
  BY DEF Batch
<1>2. /\ b \in ABlock /\ b.type = "tool_calls" /\ b.text = <<>> /\ ~b.native /\ b.calls = cs
  BY <1>1, EmptySeq, NoBlocks DEF Block, ABlock, BlockTypes
<1>3. /\ Append(bs, b) \in Blocks /\ Append(bs, b) # <<>>
      /\ Front(Append(bs, b)) = bs /\ Last(Append(bs, b)) = b
      /\ Tokens(Append(bs, b)) = Tokens(bs) \union ToSet(b.text)
  BY <1>2, Added
<1> QED
  BY <1>1, <1>2, <1>3, NoBlocks

LEMMA ResultsSaved ==
  ASSUME Types, InOrder, at = "tool", Len(results) = Len(Last(blocks).calls),
         NEW r, r = Append(WithLast(blocks, Answered), TextBlock(<<>>))
  PROVE  r \in Blocks /\ r # <<>> /\ AllFine(r) /\ Tokens(r) = Tokens(blocks) /\ Last(r) = TextBlock(<<>>)
<1> DEFINE L == Last(blocks)
<1>1. blocks \in Blocks /\ blocks # <<>> /\ L.type = "tool_calls" /\ results \in Seq(Nat)
  BY DEF Types, TypeOK
<1>2. AllFine(Front(blocks)) /\ Running(L)
  BY DEF InOrder
<1>3. L \in ABlock
  BY <1>1, Split
<1> HIDE DEF L
<1>4. Answered = [L EXCEPT !.results = results, !.done = TRUE]
  BY DEF Answered, L
<1>5. /\ Answered \in ABlock /\ Answered.type = "tool_calls" /\ Answered.text = L.text
      /\ Answered.native = L.native /\ Answered.calls = L.calls /\ Answered.results = results
  BY <1>1, <1>3, <1>4 DEF ABlock
<1>6. ResultsOf(L.calls, results)
  BY <1>2 DEF Running, ResultsOf, L
<1>7. Fine(Answered)
  BY <1>2, <1>5, <1>6 DEF Fine, Running, SectionTypes
<1> QED
  BY <1>1, <1>2, <1>5, <1>7, TextBegins DEF L

LEMMA OutputSaved ==
  ASSUME Types, InOrder, at = "code", NEW output \in BOOLEAN,
         NEW r, r = Append(WithLast(blocks, [Last(blocks) EXCEPT !.done = output]), TextBlock(<<>>))
  PROVE  r \in Blocks /\ r # <<>> /\ AllFine(r) /\ Tokens(r) = Tokens(blocks) /\ Last(r) = TextBlock(<<>>)
<1> DEFINE L == Last(blocks)
           b == [L EXCEPT !.done = output]
<1>1. blocks \in Blocks /\ blocks # <<>> /\ AllFine(blocks)
  BY DEF Types, TypeOK, InOrder
<1>2. L \in ABlock /\ AllFine(Front(blocks)) /\ Fine(L)
  BY <1>1, Split, FrontFine
<1>3. b \in ABlock /\ b.text = L.text /\ Fine(b)
  BY <1>2 DEF ABlock, Fine
<1> QED
  BY <1>1, <1>2, <1>3, TextBegins

LEMMA TextBlockIs ==
  /\ TextBlock(<<>>).type = "text" /\ TextBlock(<<>>).text = <<>>
  /\ \A bs, c : Last(bs) = TextBlock(<<>>) =>
       KnownLast(bs) /\ LastInContent(bs, c) /\ Last(bs).type = "text"
BY NoBlocks DEF TextBlock, Block, KnownLast, LastInContent, Pieces, SectionTypes

-----------------------------------------------------------------------------
(* The conjuncts of the invariant, action by action. *)

LEMMA FirstTypes == Init => Types /\ Loops /\ Waiting /\ Owing
<1> SUFFICES ASSUME Init
             PROVE  Types /\ Loops /\ Waiting /\ Owing
  OBVIOUS
<1>1. content \in Text
  <2>1. <<Piece(0)>> \in Text
    BY DEF Text, Token
  <2> QED
    BY <2>1, NoBlocks DEF Init
<1>2. TextBlock(content) \in ABlock
  BY <1>1, NewBlocks
<1>3. blocks = <<TextBlock(content)>> /\ blocks \in Blocks /\ blocks # <<>>
  BY <1>2 DEF Init, Blocks
<1>4. page \in Data /\ saved \in Blocks /\ pending \in Data
  BY <1>3, DataMade, RenderedKeeps DEF Init
<1>5. calls \in Batch /\ toolCalls \in Seq(Batch) /\ results \in Seq(Nat)
  BY EmptySeq DEF Init, Batch, Distinct
<1>6. TypeOK
  <2>1. 0 \in 0 .. MaxToolRounds /\ 0 \in 0 .. MaxCodeRounds /\ 0 \in 0 .. ChunkSize - 1 /\ 0 \in 0 .. MaxDeltas
    BY BoundAssumption
  <2>2. DOMAIN calls = {}
    BY DEF Init
  <2> QED
    BY <2>1, <2>2, <1>3 DEF Init, TypeOK
<1>7. Types
  BY <1>1, <1>3, <1>4, <1>5, <1>6 DEF Types, Init
<1>8. Loops /\ Waiting
  BY DEF Init, Loops, Waiting
<1>9. Owing
  <2>1. Len(<<>>) = 0
    OBVIOUS
  <2> QED
    BY <2>1 DEF Init, Owing, Waited, Unrun
<1> QED
  BY <1>7, <1>8, <1>9

LEMMA BatchQueue ==
  ASSUME toolCalls \in Seq(Batch), toolCalls # <<>>
  PROVE  Head(toolCalls) \in Batch /\ Tail(toolCalls) \in Seq(Batch) /\ Len(Tail(toolCalls)) = Len(toolCalls) - 1
BY HeadTailProperties

LEMMA WaitedIsNat ==
  ASSUME calls \in Batch, toolCalls \in Seq(Batch)
  PROVE  Waited \in Nat
<1>1. Len(calls) \in Nat
  BY DEF Batch
<1>2. toolCalls # <<>> => Len(Head(toolCalls)) \in Nat
  <2>1. toolCalls # <<>> => Head(toolCalls) \in Batch
    BY BatchQueue
  <2> QED
    BY <2>1 DEF Batch
<1> QED
  BY <1>1, <1>2 DEF Waited

LEMMA TypesStep ==
  ASSUME Types, Loops, Owing, InOrder, AllThere, Next
  PROVE  Types'
<1> USE DEF parse, stream, rounds, account
<1>0. /\ content \in Text /\ blocks \in Blocks /\ heard \in Text
      /\ calls \in Batch /\ toolCalls \in Seq(Batch) /\ results \in Seq(Nat)
      /\ pending \in Data /\ page \in Data /\ saved \in Blocks
      /\ DOMAIN calls = 1 .. Len(calls)
  BY DEF Types, Batch
<1>1. CASE ShowWhole
  <2>1. Full(<<TextBlock(<<Piece(1)>>)>>) \in Data
    <3>1. <<Piece(1)>> \in Text
      BY DEF Text, Token
    <3>2. TextBlock(<<Piece(1)>>) \in ABlock
      BY <3>1, NewBlocks
    <3>3. <<TextBlock(<<Piece(1)>>)>> \in Blocks
      BY <3>2 DEF Blocks
    <3> QED
      BY <3>3, DataMade
  <2>2. page' \in Data
    BY <1>0, <1>1, <2>1, ShownMade DEF ShowWhole
  <2> QED
    BY <1>0, <1>1, <2>2 DEF ShowWhole, Types, TypeOK
<1>2. CASE NoAnswer
  BY <1>0, <1>2 DEF NoAnswer, Types, TypeOK
<1>3. ASSUME NEW d \in Deltas, TextDelta(d)
      PROVE  Types'
  <2>1. /\ content' \in Text /\ blocks' \in Blocks /\ heard' \in Text /\ late' \in BOOLEAN
        /\ blocks' # <<>>
    BY <1>3, TextParsed DEF Receives
  <2>2. /\ at' \in {"closing", "stream"} /\ saved' \in Blocks /\ page' \in Data /\ pending' \in Data
        /\ unsent' \in 0 .. ChunkSize - 1
    <3>1. CASE at' = "closing" /\ UNCHANGED <<saved, page, pending, unsent>>
      BY <3>1, <1>0 DEF Types, TypeOK
    <3>2. ASSUME at' = "stream", SaveNow(blocks'), NEW w \in Text, Deliver(IF realtime THEN Raw(w) ELSE Full(blocks'))
          PROVE  saved' \in Blocks /\ page' \in Data /\ pending' \in Data /\ unsent' \in 0 .. ChunkSize - 1
      <4>1. saved' \in Blocks
        <5>1. Rendered(blocks') \in Blocks
          BY <2>1, RenderedKeeps
        <5> QED
          BY <5>1, <1>0, <3>2 DEF SaveNow
      <4> DEFINE data == IF realtime THEN Raw(w) ELSE Full(blocks')
      <4>2. data \in Data /\ Deliver(data)
        BY <2>1, <3>2, DataMade
      <4> HIDE DEF data
      <4>3. page' \in Data /\ pending' \in Data /\ unsent' \in 0 .. ChunkSize - 1
        BY <4>2, <1>0, Delivered DEF Types, TypeOK
      <4> QED
        BY <4>1, <4>3
    <3> QED
      BY <3>1, <3>2, <1>3, TextParsed
  <2>3. /\ deltas < MaxDeltas /\ deltas' = deltas + 1
        /\ UNCHANGED <<loop, realtime, rounds, account, told, calls>>
    BY <1>3 DEF TextDelta, Receiving
  <2>4. deltas' \in 0 .. MaxDeltas
    BY <2>3, BoundAssumption DEF Types, TypeOK
  <2> QED
    BY <1>0, <2>1, <2>2, <2>3, <2>4 DEF Types, TypeOK
<1>4. CASE ReasoningDelta
  <2>1. /\ at = "stream" /\ deltas < MaxDeltas /\ deltas' = deltas + 1
        /\ UNCHANGED <<loop, realtime, rounds, told>>
        /\ blocks' = AddReasoning(<<Thought(10 * (deltas + 1))>>, blocks)
        /\ heard' = heard \o <<Thought(10 * (deltas + 1))>>
        /\ Deliver(Full(blocks'))
        /\ UNCHANGED <<at, content, late, calls, account, saved>>
    BY <1>4 DEF ReasoningDelta, Receiving
  <2>2. deltas' \in 0 .. MaxDeltas /\ 10 * (deltas + 1) \in Nat
    BY <2>1, BoundAssumption DEF Types, TypeOK
  <2>3. Receives(blocks)
    BY <2>1 DEF Types, TypeOK, InOrder, Receives
  <2>4. Receives(blocks')
    BY <2>1, <2>2, <2>3, ReasoningAdded
  <2>5. blocks' \in Blocks /\ blocks' # <<>>
    BY <2>4 DEF Receives
  <2>6. page' \in Data /\ pending' \in Data /\ unsent' \in 0 .. ChunkSize - 1
    BY <1>0, <2>1, <2>5, DataMade, Delivered DEF Types, TypeOK
  <2>7. heard' \in Text
    <3>1. <<Thought(10 * (deltas + 1))>> \in Text
      BY <2>2 DEF Text, Token
    <3> QED
      BY <3>1, <2>1, <1>0, Joined
  <2> QED
    BY <1>0, <2>1, <2>2, <2>5, <2>6, <2>7 DEF Types, TypeOK
<1>5. CASE OtherDelta
  <2>1. /\ at = "stream" /\ deltas < MaxDeltas /\ deltas' = deltas + 1
        /\ UNCHANGED <<loop, realtime, rounds, told>>
        /\ Deliver(Raw(<<>>))
        /\ UNCHANGED <<at, parse, calls, account, saved>>
    BY <1>5 DEF OtherDelta, Receiving
  <2>2. deltas' \in 0 .. MaxDeltas
    BY <2>1, BoundAssumption DEF Types, TypeOK
  <2>3. page' \in Data /\ pending' \in Data /\ unsent' \in 0 .. ChunkSize - 1
    BY <1>0, <2>1, DataMade, NoBlocks, Delivered DEF Types, TypeOK
  <2> QED
    BY <1>0, <2>1, <2>2, <2>3 DEF Types, TypeOK
<1>6. ASSUME NEW index \in CallIndex, ToolCallDelta(index)
      PROVE  Types'
  <2>1. /\ at = "stream" /\ deltas < MaxDeltas /\ deltas' = deltas + 1
        /\ UNCHANGED <<loop, realtime, rounds, told>>
        /\ calls' = MergeCall(index)
        /\ Deliver(Raw(<<>>))
        /\ UNCHANGED <<at, parse, dropped, saved>>
        /\ owed' = owed + Len(calls') - Len(calls)
    BY <1>6 DEF ToolCallDelta, Receiving
  <2>2. deltas' \in 0 .. MaxDeltas
    BY <2>1, BoundAssumption DEF Types, TypeOK
  <2>3. page' \in Data /\ pending' \in Data /\ unsent' \in 0 .. ChunkSize - 1
    BY <1>0, <2>1, DataMade, NoBlocks, Delivered DEF Types, TypeOK
  <2>4. /\ calls' \in Batch
        /\ \A i \in 1 .. Len(calls') : calls'[i].index \in CallIndex /\ calls'[i].parts \in Nat \ {0}
    <3>1. \A i \in 1 .. Len(calls) : calls[i].index \in CallIndex /\ calls[i].parts \in Nat \ {0}
      BY <1>0 DEF Types, TypeOK
    <3> QED
      BY <3>1, <2>1, <1>0, CallMerged
  <2>5. DOMAIN calls' = 1 .. Len(calls')
    BY <2>4 DEF Batch
  <2>6. owed' \in Nat
    <3>1. \A i \in 1 .. Len(calls) : calls[i].index \in CallIndex /\ calls[i].parts \in Nat \ {0}
      BY <1>0 DEF Types, TypeOK
    <3>2. Len(calls') >= Len(calls)
      BY <3>1, <2>1, <1>0, CallMerged
    <3>3. Len(calls') \in Nat /\ Len(calls) \in Nat /\ owed \in Nat
      BY <1>0, <2>4 DEF Batch, Types, TypeOK
    <3> QED
      BY <2>1, <3>2, <3>3
  <2> QED
    BY <1>0, <2>1, <2>2, <2>3, <2>4, <2>5, <2>6 DEF Types, TypeOK
<1>7. CASE BreakStream
  <2>1. Nothing \in Data /\ <<>> \in Batch /\ DOMAIN <<>> = {}
    BY DataMade, EmptySeq DEF Batch, Distinct
  <2>2. /\ calls' = <<>> /\ pending' = Nothing /\ unsent' = 0
        /\ \/ at' = "ended" /\ told' = {"error", "cancelled"} /\ UNCHANGED loop
           \/ at' = "next" /\ loop' \in {"code", "none"} /\ UNCHANGED told
        /\ UNCHANGED <<realtime, parse, rounds, page, owed, saved, deltas>>
        /\ dropped' = dropped + Len(calls)
    BY <1>7 DEF BreakStream, OpenStream, AfterLoop
  <2>3. 0 \in 0 .. ChunkSize - 1
    BY BoundAssumption
  <2>4. dropped' \in Nat
    <3>1. Len(calls) \in Nat /\ dropped \in Nat
      BY <1>0 DEF Batch, Types, TypeOK
    <3> QED
      BY <2>2, <3>1
  <2> QED
    BY <1>0, <2>1, <2>2, <2>3, <2>4 DEF Types, TypeOK
<1>8. CASE Refused
  BY <1>0, <1>8 DEF Refused, AfterLoop, Types, TypeOK
<1>9. CASE Start
  BY <1>0, <1>9 DEF Start, Types, TypeOK
<1>10. CASE EndStream
  <2>1. Nothing \in Data /\ <<>> \in Batch /\ DOMAIN <<>> = {} /\ 0 \in 0 .. ChunkSize - 1
    BY DataMade, EmptySeq, BoundAssumption DEF Batch, Distinct
  <2>2. blocks # <<>> /\ AllFine(blocks)
    BY <1>10 DEF EndStream, InOrder, Types, TypeOK
  <2>3. blocks' \in Blocks /\ blocks' # <<>>
    BY <1>0, <1>10, <2>2, Tidied DEF EndStream
  <2>4. page' \in Data
    BY <1>0, <1>10, ShownMade DEF EndStream
  <2>5. toolCalls' \in Seq(Batch)
    BY <1>0, <1>10 DEF EndStream
  <2> QED
    BY <1>0, <1>10, <2>1, <2>3, <2>4, <2>5 DEF EndStream, Types, TypeOK
<1>11. CASE NextTools
  <2>1. toolCalls # <<>> /\ toolRounds < MaxToolRounds
    BY <1>11 DEF NextTools, MoreTools
  <2>2. Head(toolCalls) \in Batch /\ toolCalls' \in Seq(Batch) /\ results' \in Seq(Nat)
    BY <1>0, <1>11, <2>1, EmptySeq, BatchQueue DEF NextTools
  <2>3. blocks' \in Blocks /\ blocks' # <<>> /\ Last(blocks').type = "tool_calls"
    BY <1>0, <1>11, <2>2, ToolsBegin, SMTT(30) DEF NextTools
  <2>4. page' \in Data
    BY <1>0, <1>11, <2>3, DataMade, ShownMade DEF NextTools, EmitBlocks
  <2>5. toolRounds' \in 0 .. MaxToolRounds
    BY <1>11, <2>1, BoundAssumption DEF NextTools, Types, TypeOK
  <2> QED
    BY <1>0, <1>11, <2>2, <2>3, <2>4, <2>5 DEF NextTools, Types, TypeOK
<1>12. CASE RunTool
  <2>1. results' \in Seq(Nat)
    <3>1. Last(blocks) \in ABlock
      BY <1>0, Split DEF Types, TypeOK
    <3>2. Last(blocks).calls \in Seq(Call) /\ Len(results) \in Nat /\ Len(results) < Len(Last(blocks).calls)
      BY <1>0, <1>12, <3>1 DEF ABlock, RunTool
    <3>3. Last(blocks).calls[Len(results) + 1] \in Call
      BY <3>2
    <3> QED
      BY <1>0, <1>12, <3>3 DEF RunTool, Call
  <2>2. owed' \in Nat
    <3>1. at = "tool" /\ loop = "tools" /\ codeRounds = 0 /\ toolCalls' = toolCalls
      BY <1>12 DEF RunTool, Loops, Owing
    <3>2. owed = dropped + Waited + (Len(Last(blocks).calls) - Len(results))
      BY <3>1 DEF Owing, Unrun
    <3>3. Last(blocks) \in ABlock
      BY <1>0, Split DEF Types, TypeOK
    <3>4. Len(Last(blocks).calls) \in Nat /\ Len(results) \in Nat /\ Len(results) < Len(Last(blocks).calls)
      BY <1>0, <1>12, <3>3 DEF ABlock, RunTool
    <3>5. Waited \in Nat
      BY <1>0, WaitedIsNat
    <3>6. owed' = owed - 1 /\ dropped \in Nat
      BY <1>12 DEF RunTool, Types, TypeOK
    <3> DEFINE n == Len(Last(blocks).calls)
    <3> DEFINE m == Len(results)
    <3>7. n \in Nat /\ m \in Nat /\ m < n /\ owed = dropped + Waited + (n - m)
      BY <3>2, <3>4
    <3> HIDE DEF n, m
    <3> QED
      BY <3>5, <3>6, <3>7
  <2> QED
    BY <1>0, <1>12, <2>1, <2>2 DEF RunTool, Types, TypeOK
<1>13. CASE ToolsRun
  <2>1. blocks' \in Blocks /\ blocks' # <<>>
    BY <1>13, ResultsSaved DEF ToolsRun
  <2>2. page' \in Data
    BY <1>0, <1>13, <2>1, DataMade, ShownMade DEF ToolsRun, EmitBlocks
  <2> QED
    BY <1>0, <1>13, <2>1, <2>2 DEF ToolsRun, Types, TypeOK
<1>14. CASE Resume
  <2>1. Nothing \in Data /\ <<>> \in Batch /\ DOMAIN <<>> = {} /\ 0 \in 0 .. ChunkSize - 1
    BY DataMade, EmptySeq, BoundAssumption DEF Batch, Distinct
  <2> QED
    BY <1>0, <1>14, <2>1 DEF Resume, OpenStream, Types, TypeOK
<1>15. CASE NextCode
  <2>1. Last(blocks).type = "code_interpreter" /\ codeRounds < MaxCodeRounds
    BY <1>15 DEF NextCode, MoreCode
  <2>2. page' \in Data
    BY <1>0, <1>15, DataMade, ShownMade DEF NextCode, EmitBlocks
  <2>3. codeRounds' \in 0 .. MaxCodeRounds
    BY <1>15, <2>1, BoundAssumption DEF NextCode, NextCodeRound, Types, TypeOK
  <2> QED
    BY <1>0, <1>15, <2>1, <2>2, <2>3 DEF NextCode, Types, TypeOK
<1>16. CASE RunCode
  <2>1. blocks' \in Blocks /\ blocks' # <<>>
    BY <1>16, OutputSaved DEF RunCode
  <2>2. page' \in Data
    BY <1>0, <1>16, <2>1, DataMade, ShownMade DEF RunCode, EmitBlocks
  <2> QED
    BY <1>0, <1>16, <2>1, <2>2 DEF RunCode, Types, TypeOK
<1>17. CASE Finish
  <2>1. saved' \in Blocks
    BY <1>0, <1>17, RenderedKeeps DEF Finish, SaveAtEnd
  <2>2. page' \in Data
    BY <1>0, <1>17, DataMade, ShownMade DEF Finish, EmitBlocks
  <2> QED
    BY <1>0, <1>17, <2>1, <2>2 DEF Finish, Types, TypeOK
<1>18. CASE SaveWhole
  <2>1. saved' \in Blocks
    BY <1>0, <1>18 DEF SaveWhole, Data
  <2> QED
    BY <1>0, <1>18, <2>1 DEF SaveWhole, Types, TypeOK
<1>19. CASE BackgroundDone
  BY <1>0, <1>19 DEF BackgroundDone, Types, TypeOK
<1>20. CASE Cancel
  BY <1>0, <1>20 DEF Cancel, Types, TypeOK
<1>22. CASE SaveCancelled
  <2>1. saved' \in Blocks
    BY <1>0, <1>22, RenderedKeeps DEF SaveCancelled, CancelSaves, SaveAtEnd
  <2> QED
    BY <1>0, <1>22, <2>1 DEF SaveCancelled, Types, TypeOK
<1>23. CASE CancelAgain
  BY <1>0, <1>23 DEF CancelAgain, Types, TypeOK
<1>21. CASE Done
  BY <1>0, <1>21 DEF Done, vars, Types, TypeOK
<1> QED
  BY <1>1, <1>2, <1>3, <1>4, <1>5, <1>6, <1>7, <1>8, <1>9, <1>10, <1>11, <1>12, <1>13, <1>14,
     <1>15, <1>16, <1>17, <1>18, <1>19, <1>20, <1>21, <1>22, <1>23 DEF Next, Receive, Step

LEMMA ControlStep ==
  ASSUME Types, Loops, Waiting, Owing, Next
  PROVE  Loops' /\ Waiting'
<1> USE DEF parse, stream, rounds, account, Loops, Waiting, CallsAreRun
<1>0. toolCalls \in Seq(Batch)
  BY DEF Types
<1>1. CASE ShowWhole
  <2>1. /\ at = "start" /\ loop = "first" /\ at' = "whole" /\ loop' = "whole"
        /\ UNCHANGED <<toolCalls, toolRounds, codeRounds, owed, dropped>>
    BY <1>1 DEF ShowWhole
  <2>2. codeRounds = 0 /\ toolCalls = <<>> /\ calls = <<>> /\ owed = dropped + Waited + Unrun
    BY <2>1 DEF Owing
  <2>3. Waited = 0 /\ Unrun = 0
    BY <2>1, <2>2 DEF Waited, Unrun
  <2>4. owed' = dropped'
    BY <2>1, <2>2, <2>3 DEF Types, TypeOK
  <2> QED
    BY <2>1, <2>2, <2>4
<1>2. CASE NoAnswer
  BY <1>2 DEF NoAnswer
<1>3. CASE Receive
  <2>1. /\ at = "stream" /\ at' \in {"stream", "closing"}
        /\ UNCHANGED <<loop, realtime, rounds, told>>
    BY <1>3 DEF Receive, TextDelta, ReasoningDelta, OtherDelta, ToolCallDelta, Receiving
  <2> QED
    BY <2>1
<1>7. CASE BreakStream
  BY <1>7 DEF BreakStream, AfterLoop
<1>8. CASE Refused
  BY <1>8 DEF Refused, AfterLoop
<1>9. CASE Start
  BY <1>9 DEF Start
<1>10. CASE EndStream
  <2>1. calls # <<>> => Len(Append(toolCalls, calls)) = Len(toolCalls) + 1
    BY <1>0
  <2>2. /\ at \in {"stream", "closing"}
        /\ toolCalls' = IF calls = <<>> THEN toolCalls ELSE Append(toolCalls, calls)
        /\ at' = "next" /\ loop' = (IF loop = "first" THEN "tools" ELSE loop)
        /\ UNCHANGED <<toolRounds, codeRounds, told>>
    BY <1>10 DEF EndStream
  <2>3. loop \in {"first", "tools"} => Len(toolCalls') <= 1
    <3>1. loop \in {"first", "tools"} => toolCalls = <<>>
      BY <2>2
    <3>2. Len(<<>>) = 0
      OBVIOUS
    <3> QED
      BY <3>1, <3>2, <2>1, <2>2
  <2>4. loop = "code" => codeRounds > 0
    BY <2>2
  <2>5. "done" \notin told
    BY <2>2
  <2>6. loop \in {"first", "tools", "code"} /\ loop' \in {"tools", "code"}
    BY <2>2
  <2>7. Loops'
    BY <2>2, <2>6
  <2>8. loop' = "tools" => Len(toolCalls') <= 1
    BY <2>2, <2>3
  <2>9. loop' = "code" => codeRounds' > 0
    BY <2>2, <2>4
  <2>10. Waiting'
    BY <2>2, <2>5, <2>6, <2>8, <2>9
  <2> QED
    BY <2>7, <2>10
<1>11. CASE NextTools
  <2>1. toolCalls # <<>> /\ loop = "tools"
    BY <1>11 DEF NextTools, MoreTools
  <2>2. Len(Tail(toolCalls)) = Len(toolCalls) - 1 /\ Tail(toolCalls) \in Seq(Batch)
    BY <1>0, <2>1, BatchQueue
  <2>3. Len(toolCalls) <= 1 /\ Len(toolCalls) \in Nat
    BY <1>0, <1>11, <2>1 DEF NextTools
  <2>4. Tail(toolCalls) = <<>>
    BY <2>2, <2>3
  <2>5. at' = "tool" /\ toolCalls' = <<>> /\ UNCHANGED <<loop, codeRounds, told>> /\ at = "next"
    BY <1>11, <2>4 DEF NextTools
  <2> QED
    BY <2>1, <2>5
<1>12. CASE RunTool
  BY <1>12 DEF RunTool
<1>13. CASE ToolsRun
  BY <1>13 DEF ToolsRun
<1>14. CASE Resume
  BY <1>14 DEF Resume
<1>15. CASE NextCode
  <2>1. codeRounds' > 0
    BY <1>15 DEF NextCode, NextCodeRound, Types, TypeOK
  <2>2. /\ at = "next" /\ loop' = "code" /\ at' = "code" /\ UNCHANGED <<toolCalls, toolRounds, told>>
    BY <1>15 DEF NextCode
  <2> QED
    BY <2>1, <2>2
<1>16. CASE RunCode
  BY <1>16 DEF RunCode
<1>17. CASE Finish
  <2>1. /\ at = "next" /\ at' = "background" /\ UNCHANGED <<loop, toolCalls, toolRounds, codeRounds>>
        /\ told' = told \union {"done"}
        /\ ~(loop = "tools" /\ toolCalls # <<>> /\ toolRounds < MaxToolRounds)
    BY <1>17 DEF Finish, MoreTools
  <2>2. toolRounds \in 0 .. MaxToolRounds /\ MaxToolRounds \in Nat
    BY BoundAssumption DEF Types, TypeOK
  <2>3. ~(toolRounds < MaxToolRounds) => toolRounds = MaxToolRounds
    BY <2>2
  <2>4. toolCalls # <<>> => toolRounds = MaxToolRounds \/ codeRounds > 0
    BY <2>1, <2>3
  <2>5. codeRounds = 0 /\ toolCalls = <<>> => owed = dropped
    <3>1. (Waited = 0 /\ Unrun = 0) \/ toolCalls # <<>>
      BY <2>1 DEF Owing, Waited, Unrun
    <3> QED
      BY <2>1, <3>1 DEF Owing, Types, TypeOK
  <2>6. codeRounds = 0 \/ codeRounds > 0
    BY DEF Types, TypeOK
  <2>7. UNCHANGED <<owed, dropped>>
    BY <1>17 DEF Finish
  <2>8. CallsAreRun'
    BY <2>1, <2>4, <2>5, <2>6, <2>7
  <2> QED
    BY <2>1, <2>4, <2>8
<1>18. CASE SaveWhole
  BY <1>18 DEF SaveWhole
<1>19. CASE BackgroundDone
  BY <1>19 DEF BackgroundDone
<1>20. CASE Cancel
  BY <1>20 DEF Cancel
<1>22. CASE SaveCancelled
  BY <1>22 DEF SaveCancelled
<1>23. CASE CancelAgain
  BY <1>23 DEF CancelAgain
<1>21. CASE Done
  BY <1>21 DEF Done, vars
<1> QED
  BY <1>1, <1>2, <1>3, <1>7, <1>8, <1>9, <1>10, <1>11, <1>12, <1>13, <1>14,
     <1>15, <1>16, <1>17, <1>18, <1>19, <1>20, <1>21, <1>22, <1>23 DEF Next, Step

(* While a stream is read, of the calls only its own wait.                 *)
LEMMA Streaming ==
  ASSUME Types, Loops, Waiting, Owing, at \in {"stream", "closing"}
  PROVE  codeRounds = 0 => toolCalls = <<>> /\ owed = dropped + Len(calls)
<1> SUFFICES ASSUME codeRounds = 0
             PROVE  toolCalls = <<>> /\ owed = dropped + Len(calls)
  OBVIOUS
<1>1. loop \in {"first", "tools"}
  BY DEF Loops, Waiting
<1>2. toolCalls = <<>>
  BY <1>1 DEF Waiting
<1>3. Waited = Len(calls) + 0 /\ Unrun = 0
  BY <1>2 DEF Waited, Unrun
<1>4. Len(calls) \in Nat /\ dropped \in Nat
  BY DEF Types, TypeOK, Batch
<1> QED
  BY <1>2, <1>3, <1>4 DEF Owing

LEMMA OwingStep ==
  ASSUME Types, Loops, Waiting, Owing, InOrder, Next, Types'
  PROVE  Owing'
<1> USE DEF parse, stream, rounds, account
<1>01. calls \in Batch /\ toolCalls \in Seq(Batch) /\ results \in Seq(Nat)
  BY DEF Types, TypeOK
<1>02. Len(calls) \in Nat /\ Len(toolCalls) \in Nat /\ Len(<<>>) = 0
  <2>1. calls \in Seq(Call)
    BY <1>01 DEF Batch
  <2>2. Len(calls) \in Nat
    BY <2>1
  <2>3. Len(toolCalls) \in Nat
    BY <1>01
  <2> QED
    BY <2>2, <2>3
<1>03. owed \in Nat /\ dropped \in Nat /\ codeRounds \in Nat /\ blocks \in Blocks /\ blocks # <<>>
  BY DEF Types, TypeOK
<1>0. /\ calls \in Batch /\ toolCalls \in Seq(Batch) /\ results \in Seq(Nat)
      /\ Len(calls) \in Nat /\ Len(<<>>) = 0 /\ Len(toolCalls) \in Nat
      /\ owed \in Nat /\ dropped \in Nat /\ codeRounds \in Nat /\ blocks \in Blocks /\ blocks # <<>>
      /\ Waited \in Nat
  BY <1>01, <1>02, <1>03, WaitedIsNat
<1>1. CASE ShowWhole
  BY <1>1 DEF ShowWhole, Owing, Waited, Unrun
<1>2. CASE NoAnswer
  BY <1>2 DEF NoAnswer, Owing
<1>3. CASE (\E d \in Deltas : TextDelta(d)) \/ ReasoningDelta \/ OtherDelta
  <2>1. /\ at = "stream" /\ at' \in {"stream", "closing"}
        /\ UNCHANGED <<loop, calls, toolCalls, codeRounds, owed, dropped>>
    BY <1>3 DEF TextDelta, ReasoningDelta, OtherDelta, Receiving
  <2> QED
    BY <2>1 DEF Owing, Waited, Unrun
<1>4. ASSUME NEW index \in CallIndex, ToolCallDelta(index)
      PROVE  Owing'
  <2>1. /\ at = "stream" /\ at' = at /\ owed' = owed + Len(calls') - Len(calls)
        /\ UNCHANGED <<loop, toolCalls, codeRounds, dropped>>
    BY <1>4 DEF ToolCallDelta, Receiving
  <2>2. Len(calls') \in Nat
    BY DEF Types, Batch
  <2>5. codeRounds = 0 => toolCalls = <<>> /\ owed = dropped + Len(calls)
    BY <2>1, Streaming
  <2>6. codeRounds = 0 => owed' = dropped + Len(calls')
    BY <1>0, <2>1, <2>2, <2>5
  <2> QED
    BY <1>0, <2>1, <2>2, <2>5, <2>6 DEF Owing, Waited, Unrun
<1>7. CASE BreakStream
  <2>1. /\ at = "stream" /\ calls' = <<>> /\ dropped' = dropped + Len(calls)
        /\ UNCHANGED <<toolCalls, codeRounds, owed>>
        /\ \/ at' = "ended" /\ loop' = loop
           \/ at' = "next" /\ loop' \in {"code", "none"}
    BY <1>7 DEF BreakStream, OpenStream, AfterLoop
  <2>2. codeRounds = 0 => toolCalls = <<>> /\ owed = dropped + Len(calls)
    BY <1>0, <2>1, Streaming
  <2>3. CASE codeRounds = 0
    <3>1. toolCalls' = <<>> /\ owed' = dropped'
      BY <1>0, <2>1, <2>2, <2>3
    <3>2. at' = "next" => Waited' = 0 /\ Unrun' = 0
      BY <1>0, <2>1, <3>1 DEF Waited, Unrun
    <3>3. dropped' \in Nat
      BY <1>0, <2>1
    <3> QED
      BY <1>0, <2>1, <2>3, <3>1, <3>2, <3>3 DEF Owing
  <2>4. CASE codeRounds # 0
    BY <2>1, <2>4 DEF Owing
  <2> QED
    BY <2>3, <2>4
<1>8. CASE Refused
  <2>1. /\ at = "request" /\ at' = "next" /\ loop' \in {"code", "none"}
        /\ UNCHANGED <<calls, toolCalls, codeRounds, owed, dropped>>
    BY <1>8 DEF Refused, AfterLoop
  <2> QED
    BY <2>1 DEF Owing, Waited, Unrun
<1>9. CASE Start
  BY <1>9 DEF Start, Owing, Waited, Unrun
<1>10. CASE EndStream
  <2>1. /\ at \in {"stream", "closing"} /\ at' = "next" /\ calls' = <<>>
        /\ toolCalls' = IF calls = <<>> THEN toolCalls ELSE Append(toolCalls, calls)
        /\ loop' = IF loop = "first" THEN "tools" ELSE loop
        /\ UNCHANGED <<codeRounds, owed, dropped>>
    BY <1>10 DEF EndStream
  <2>2. codeRounds = 0 => toolCalls = <<>> /\ owed = dropped + Len(calls)
    BY <1>0, <2>1, Streaming
  <2>3. CASE calls = <<>>
    BY <1>0, <2>1, <2>2, <2>3 DEF Owing, Waited, Unrun
  <2>4. CASE calls # <<>>
    <3>1. codeRounds = 0 => toolCalls' = <<calls>>
      BY <2>1, <2>2, <2>4
    <3>2. Head(<<calls>>) = calls /\ Len(<<calls>>) = 1 /\ <<calls>> # <<>>
      OBVIOUS
    <3>3. codeRounds = 0 => Len(toolCalls') <= 1
      <4>1. Len(<<calls>>) <= 1
        OBVIOUS
      <4> QED
        BY <3>1, <4>1
    <3>4. codeRounds = 0 => Waited' = Len(calls') + Len(calls)
      BY <3>1, <3>2 DEF Waited
    <3>5. Unrun' = 0 /\ Len(calls') = 0
      BY <1>0, <2>1 DEF Unrun
    <3>6. codeRounds = 0 => owed' = dropped' + Waited' + Unrun'
      BY <1>0, <2>1, <2>2, <3>4, <3>5
    <3>7. loop' \in {"first", "tools"} => codeRounds' = 0
      BY <2>1 DEF Owing
    <3> QED
      BY <2>1, <3>3, <3>6, <3>7 DEF Owing
  <2> QED
    BY <2>3, <2>4
<1>11. CASE NextTools
  <2>1. toolCalls # <<>> /\ loop = "tools" /\ at = "next" /\ codeRounds = 0
    BY <1>11 DEF NextTools, MoreTools, Owing
  <2>2. Len(Tail(toolCalls)) = Len(toolCalls) - 1 /\ Tail(toolCalls) \in Seq(Batch) /\ Head(toolCalls) \in Batch
    BY <1>0, <2>1, BatchQueue
  <2>3. Len(toolCalls) <= 1 /\ owed = dropped + Len(calls) + Len(Head(toolCalls)) /\ calls = <<>>
    BY <1>0, <2>1, <2>2 DEF Owing, Waited, Unrun, Batch
  <2>4. Tail(toolCalls) = <<>>
    BY <1>0, <2>2, <2>3
  <2>5. at' = "tool" /\ toolCalls' = <<>> /\ results' = <<>>
        /\ UNCHANGED <<loop, calls, codeRounds, owed, dropped>>
    BY <1>11, <2>4 DEF NextTools
  <2>6. Last(blocks').calls = Head(toolCalls)
    BY <1>0, <1>11, <2>2, ToolsBegin DEF NextTools
  <2>7. Len(Head(toolCalls)) \in Nat
    BY <2>2 DEF Batch
  <2>8. Waited' = 0 /\ Unrun' = Len(Head(toolCalls))
    BY <1>0, <2>3, <2>5, <2>6, <2>7 DEF Waited, Unrun
  <2> QED
    BY <1>0, <2>1, <2>3, <2>5, <2>7, <2>8 DEF Owing
<1>12. CASE RunTool
  <2>1. /\ at = "tool" /\ at' = at /\ owed' = owed - 1 /\ Len(results') = Len(results) + 1
        /\ UNCHANGED <<loop, blocks, calls, toolCalls, codeRounds, dropped>>
    BY <1>0, <1>12 DEF RunTool
  <2>2. codeRounds = 0
    BY <2>1 DEF Loops, Owing
  <2>3. Last(blocks) \in ABlock
    BY <1>0, Split
  <2>4. Len(Last(blocks).calls) \in Nat /\ Len(results) \in Nat
    BY <1>0, <2>3 DEF ABlock
  <2>5. Waited' = Waited /\ Unrun' = Unrun - 1 /\ Unrun \in Int
    BY <2>1, <2>4 DEF Waited, Unrun
  <2> QED
    BY <1>0, <2>1, <2>2, <2>5 DEF Owing
<1>13. CASE ToolsRun
  <2>1. /\ at = "tool" /\ at' = "request" /\ Len(results) = Len(Last(blocks).calls)
        /\ UNCHANGED <<loop, calls, toolCalls, codeRounds, owed, dropped>>
    BY <1>13 DEF ToolsRun
  <2>2. Unrun = 0 /\ Unrun' = 0 /\ Waited' = Waited
    BY <1>0, <2>1 DEF Unrun, Waited
  <2> QED
    BY <2>1, <2>2 DEF Owing
<1>14. CASE Resume
  <2>1. /\ at = "request" /\ at' = "stream" /\ calls' = <<>>
        /\ UNCHANGED <<loop, toolCalls, codeRounds, owed, dropped>>
    BY <1>14 DEF Resume, OpenStream
  <2> QED
    BY <2>1 DEF Owing, Waited, Unrun
<1>15. CASE NextCode
  <2>1. codeRounds' > 0 /\ loop' = "code" /\ at = "next" /\ calls' = calls
    BY <1>0, <1>15 DEF NextCode, NextCodeRound
  <2> QED
    BY <1>0, <2>1 DEF Owing
<1>16. CASE RunCode
  <2>1. /\ at = "code" /\ at' = "request"
        /\ UNCHANGED <<loop, calls, toolCalls, codeRounds, owed, dropped>>
    BY <1>16 DEF RunCode
  <2> QED
    BY <2>1 DEF Owing, Waited, Unrun
<1>17. CASE Finish \/ SaveWhole \/ BackgroundDone
  <2>1. /\ at \in {"next", "whole", "background"} /\ at' \in {"background", "ended"}
        /\ UNCHANGED <<loop, calls, toolCalls, codeRounds, owed, dropped>>
    BY <1>17 DEF Finish, SaveWhole, BackgroundDone
  <2> QED
    BY <2>1 DEF Owing, Waited, Unrun
<1>20. CASE Cancel \/ SaveCancelled \/ CancelAgain
  <2>1. at' \in {"cancelling", "ended"} /\ UNCHANGED <<loop, codeRounds>>
    BY <1>20 DEF Cancel, SaveCancelled, CancelAgain
  <2> QED
    BY <2>1 DEF Owing
<1>21. CASE Done
  BY <1>21 DEF Done, vars, Owing, Waited, Unrun
<1> QED
  BY <1>1, <1>2, <1>3, <1>4, <1>7, <1>8, <1>9, <1>10, <1>11, <1>12, <1>13, <1>14,
     <1>15, <1>16, <1>17, <1>20, <1>21 DEF Next, Receive, Step

LEMMA InOrderStep ==
  ASSUME Types, Loops, InOrder, AllThere, Next
  PROVE  InOrder'
<1> USE DEF parse, stream, rounds, account
<1>0. blocks \in Blocks /\ blocks # <<>>
  BY DEF Types, TypeOK
<1>1. CASE ShowWhole
  BY <1>1 DEF ShowWhole, InOrder
<1>2. CASE NoAnswer
  BY <1>2 DEF NoAnswer, InOrder
<1>3. ASSUME NEW d \in Deltas, TextDelta(d)
      PROVE  InOrder'
  <2>1. Receives(blocks') /\ at' \in {"closing", "stream"}
    BY <1>3, TextParsed
  <2> QED
    BY <2>1 DEF Receives, InOrder, KnownLast
<1>4. CASE ReasoningDelta
  <2>1. /\ at = "stream" /\ at' = at
        /\ blocks' = AddReasoning(<<Thought(10 * (deltas + 1))>>, blocks)
    BY <1>4 DEF ReasoningDelta, Receiving
  <2>2. 10 * (deltas + 1) \in Nat
    BY BoundAssumption DEF Types, TypeOK
  <2>3. Receives(blocks)
    BY <1>0, <2>1 DEF InOrder, Receives
  <2>4. Receives(blocks')
    BY <2>1, <2>2, <2>3, ReasoningAdded
  <2> QED
    BY <2>1, <2>4 DEF Receives, InOrder, KnownLast
<1>5. CASE OtherDelta \/ \E i \in CallIndex : ToolCallDelta(i)
  <2>1. at = "stream" /\ UNCHANGED <<at, blocks>>
    BY <1>5 DEF OtherDelta, ToolCallDelta, Receiving
  <2> QED
    BY <2>1 DEF InOrder, KnownLast
<1>7. CASE BreakStream
  BY <1>7 DEF BreakStream, InOrder
<1>8. CASE Refused
  BY <1>8 DEF Refused, InOrder
<1>9. CASE Start
  BY <1>9 DEF Start, InOrder, KnownLast
<1>10. CASE EndStream
  <2>1. blocks' = Tidy(blocks) /\ at \in {"stream", "closing"} /\ at' = "next"
    BY <1>10 DEF EndStream
  <2>2. AllFine(blocks)
    BY <2>1 DEF InOrder
  <2>3. AllFine(blocks')
    BY <1>0, <2>1, <2>2, Tidied
  <2> QED
    BY <2>1, <2>3 DEF InOrder
<1>11. CASE NextTools
  <2>1. toolCalls # <<>> /\ toolCalls \in Seq(Batch) /\ at = "next"
    BY <1>11 DEF NextTools, MoreTools, Types
  <2>2. Head(toolCalls) \in Batch
    BY <2>1, BatchQueue
  <2>3. /\ Front(blocks') = blocks /\ Last(blocks').text = <<>> /\ ~Last(blocks').native
        /\ Distinct(Last(blocks').calls) /\ Last(blocks').calls = Head(toolCalls)
    BY <1>0, <1>11, <2>2, ToolsBegin DEF NextTools
  <2>4. results' = <<>> /\ at' = "tool" /\ Len(Head(toolCalls)) \in Nat
    BY <1>11, <2>2 DEF NextTools, Batch
  <2>5. AllFine(Front(blocks'))
    BY <2>1, <2>3 DEF InOrder
  <2>6. Len(results') = 0
    BY <2>4
  <2>7. Running(Last(blocks))'
    BY <2>3, <2>4, <2>6 DEF Running
  <2> QED
    BY <2>4, <2>5, <2>7 DEF InOrder
<1>12. CASE RunTool
  <2> DEFINE L == Last(blocks)
  <2>1. /\ at = "tool" /\ Len(results) < Len(L.calls) /\ UNCHANGED <<at, blocks>>
        /\ results' = Append(results, L.calls[Len(results) + 1].index)
    BY <1>12 DEF RunTool
  <2>2. L.calls \in Seq(Call) /\ results \in Seq(Nat)
    <3>1. L \in ABlock
      BY <1>0, Split
    <3> QED
      BY <3>1 DEF ABlock, Types
  <2>3. AllFine(Front(blocks)) /\ Running(L)
    BY <2>1 DEF InOrder
  <2> HIDE DEF L
  <2>4. /\ Len(results) \in Nat /\ Len(L.calls) \in Nat
        /\ L.calls[Len(results) + 1].index \in Nat
    <3>1. Len(results) \in Nat /\ Len(L.calls) \in Nat /\ Len(results) + 1 \in 1 .. Len(L.calls)
      BY <2>1, <2>2
    <3>2. L.calls[Len(results) + 1] \in Call
      BY <3>1, <2>2
    <3> QED
      BY <3>1, <3>2 DEF Call
  <2>5. /\ Len(results') = Len(results) + 1
        /\ results'[Len(results) + 1] = L.calls[Len(results) + 1].index
        /\ \A j \in 1 .. Len(results) : results'[j] = results[j]
    BY <2>1, <2>2, <2>4
  <2>6. \A j \in 1 .. Len(results') : results'[j] = L.calls[j].index
    <3>1. \A j \in 1 .. Len(results') : j \in 1 .. Len(results) \/ j = Len(results) + 1
      BY <2>4, <2>5
    <3> QED
      BY <3>1, <2>3, <2>5 DEF Running
  <2>7. L' = L
    BY <2>1 DEF L
  <2>8. Running(L)'
    BY <2>1, <2>3, <2>4, <2>5, <2>6, <2>7 DEF Running
  <2> QED
    BY <2>1, <2>3, <2>8 DEF InOrder, L
<1>13. CASE ToolsRun
  <2>1. AllFine(blocks') /\ Last(blocks') = TextBlock(<<>>) /\ at' = "request"
    BY <1>13, ResultsSaved DEF ToolsRun
  <2> QED
    BY <2>1 DEF InOrder
<1>14. CASE Resume
  <2>1. at' = "stream" /\ blocks' = blocks /\ AllFine(blocks) /\ Last(blocks) = TextBlock(<<>>)
    BY <1>14 DEF Resume, InOrder
  <2> QED
    BY <2>1, TextBlockIs DEF InOrder, KnownLast
<1>15. CASE NextCode
  BY <1>15 DEF NextCode, InOrder
<1>16. CASE RunCode
  <2>1. AllFine(blocks') /\ Last(blocks') = TextBlock(<<>>) /\ at' = "request"
    BY <1>16, OutputSaved DEF RunCode
  <2> QED
    BY <2>1 DEF InOrder
<1>17. CASE Finish
  BY <1>17 DEF Finish, InOrder
<1>18. CASE SaveWhole
  BY <1>18 DEF SaveWhole, InOrder
<1>19. CASE BackgroundDone
  BY <1>19 DEF BackgroundDone, InOrder
<1>20. CASE Cancel
  BY <1>20 DEF Cancel, InOrder
<1>22. CASE SaveCancelled
  BY <1>22 DEF SaveCancelled, InOrder
<1>23. CASE CancelAgain
  BY <1>23 DEF CancelAgain, InOrder
<1>21. CASE Done
  BY <1>21 DEF Done, vars, InOrder, KnownLast, Running
<1> QED
  BY <1>1, <1>2, <1>3, <1>4, <1>5, <1>7, <1>8, <1>9, <1>10, <1>11, <1>12, <1>13, <1>14,
     <1>15, <1>16, <1>17, <1>18, <1>19, <1>20, <1>21, <1>22, <1>23 DEF Next, Receive, Step

LEMMA FirstRest == Init => InOrder /\ AllThere /\ ShownIsHeard /\ SavedInTime
<1> SUFFICES ASSUME Init
             PROVE  InOrder /\ AllThere /\ ShownIsHeard /\ SavedInTime
  OBVIOUS
<1> DEFINE b == TextBlock(content)
<1>1. content \in Text
  BY FirstTypes DEF Types
<1>2. b \in ABlock /\ Fine(b) /\ b.type = "text" /\ b.text = content
  BY <1>1, NewBlocks
<1>3. blocks = <<b>> /\ heard = content /\ at = "start" /\ loop = "first" /\ told = {}
      /\ pending = Nothing /\ page = Full(blocks) /\ saved = Rendered(blocks)
  BY DEF Init
<1> HIDE DEF b
<1>4. blocks \in Blocks /\ Len(blocks) = 1 /\ blocks[1] = b /\ Last(blocks) = b
  BY <1>2, <1>3 DEF Blocks, Last
<1>5. Tokens(blocks) = ToSet(content)
  <2>1. DOMAIN blocks = {1}
    BY <1>3
  <2> QED
    BY <2>1, <1>2, <1>4 DEF Tokens
<1>6. InOrder
  BY <1>2, <1>3, <1>4, TextDiffers DEF InOrder, AllFine, KnownLast
<1>7. AllThere
  BY <1>2, <1>3, <1>4, <1>5 DEF AllThere, NothingDropped, LastInContent, Pieces
<1>8. ShownIsHeard
  BY <1>3, <1>4, <1>5, DataMade, NoBlocks DEF ShownIsHeard
<1>9. SavedInTime
  <2>1. Tokens(saved) = ToSet(heard)
    BY <1>3, <1>4, <1>5, RenderedKeeps
  <2> QED
    BY <2>1, <1>3 DEF SavedInTime, SavedAsReceived
<1> QED
  BY <1>6, <1>7, <1>8, <1>9

LEMMA SameText ==
  ASSUME AllThere, UNCHANGED <<content, heard, late>>, Tokens(blocks') = Tokens(blocks),
         at' \in {"start", "stream"} => \/ at \in {"start", "stream"} /\ blocks' = blocks
                                        \/ Last(blocks') = TextBlock(<<>>)
  PROVE  AllThere'
BY TextBlockIs DEF AllThere, NothingDropped, Regular, NothingBegins, LastInContent, Pieces

LEMMA AllThereStep ==
  ASSUME Types, Loops, InOrder, AllThere, Next
  PROVE  AllThere'
<1> USE DEF parse, stream, rounds, account
<1>0. blocks \in Blocks /\ blocks # <<>> /\ heard \in Text
  BY DEF Types, TypeOK
<1>1. CASE ShowWhole
  BY <1>1, SameText DEF ShowWhole
<1>2. CASE NoAnswer
  BY <1>2, SameText DEF NoAnswer
<1>3. ASSUME NEW d \in Deltas, TextDelta(d)
      PROVE  AllThere'
  <2>1. /\ Tokens(blocks') \union ToSet(content') \subseteq ToSet(heard')
        /\ Regular' => LastInContent(blocks', content') /\ Pieces(ToSet(heard')) \subseteq Tokens(blocks')
    BY <1>3, TextParsed
  <2> QED
    BY <2>1 DEF AllThere, NothingDropped, LastInContent, Pieces
<1>4. CASE ReasoningDelta
  <2> DEFINE t == Thought(10 * (deltas + 1))
  <2>1. /\ at = "stream" /\ UNCHANGED <<content, late>>
        /\ blocks' = AddReasoning(<<t>>, blocks)
        /\ heard' = heard \o <<t>>
    BY <1>4 DEF ReasoningDelta, Receiving
  <2>2. 10 * (deltas + 1) \in Nat
    BY BoundAssumption DEF Types, TypeOK
  <2>3. Receives(blocks)
    BY <1>0, <2>1 DEF InOrder, Receives
  <2>4. Last(blocks').type = "reasoning" /\ Tokens(blocks') = Tokens(blocks) \union {t}
    BY <2>1, <2>2, <2>3, ReasoningAdded
  <2>5. ToSet(heard') = ToSet(heard) \union {t}
    <3>1. <<t>> \in Text
      BY <2>2 DEF Text, Token
    <3>2. ToSet(<<t>>) = {t}
      <4> HIDE DEF t
      <4>1. DOMAIN <<t>> = {1} /\ <<t>>[1] = t
        OBVIOUS
      <4> QED
        BY <4>1 DEF ToSet
    <3> HIDE DEF t
    <3> QED
      BY <3>1, <3>2, <2>1, <1>0, Joined
  <2>6. LastInContent(blocks', content')
    BY <2>4 DEF LastInContent
  <2>7. Regular' => Regular
    BY <2>1 DEF Regular, NothingBegins
  <2> HIDE DEF t
  <2>8. NothingDropped'
    BY <2>4, <2>5, <2>7 DEF NothingDropped, AllThere, Pieces
  <2>9. Tokens(blocks') \union ToSet(content') \subseteq ToSet(heard')
    BY <2>1, <2>4, <2>5 DEF AllThere
  <2> QED
    BY <2>6, <2>8, <2>9 DEF AllThere, LastInContent, Pieces
<1>5. CASE OtherDelta \/ \E i \in CallIndex : ToolCallDelta(i)
  <2>1. at = "stream" /\ UNCHANGED <<at, parse>>
    BY <1>5 DEF OtherDelta, ToolCallDelta, Receiving
  <2> QED
    BY <2>1, SameText
<1>7. CASE BreakStream
  <2>1. at' \in {"ended", "next"} /\ UNCHANGED parse
    BY <1>7 DEF BreakStream
  <2> QED
    BY <2>1, SameText
<1>8. CASE Refused
  BY <1>8, SameText DEF Refused
<1>9. CASE Start
  BY <1>9, SameText DEF Start
<1>10. CASE EndStream
  <2>1. /\ blocks' = Tidy(blocks) /\ at \in {"stream", "closing"} /\ at' = "next"
        /\ UNCHANGED <<content, heard, late>>
    BY <1>10 DEF EndStream
  <2>2. AllFine(blocks)
    BY <2>1 DEF InOrder
  <2>3. Tokens(blocks') = Tokens(blocks)
    BY <1>0, <2>1, <2>2, Tidied
  <2> QED
    BY <2>1, <2>3, SameText
<1>11. CASE NextTools
  <2>1. toolCalls # <<>> /\ toolCalls \in Seq(Batch)
    BY <1>11 DEF NextTools, MoreTools, Types
  <2>2. Head(toolCalls) \in Batch
    BY <2>1, BatchQueue
  <2>3. Tokens(blocks') = Tokens(blocks)
    BY <1>0, <1>11, <2>2, ToolsBegin DEF NextTools
  <2> QED
    BY <1>11, <2>3, SameText DEF NextTools
<1>12. CASE RunTool
  BY <1>12, SameText DEF RunTool
<1>13. CASE ToolsRun
  <2>1. Tokens(blocks') = Tokens(blocks)
    BY <1>13, ResultsSaved DEF ToolsRun
  <2> QED
    BY <1>13, <2>1, SameText DEF ToolsRun
<1>14. CASE Resume
  <2>1. Last(blocks) = TextBlock(<<>>)
    BY <1>14 DEF Resume, InOrder
  <2> QED
    BY <1>14, <2>1, SameText DEF Resume
<1>15. CASE NextCode
  BY <1>15, SameText DEF NextCode
<1>16. CASE RunCode
  <2>1. Tokens(blocks') = Tokens(blocks)
    <3>1. PICK output \in BOOLEAN :
            blocks' = Append(WithLast(blocks, [Last(blocks) EXCEPT !.done = output]), TextBlock(<<>>))
      BY <1>16 DEF RunCode
    <3>2. at = "code"
      BY <1>16 DEF RunCode
    <3> QED
      BY <3>1, <3>2, OutputSaved
  <2> QED
    BY <1>16, <2>1, SameText DEF RunCode
<1>17. CASE Finish
  BY <1>17, SameText DEF Finish
<1>18. CASE SaveWhole
  BY <1>18, SameText DEF SaveWhole
<1>19. CASE BackgroundDone
  BY <1>19, SameText DEF BackgroundDone
<1>20. CASE Cancel
  BY <1>20, SameText DEF Cancel
<1>22. CASE SaveCancelled
  BY <1>22, SameText DEF SaveCancelled
<1>23. CASE CancelAgain
  BY <1>23, SameText DEF CancelAgain
<1>21. CASE Done
  BY <1>21, SameText DEF Done, vars
<1> QED
  BY <1>1, <1>2, <1>3, <1>4, <1>5, <1>7, <1>8, <1>9, <1>10, <1>11, <1>12, <1>13, <1>14,
     <1>15, <1>16, <1>17, <1>18, <1>19, <1>20, <1>21, <1>22, <1>23 DEF Next, Receive, Step

(* What is emitted: the blocks.                                            *)
LEMMA BlocksEmitted ==
  ASSUME page \in Data, NEW bs \in Blocks, EmitBlocks(bs)
  PROVE  /\ Tokens(page'.blocks) \subseteq Tokens(page.blocks) \union Tokens(bs)
         /\ page.raw = <<>> => page'.raw = <<>>
BY DataMade, ShownMade DEF EmitBlocks

LEMMA ShownIsHeardStep ==
  ASSUME Types, Loops, InOrder, AllThere, ShownIsHeard, Next, Types', AllThere'
  PROVE  ShownIsHeard'
<1> USE DEF parse, stream, rounds, account
<1>0. /\ blocks \in Blocks /\ blocks' \in Blocks /\ heard \in Text /\ page \in Data /\ pending \in Data
      /\ unsent \in 0 .. ChunkSize - 1
  BY DEF Types, TypeOK
<1>a. Tokens(blocks) \subseteq ToSet(heard) /\ Tokens(blocks') \subseteq ToSet(heard')
  BY DEF AllThere
<1> SUFFICES ASSUME ~realtime', loop' # "whole"
             PROVE  /\ Tokens(page'.blocks) \union Tokens(pending'.blocks) \subseteq ToSet(heard')
                    /\ page'.raw = <<>> /\ pending'.raw = <<>>
  BY DEF ShownIsHeard
<1> DEFINE H == /\ Tokens(page'.blocks) \union Tokens(pending'.blocks) \subseteq ToSet(heard')
                /\ page'.raw = <<>> /\ pending'.raw = <<>>
<1>b. loop # "whole" /\ ~realtime =>
        /\ Tokens(page.blocks) \union Tokens(pending.blocks) \subseteq ToSet(heard)
        /\ page.raw = <<>> /\ pending.raw = <<>>
  BY DEF ShownIsHeard
<1>c. Nothing.blocks = <<>> /\ Nothing.raw = <<>> /\ Tokens(<<>>) = {}
  BY DataMade, NoBlocks
<1>1. CASE ShowWhole \/ NoAnswer
  BY <1>1 DEF ShowWhole, NoAnswer
<1>3. ASSUME NEW d \in Deltas, TextDelta(d)
      PROVE  H
  <2>0. UNCHANGED <<loop, realtime>>
    BY <1>3 DEF TextDelta, Receiving
  <2>1. ToSet(heard) \subseteq ToSet(heard')
    BY <1>3, TextParsed
  <2>2. CASE UNCHANGED <<saved, page, pending, unsent>>
    BY <2>0, <2>1, <2>2, <1>b
  <2>3. ASSUME NEW v \in Text, Deliver(IF realtime THEN Raw(v) ELSE Full(blocks'))
        PROVE  H
    <3>1. Deliver(Full(blocks')) /\ Full(blocks') \in Data /\ Full(blocks').raw = <<>>
          /\ Tokens(Full(blocks').blocks) = Tokens(blocks')
      BY <2>0, <2>3, <1>0, DataMade
    <3> DEFINE data == Full(blocks')
    <3> HIDE DEF data
    <3>2. /\ Tokens(page'.blocks) \union Tokens(pending'.blocks)
               \subseteq Tokens(page.blocks) \union Tokens(pending.blocks) \union Tokens(data.blocks)
          /\ page.raw = <<>> /\ data.raw = <<>> => page'.raw = <<>>
          /\ pending.raw = <<>> /\ data.raw = <<>> => pending'.raw = <<>>
      BY <1>0, <3>1, Delivered DEF data
    <3> QED
      BY <2>0, <2>1, <3>1, <3>2, <1>a, <1>b DEF data
  <2> QED
    BY <2>2, <2>3, <1>3, TextParsed
<1>4. CASE ReasoningDelta
  <2>1. /\ UNCHANGED <<loop, realtime>> /\ Deliver(Full(blocks'))
        /\ heard' = heard \o <<Thought(10 * (deltas + 1))>>
    BY <1>4 DEF ReasoningDelta, Receiving
  <2>2. ToSet(heard) \subseteq ToSet(heard')
    <3>0. 10 * (deltas + 1) \in Nat
      BY BoundAssumption DEF Types, TypeOK
    <3>1. <<Thought(10 * (deltas + 1))>> \in Text
      BY <3>0 DEF Text, Token
    <3> QED
      BY <3>1, <2>1, <1>0, Joined
  <2>3. Full(blocks') \in Data /\ Full(blocks').raw = <<>> /\ Tokens(Full(blocks').blocks) = Tokens(blocks')
    BY <1>0, DataMade
  <2> DEFINE data == Full(blocks')
  <2> HIDE DEF data
  <2>4. /\ Tokens(page'.blocks) \union Tokens(pending'.blocks)
             \subseteq Tokens(page.blocks) \union Tokens(pending.blocks) \union Tokens(data.blocks)
        /\ page.raw = <<>> /\ data.raw = <<>> => page'.raw = <<>>
        /\ pending.raw = <<>> /\ data.raw = <<>> => pending'.raw = <<>>
    BY <1>0, <2>1, <2>3, Delivered DEF data
  <2> QED
    BY <2>1, <2>2, <2>3, <2>4, <1>a, <1>b DEF data
<1>5. CASE OtherDelta \/ \E i \in CallIndex : ToolCallDelta(i)
  <2>1. UNCHANGED <<loop, realtime, heard>> /\ Deliver(Raw(<<>>))
    BY <1>5 DEF OtherDelta, ToolCallDelta, Receiving
  <2>2. Raw(<<>>) \in Data /\ Raw(<<>>).blocks = <<>> /\ Raw(<<>>).raw = <<>>
    BY DataMade, NoBlocks
  <2> DEFINE data == Raw(<<>>)
  <2> HIDE DEF data
  <2>4. /\ Tokens(page'.blocks) \union Tokens(pending'.blocks)
             \subseteq Tokens(page.blocks) \union Tokens(pending.blocks) \union Tokens(data.blocks)
        /\ page.raw = <<>> /\ data.raw = <<>> => page'.raw = <<>>
        /\ pending.raw = <<>> /\ data.raw = <<>> => pending'.raw = <<>>
    BY <1>0, <2>1, <2>2, Delivered DEF data
  <2> QED
    BY <2>1, <2>2, <2>4, <1>b, <1>c DEF data
<1>7. CASE BreakStream
  <2>1. pending' = Nothing /\ loop # "whole" /\ UNCHANGED <<realtime, heard, page>>
    BY <1>7 DEF BreakStream, OpenStream, Loops
  <2> QED
    BY <2>1, <1>b, <1>c
<1>8. CASE Refused
  <2>1. loop # "whole" /\ UNCHANGED <<realtime, heard, page, pending>>
    BY <1>8 DEF Refused, Loops
  <2> QED
    BY <2>1, <1>b
<1>9. CASE Start \/ RunTool \/ BackgroundDone \/ Cancel \/ SaveCancelled \/ CancelAgain \/ Done
  <2>1. UNCHANGED <<loop, realtime, heard, page, pending>>
    BY <1>9 DEF Start, RunTool, BackgroundDone, Cancel, SaveCancelled, CancelAgain, Done, vars
  <2> QED
    BY <2>1, <1>b
<1>10. CASE EndStream
  <2>1. /\ pending' = Nothing /\ loop # "whole" /\ UNCHANGED <<realtime, heard>>
        /\ page' = Shown(page, pending)
    BY <1>10 DEF EndStream, Loops
  <2>2. /\ Tokens(page'.blocks) \subseteq Tokens(page.blocks) \union Tokens(pending.blocks)
        /\ page.raw = <<>> /\ pending.raw = <<>> => page'.raw = <<>>
    BY <1>0, <2>1, ShownMade
  <2> QED
    BY <2>1, <2>2, <1>b, <1>c
<1>11. CASE NextTools \/ ToolsRun \/ NextCode \/ RunCode \/ Finish
  <2>1. /\ EmitBlocks(blocks') /\ UNCHANGED <<realtime, heard, pending>> /\ loop # "whole"
    BY <1>11 DEF NextTools, ToolsRun, NextCode, RunCode, Finish, EmitBlocks, Loops
  <2>2. /\ Tokens(page'.blocks) \subseteq Tokens(page.blocks) \union Tokens(blocks')
        /\ page.raw = <<>> => page'.raw = <<>>
    BY <1>0, <2>1, BlocksEmitted
  <2> QED
    BY <2>1, <2>2, <1>a, <1>b
<1>14. CASE Resume
  <2>1. pending' = Nothing /\ UNCHANGED <<loop, realtime, heard, page>>
    BY <1>14 DEF Resume, OpenStream
  <2> QED
    BY <2>1, <1>b, <1>c
<1>18. CASE SaveWhole
  BY <1>18 DEF SaveWhole, Loops
<1> QED
  BY <1>1, <1>3, <1>4, <1>5, <1>7, <1>8, <1>9, <1>10, <1>11, <1>14, <1>18 DEF Next, Receive, Step

LEMMA SavedInTimeStep ==
  ASSUME Types, Loops, InOrder, AllThere, SavedInTime, Next, Types', AllThere'
  PROVE  SavedInTime'
<1> USE DEF parse, stream, rounds, account
<1> DEFINE S == {t \in ToSet(heard) : t[1] = "text"}
<1>0. blocks \in Blocks /\ blocks' \in Blocks /\ heard \in Text
  BY DEF Types
<1>1. CASE ShowWhole \/ NoAnswer
  BY <1>1 DEF ShowWhole, NoAnswer, SavedInTime, SavedAsReceived
<1>3. ASSUME NEW d \in Deltas, TextDelta(d)
      PROVE  SavedInTime'
  <2>1. at' \in {"closing", "stream"}
    BY <1>3, TextParsed
  <2>2. CASE at' = "closing"
    BY <2>2 DEF SavedInTime, SavedAsReceived
  <2>3. CASE at' = "stream" /\ SaveNow(blocks')
    <3>1. Regular' => Pieces(ToSet(heard')) \subseteq Tokens(blocks')
      BY DEF AllThere, NothingDropped
    <3>2. realtime' => saved' = Rendered(blocks')
      <4>1. realtime' = realtime
        BY <1>3 DEF TextDelta, Receiving
      <4> QED
        BY <4>1, <2>3 DEF SaveNow
    <3>3. Tokens(Rendered(blocks')) = Tokens(blocks')
      BY <1>0, RenderedKeeps
    <3>4. SavedAsReceived'
      BY <3>1, <3>2, <3>3 DEF SavedAsReceived, Pieces
    <3> QED
      BY <2>3, <3>4 DEF SavedInTime
  <2> QED
    BY <2>1, <2>2, <2>3, <1>3, TextParsed
<1>4. CASE ReasoningDelta
  <2> DEFINE t == Thought(10 * (deltas + 1))
  <2>1. /\ at = "stream" /\ UNCHANGED <<at, loop, realtime, saved, late>>
        /\ heard' = heard \o <<t>>
    BY <1>4 DEF ReasoningDelta, Receiving
  <2>2. ToSet(heard') = ToSet(heard) \union {t}
    <3>0. 10 * (deltas + 1) \in Nat
      BY BoundAssumption DEF Types, TypeOK
    <3>1. <<t>> \in Text
      BY <3>0 DEF Text, Token
    <3>2. ToSet(<<t>>) = {t}
      <4> HIDE DEF t
      <4>1. DOMAIN <<t>> = {1} /\ <<t>>[1] = t
        OBVIOUS
      <4> QED
        BY <4>1 DEF ToSet
    <3> HIDE DEF t
    <3> QED
      BY <3>1, <3>2, <2>1, <1>0, Joined
  <2>3. t[1] = "thought"
    BY DEF Thought
  <2>4. Regular' => Regular
    BY <2>1 DEF Regular, NothingBegins
  <2> HIDE DEF t
  <2>5. SavedAsReceived'
    BY <2>1, <2>2, <2>3, <2>4 DEF SavedInTime, SavedAsReceived
  <2> QED
    BY <2>1, <2>5 DEF SavedInTime
<1>5. CASE OtherDelta \/ \E i \in CallIndex : ToolCallDelta(i)
  <2>1. at = "stream" /\ UNCHANGED <<at, loop, realtime, saved, heard, late>>
    BY <1>5 DEF OtherDelta, ToolCallDelta, Receiving
  <2> QED
    BY <2>1 DEF SavedInTime, SavedAsReceived, Regular, NothingBegins
<1>7. CASE BreakStream
  <2>1. /\ at = "stream" /\ UNCHANGED <<realtime, saved, heard, late>>
        /\ \/ at' = "ended" /\ "error" \in told' /\ loop' = loop
           \/ at' = "next" /\ loop' \in {"code", "none"}
    BY <1>7 DEF BreakStream, AfterLoop
  <2> QED
    BY <2>1 DEF SavedInTime, SavedAsReceived, Regular, NothingBegins
<1>8. CASE Refused \/ EndStream \/ NextTools \/ ToolsRun \/ RunTool \/ Resume \/ NextCode \/ RunCode
  <2>1. loop' # "first" /\ at' \notin {"background", "ended"}
    BY <1>8 DEF Refused, EndStream, NextTools, ToolsRun, RunTool, Resume, NextCode, RunCode, Loops, AfterLoop
  <2> QED
    BY <2>1 DEF SavedInTime, SavedAsReceived
<1>9. CASE Start
  BY <1>9 DEF Start, SavedInTime, SavedAsReceived, Regular, NothingBegins
<1>17. CASE Finish
  <2>1. ~realtime' => saved' = Rendered(blocks')
    BY <1>17 DEF Finish, SaveAtEnd
  <2>2. loop' # "first"
    BY <1>17 DEF Finish, Loops
  <2> QED
    BY <2>1, <2>2 DEF SavedInTime, SavedAsReceived
<1>18. CASE SaveWhole
  <2>1. loop' = "whole"
    BY <1>18 DEF SaveWhole, Loops
  <2> QED
    BY <2>1 DEF SavedInTime, SavedAsReceived
<1>19. CASE BackgroundDone
  BY <1>19 DEF BackgroundDone, SavedInTime, SavedAsReceived, Regular, NothingBegins
<1>20. CASE Cancel
  <2>1. /\ UNCHANGED <<loop, realtime, heard, late, saved>> /\ at # "closing"
        /\ at' = (IF loop = "whole" THEN "ended" ELSE "cancelling")
    BY <1>20 DEF Cancel
  <2>2. SavedAsReceived'
    BY <2>1 DEF SavedInTime, SavedAsReceived, Regular, NothingBegins
  <2> QED
    BY <2>1, <2>2 DEF SavedInTime
<1>22. CASE SaveCancelled
  <2>1. /\ UNCHANGED <<loop, realtime, heard, late, blocks>> /\ at # "closing"
        /\ saved' = IF realtime THEN saved ELSE Rendered(blocks)
    BY <1>22 DEF SaveCancelled, CancelSaves, SaveAtEnd
  <2>2. ~realtime' => saved' = Rendered(blocks')
    BY <2>1
  <2>3. SavedAsReceived'
    BY <2>1 DEF SavedInTime, SavedAsReceived, Regular, NothingBegins
  <2> QED
    BY <2>2, <2>3 DEF SavedInTime
<1>23. CASE CancelAgain
  <2>1. /\ UNCHANGED <<loop, realtime, heard, late, saved>> /\ at # "closing" /\ "again" \in told'
    BY <1>23 DEF CancelAgain
  <2>2. SavedAsReceived'
    BY <2>1 DEF SavedInTime, SavedAsReceived, Regular, NothingBegins
  <2> QED
    BY <2>1, <2>2 DEF SavedInTime
<1>21. CASE Done
  BY <1>21 DEF Done, vars, SavedInTime, SavedAsReceived, Regular, NothingBegins
<1> QED
  BY <1>1, <1>3, <1>4, <1>5, <1>7, <1>8, <1>9, <1>17, <1>18, <1>19, <1>20, <1>21, <1>22, <1>23
  DEF Next, Receive, Step

-----------------------------------------------------------------------------
(* What the model is told. *)

Message == [role : {"assistant", "tool"}, content : Blocks, calls : Seq(Call), answers : Nat]
Told == [messages : Seq(Message), blocks : Blocks]

LEMMA MessageAdded ==
  ASSUME NEW acc \in Told, NEW b \in ABlock
  PROVE  AddMessage(acc, b) \in Told
<1>0. /\ acc.messages \in Seq(Message) /\ acc.blocks \in Blocks
      /\ b.calls \in Seq(Call) /\ b.results \in Seq(Nat)
      /\ acc = [messages |-> acc.messages, blocks |-> acc.blocks]
  BY DEF Told, ABlock
<1>1. CASE b.type = "tool_calls"
  <2> DEFINE a == Assistant(acc.blocks, b.calls)
             rs == [i \in DOMAIN b.results |-> ToolResult(b.results[i])]
  <2>1. a \in Message
    <3>1. Rendered(acc.blocks) \in Blocks
      BY <1>0, RenderedKeeps
    <3> QED
      BY <3>1, <1>0 DEF Assistant, Message
  <2>2. rs \in Seq(Message)
    <3>1. \A i \in 1 .. Len(b.results) : ToolResult(b.results[i]) \in Message
      BY <1>0, NoBlocks, EmptySeq DEF ToolResult, Message
    <3>2. DOMAIN b.results = 1 .. Len(b.results) /\ Len(b.results) \in Nat
      BY <1>0
    <3> QED
      BY <3>1, <3>2
  <2>3. acc.messages \o <<a>> \o rs \in Seq(Message)
    <3> HIDE DEF a, rs
    <3> QED
      BY <2>1, <2>2, <1>0
  <2> QED
    BY <1>1, <2>3, NoBlocks DEF AddMessage, Told
<1>2. CASE b.type # "tool_calls"
  <2>1. AddMessage(acc, b) = [messages |-> acc.messages, blocks |-> Append(acc.blocks, b)]
    BY <1>0, <1>2 DEF AddMessage
  <2>2. Append(acc.blocks, b) \in Blocks
    BY <1>0, Added
  <2> QED
    BY <1>0, <2>1, <2>2 DEF Told
<1> QED
  BY <1>1, <1>2

LEMMA MessagesStep ==
  ASSUME NEW bs \in Blocks
  PROVE  /\ MessagesUpTo(bs) \in [0 .. Len(bs) -> Told]
         /\ MessagesUpTo(bs)[0] = [messages |-> <<>>, blocks |-> <<>>]
         /\ \A n \in 1 .. Len(bs) : MessagesUpTo(bs)[n] = AddMessage(MessagesUpTo(bs)[n - 1], bs[n])
<1> DEFINE base == [messages |-> <<>>, blocks |-> <<>>]
           Eq(f) == [n \in 0 .. Len(bs) |-> IF n = 0 THEN base ELSE AddMessage(f[n - 1], bs[n])]
           step == [n \in 1 .. Len(bs) |-> [x \in Told |-> AddMessage(x, bs[n])]]
<1>0. Len(bs) \in Nat /\ \A n \in 1 .. Len(bs) : bs[n] \in ABlock
  BY DEF Blocks
<1>a. base \in Told
  BY EmptySeq, NoBlocks DEF Told
<1>1. step \in [1 .. Len(bs) -> [Told -> Told]]
  BY <1>0, MessageAdded
<1>2. \A n \in 1 .. Len(bs), x \in Told : step[n][x] = AddMessage(x, bs[n])
  OBVIOUS
<1> HIDE DEF step, base
<1>3. PICK g \in [0 .. Len(bs) -> Told] : Computed(g, base, step, Len(bs))
  BY <1>0, <1>1, <1>a, Computes
<1>4. g = Eq(g)
  <2>1. g[0] = base
    BY <1>3 DEF Computed
  <2>2. \A n \in 1 .. Len(bs) : g[n - 1] \in Told
    BY <1>0
  <2>3. \A n \in 1 .. Len(bs) : g[n] = step[n][g[n - 1]]
    BY <1>3 DEF Computed
  <2>4. \A n \in 1 .. Len(bs) : g[n] = AddMessage(g[n - 1], bs[n])
    BY <1>2, <2>2, <2>3
  <2> QED
    BY <1>0, <2>1, <2>4
<1>5. MessagesUpTo(bs) = CHOOSE f : f = Eq(f)
  BY DEF MessagesUpTo, base
<1>6. MessagesUpTo(bs) = Eq(MessagesUpTo(bs))
  <2> HIDE DEF Eq
  <2> QED
    BY <1>4, <1>5
<1> DEFINE f == MessagesUpTo(bs)
<1> HIDE DEF f
<1>7. f = Eq(f)
  BY <1>6 DEF f
<1>8. \A n \in 0 .. Len(bs) : f[n] = IF n = 0 THEN base ELSE AddMessage(f[n - 1], bs[n])
  BY <1>7
<1>9. 0 \in 0 .. Len(bs) /\ \A n \in 1 .. Len(bs) : n \in 0 .. Len(bs) /\ n # 0
  BY <1>0
<1>10. f[0] = base
  BY <1>8, <1>9
<1>11. \A n \in 1 .. Len(bs) : f[n] = AddMessage(f[n - 1], bs[n])
  BY <1>8, <1>9
<1>12. \A n \in 0 .. Len(bs) : f[n] \in Told
  <2> DEFINE P == {n \in 0 .. Len(bs) : f[n] \in Told}
  <2>1. 0 \in P
    BY <1>0, <1>10, <1>a
  <2>2. ASSUME NEW n \in 1 .. Len(bs), n - 1 \in P
        PROVE  n \in P
    <3>1. f[n - 1] \in Told /\ f[n] = AddMessage(f[n - 1], bs[n]) /\ bs[n] \in ABlock
      BY <2>2, <1>0, <1>11
    <3>2. f[n] \in Told
      BY <3>1, MessageAdded
    <3> QED
      BY <3>2, <1>0
  <2>3. 0 .. Len(bs) \subseteq P
    <3> HIDE DEF P
    <3> QED
      BY <2>1, <2>2, <1>0, Climb
  <2> QED
    BY <2>3
<1>13. f \in [0 .. Len(bs) -> Told]
  BY <1>7, <1>12
<1> QED
  BY <1>10, <1>11, <1>13 DEF f, base

(* The tokens of messages and of the first blocks.                         *)
Content(ms) == UNION {Tokens(ms[i].content) : i \in DOMAIN ms}
FirstTokens(bs, n) == UNION {ToSet(bs[i].text) : i \in 1 .. n}
Answers(rs) == [i \in DOMAIN rs |-> ToolResult(rs[i])]

LEMMA AnswersAdded ==
  ASSUME NEW ms \in Seq(Message), AnsweredOnce(ms), NEW a \in Message, NEW rs \in Seq(Nat),
         (a.calls = <<>> /\ rs = <<>>) \/ (Distinct(a.calls) /\ ResultsOf(a.calls, rs)),
         NEW r, r = ms \o <<a>> \o Answers(rs)
  PROVE  AnsweredOnce(r) /\ Content(r) = Content(ms) \union Tokens(a.content)
<1> DEFINE l == Len(ms)
           q == Answers(rs)
<1>0. l \in Nat /\ DOMAIN ms = 1 .. l /\ a.calls \in Seq(Call) /\ Len(a.calls) \in Nat /\ Len(rs) \in Nat
      /\ DOMAIN a.calls = 1 .. Len(a.calls) /\ DOMAIN rs = 1 .. Len(rs)
  BY DEF Message
<1>a. \A i \in 1 .. Len(rs) : ToolResult(rs[i]) \in Message
  BY <1>0, NoBlocks, EmptySeq DEF ToolResult, Message
<1>1. q \in Seq(Message) /\ Len(q) = Len(rs) /\ \A i \in 1 .. Len(rs) : q[i] = ToolResult(rs[i])
  <2>1. DOMAIN rs = 1 .. Len(rs) /\ Len(rs) \in Nat
    BY <1>0
  <2> QED
    BY <2>1, <1>a DEF Answers
<1>b. l \in Nat /\ Len(a.calls) \in Nat /\ Len(rs) \in Nat
  BY <1>0
<1> HIDE DEF q
<1>2. /\ r \in Seq(Message) /\ Len(r) = l + 1 + Len(rs) /\ DOMAIN r = 1 .. l + 1 + Len(rs)
      /\ \A i \in 1 .. l : r[i] = ms[i]
      /\ r[l + 1] = a
      /\ \A i \in 1 .. Len(rs) : r[l + 1 + i] = ToolResult(rs[i])
  <2> DEFINE m == ms \o <<a>>
  <2>1. m \in Seq(Message) /\ Len(m) = l + 1 /\ m[l + 1] = a /\ \A i \in 1 .. l : m[i] = ms[i]
    BY <1>0
  <2>2. r = m \o q
    BY DEF q
  <2> HIDE DEF m, l
  <2>3. /\ r \in Seq(Message) /\ Len(r) = l + 1 + Len(rs)
        /\ \A i \in 1 .. l + 1 : r[i] = m[i]
        /\ \A i \in 1 .. Len(rs) : r[l + 1 + i] = q[i]
    <3>1. /\ m \o q \in Seq(Message) /\ Len(m \o q) = Len(m) + Len(q)
          /\ \A i \in 1 .. Len(m) : (m \o q)[i] = m[i]
      <4>1. m \in Seq(Message) /\ q \in Seq(Message) /\ Len(m) \in Nat /\ Len(q) \in Nat
        BY <2>1, <1>1, <1>b
      <4>2. \A i \in 1 .. Len(m) : (m \o q)[i] = m[i]
        BY <4>1
      <4>3. m \o q \in Seq(Message) /\ Len(m \o q) = Len(m) + Len(q)
        BY <4>1
      <4> QED
        BY <4>2, <4>3
    <3>2. \A i \in 1 .. Len(q) : (m \o q)[Len(m) + i] = q[i]
      BY <2>1, <1>1, SMTT(20)
    <3> QED
      BY <2>1, <2>2, <3>1, <3>2, <1>1
  <2>4. DOMAIN r = 1 .. l + 1 + Len(rs)
    BY <2>3
  <2>5. l + 1 \in 1 .. l + 1 /\ \A i \in 1 .. l : i \in 1 .. l + 1
    BY <1>0
  <2> QED
    BY <2>1, <2>3, <2>4, <2>5, <1>1
<1> HIDE DEF l
<1>3. \A i \in 1 .. Len(rs) : ToolResult(rs[i]).calls = <<>> /\ Tokens(ToolResult(rs[i]).content) = {}
  BY NoBlocks DEF ToolResult
<1>4. \A i \in 1 .. l + 1 + Len(rs) :
         i \in 1 .. l \/ i = l + 1 \/ (i - (l + 1) \in 1 .. Len(rs) /\ i = l + 1 + (i - (l + 1)))
  BY <1>b
<1>5. AnsweredOnce(r)
  <2> SUFFICES ASSUME NEW i \in DOMAIN r, r[i].calls # <<>>, NEW j \in DOMAIN r[i].calls
               PROVE  /\ i + j \in DOMAIN r
                      /\ r[i + j] = ToolResult(r[i].calls[j].index)
                      /\ \A k \in DOMAIN r[i].calls : k # j => r[i].calls[k].index # r[i].calls[j].index
    BY DEF AnsweredOnce
  <2>0. i \in 1 .. l + 1 + Len(rs)
    BY <1>2
  <2>1. CASE i \in 1 .. l
    <3>1. r[i] = ms[i] /\ i \in DOMAIN ms
      BY <2>1, <1>0, <1>2
    <3>2. /\ i + j \in 1 .. l
          /\ ms[i + j] = ToolResult(ms[i].calls[j].index)
          /\ \A k \in DOMAIN ms[i].calls : k # j => ms[i].calls[k].index # ms[i].calls[j].index
      BY <3>1, <1>0 DEF AnsweredOnce
    <3>3. i + j \in 1 .. l + 1 + Len(rs)
      BY <3>2, <1>0
    <3>4. r[i + j] = ms[i + j] /\ i + j \in DOMAIN r
      BY <3>2, <3>3, <1>2
    <3> QED
      BY <3>1, <3>2, <3>4
  <2>2. CASE i = l + 1
    <3>1. r[i] = a /\ a.calls # <<>> /\ j \in 1 .. Len(a.calls)
      BY <2>2, <1>0, <1>2
    <3>2. Distinct(a.calls) /\ Len(rs) = Len(a.calls) /\ rs[j] = a.calls[j].index
      BY <3>1 DEF ResultsOf
    <3>a. j \in 1 .. Len(rs)
      BY <3>1, <3>2
    <3>b. i + j = l + 1 + j /\ l + 1 + j \in 1 .. l + 1 + Len(rs)
      BY <2>2, <3>a, <1>b, SMTT(20)
    <3>3. i + j \in DOMAIN r /\ i + j = l + 1 + j /\ j \in 1 .. Len(rs)
      BY <3>a, <3>b, <1>2
    <3>4. r[i + j] = ToolResult(a.calls[j].index)
      BY <3>2, <3>3, <1>2
    <3>5. \A k \in 1 .. Len(a.calls) : k # j => a.calls[k].index # a.calls[j].index
      BY <3>1, <3>2 DEF Distinct
    <3> QED
      BY <3>1, <3>3, <3>4, <3>5, <1>0
  <2>3. CASE i - (l + 1) \in 1 .. Len(rs) /\ i = l + 1 + (i - (l + 1))
    <3> DEFINE k == i - (l + 1)
    <3>1. k \in 1 .. Len(rs) /\ i = l + 1 + k
      BY <2>3
    <3> HIDE DEF k
    <3>2. r[i].calls = <<>>
      BY <3>1, <1>2, <1>3
    <3> QED
      BY <3>2
  <2> QED
    BY <2>0, <2>1, <2>2, <2>3, <1>4
<1>6. Content(r) \subseteq Content(ms) \union Tokens(a.content)
  <2> SUFFICES ASSUME NEW i \in 1 .. l + 1 + Len(rs)
               PROVE  Tokens(r[i].content) \subseteq Content(ms) \union Tokens(a.content)
    BY <1>2 DEF Content
  <2>1. CASE i \in 1 .. l
    BY <2>1, <1>0, <1>2 DEF Content
  <2>2. CASE i = l + 1
    BY <2>2, <1>2
  <2>3. CASE i - (l + 1) \in 1 .. Len(rs) /\ i = l + 1 + (i - (l + 1))
    <3> DEFINE k == i - (l + 1)
    <3>1. k \in 1 .. Len(rs) /\ i = l + 1 + k
      BY <2>3
    <3> HIDE DEF k
    <3> QED
      BY <3>1, <1>2, <1>3
  <2> QED
    BY <2>1, <2>2, <2>3, <1>4
<1>7. Content(ms) \union Tokens(a.content) \subseteq Content(r)
  <2>1. l + 1 \in DOMAIN r /\ \A i \in DOMAIN ms : i \in DOMAIN r /\ r[i] = ms[i]
    BY <1>0, <1>2
  <2> QED
    BY <2>1, <1>2 DEF Content
<1> QED
  BY <1>5, <1>6, <1>7

LEMMA MessagesComplete ==
  ASSUME NEW bs \in Blocks, AllFine(bs), NEW ms, ms = Messages(bs)
  PROVE  AnsweredOnce(ms) /\ Tokens(bs) = Content(ms)
<1> DEFINE f == MessagesUpTo(bs)
           Good(n) == /\ AnsweredOnce(f[n].messages)
                      /\ FirstTokens(bs, n) = Content(f[n].messages) \union Tokens(f[n].blocks)
           P == {n \in 0 .. Len(bs) : Good(n)}
<1>0. Len(bs) \in Nat /\ DOMAIN bs = 1 .. Len(bs) /\ \A n \in 1 .. Len(bs) : bs[n] \in ABlock
  BY DEF Blocks
<1>1. /\ f \in [0 .. Len(bs) -> Told] /\ f[0] = [messages |-> <<>>, blocks |-> <<>>]
      /\ \A n \in 1 .. Len(bs) : f[n] = AddMessage(f[n - 1], bs[n])
  BY MessagesStep
<1>2. ms = IF Rendered(f[Len(bs)].blocks) = <<>> THEN f[Len(bs)].messages
           ELSE Append(f[Len(bs)].messages, Assistant(f[Len(bs)].blocks, <<>>))
  BY DEF Messages
<1> HIDE DEF f
<1>3. 0 \in P
  <2>1. f[0].messages = <<>> /\ f[0].blocks = <<>>
    BY <1>1
  <2>2. AnsweredOnce(<<>>) /\ Content(<<>>) = {} /\ FirstTokens(bs, 0) = {}
    BY DEF AnsweredOnce, Content, FirstTokens
  <2>3. Good(0)
    BY <2>1, <2>2, NoBlocks
  <2> HIDE DEF Good
  <2> QED
    BY <2>3, <1>0
<1>4. ASSUME NEW n \in 1 .. Len(bs), n - 1 \in P
      PROVE  n \in P
  <2> DEFINE acc == f[n - 1]
             b == bs[n]
  <2>1. n - 1 \in 0 .. Len(bs) /\ n \in 0 .. Len(bs) /\ b \in ABlock /\ Fine(b)
    BY <1>0 DEF AllFine
  <2>2. acc \in Told /\ f[n] = AddMessage(acc, b)
    BY <2>1, <1>1
  <2>3. /\ AnsweredOnce(acc.messages)
        /\ FirstTokens(bs, n - 1) = Content(acc.messages) \union Tokens(acc.blocks)
    BY <1>4
  <2>4. FirstTokens(bs, n) = FirstTokens(bs, n - 1) \union ToSet(b.text)
    <3>1. \A i \in 1 .. n : i \in 1 .. n - 1 \/ i = n
      BY <1>0
    <3>2. \A i \in 1 .. n - 1 : i \in 1 .. n
      BY <1>0
    <3>3. n \in 1 .. n
      BY <1>0
    <3>4. FirstTokens(bs, n) \subseteq FirstTokens(bs, n - 1) \union ToSet(b.text)
      BY <3>1 DEF FirstTokens
    <3>5. FirstTokens(bs, n - 1) \union ToSet(b.text) \subseteq FirstTokens(bs, n)
      BY <3>2, <3>3 DEF FirstTokens
    <3> QED
      BY <3>4, <3>5
  <2>5. acc.messages \in Seq(Message) /\ acc.blocks \in Blocks
    BY <2>2 DEF Told
  <2> HIDE DEF acc, b
  <2>6. CASE b.type = "tool_calls"
    <3> DEFINE a == Assistant(acc.blocks, b.calls)
               r == acc.messages \o <<a>> \o Answers(b.results)
    <3>1. b.text = <<>> /\ Distinct(b.calls) /\ ResultsOf(b.calls, b.results)
      BY <2>1, <2>6 DEF Fine
    <3>2. Rendered(acc.blocks) \in Blocks /\ Tokens(Rendered(acc.blocks)) = Tokens(acc.blocks)
      BY <2>5, RenderedKeeps
    <3>3. b.calls \in Seq(Call) /\ b.results \in Seq(Nat)
      BY <2>1 DEF ABlock
    <3>4. a \in Message /\ a.calls = b.calls /\ a.content = Rendered(acc.blocks)
      BY <3>2, <3>3 DEF Assistant, Message
    <3> HIDE DEF a
    <3>5. AnsweredOnce(r) /\ Content(r) = Content(acc.messages) \union Tokens(a.content)
      <4>1. Distinct(a.calls) /\ ResultsOf(a.calls, b.results)
        BY <3>1, <3>4
      <4> QED
        BY <2>3, <2>5, <3>3, <3>4, <4>1, AnswersAdded
    <3>6. f[n] = [messages |-> r, blocks |-> <<>>]
      BY <2>2, <2>6 DEF AddMessage, a, Answers
    <3> HIDE DEF r
    <3>7. f[n].messages = r /\ f[n].blocks = <<>>
      BY <3>6
    <3>8. Good(n)
      BY <2>3, <2>4, <3>1, <3>2, <3>4, <3>5, <3>7, NoBlocks
    <3> HIDE DEF Good
    <3> QED
      BY <2>1, <3>8
  <2>7. CASE b.type # "tool_calls"
    <3>1. f[n].messages = acc.messages /\ f[n].blocks = Append(acc.blocks, b)
      BY <2>2, <2>7 DEF AddMessage, Told
    <3>2. Tokens(Append(acc.blocks, b)) = Tokens(acc.blocks) \union ToSet(b.text)
      BY <2>1, <2>5, Added
    <3>3. Good(n)
      BY <2>3, <2>4, <3>1, <3>2
    <3> HIDE DEF Good
    <3> QED
      BY <2>1, <3>3
  <2> QED
    BY <2>6, <2>7
<1>5. Good(Len(bs))
  <2>1. 0 .. Len(bs) \subseteq P
    <3> HIDE DEF P
    <3> QED
      BY <1>0, <1>3, <1>4, Climb
  <2>2. Len(bs) \in P
    BY <2>1, <1>0
  <2> HIDE DEF Good
  <2> QED
    BY <2>2
<1> DEFINE acc == f[Len(bs)]
           a == Assistant(acc.blocks, <<>>)
<1>6. acc \in Told /\ acc.messages \in Seq(Message) /\ acc.blocks \in Blocks
  BY <1>0, <1>1 DEF Told
<1>7. AnsweredOnce(acc.messages) /\ FirstTokens(bs, Len(bs)) = Content(acc.messages) \union Tokens(acc.blocks)
  BY <1>5
<1>8. Tokens(bs) = FirstTokens(bs, Len(bs))
  BY <1>0 DEF Tokens, FirstTokens
<1> HIDE DEF acc, Good
<1>9. Rendered(acc.blocks) \in Blocks /\ Tokens(Rendered(acc.blocks)) = Tokens(acc.blocks)
  BY <1>6, RenderedKeeps
<1>10. CASE Rendered(acc.blocks) = <<>>
  <2>1. ms = acc.messages
    BY <1>2, <1>10 DEF acc
  <2>2. Tokens(acc.blocks) = {}
    BY <1>9, <1>10, NoBlocks
  <2> QED
    BY <2>1, <2>2, <1>7, <1>8
<1>11. CASE Rendered(acc.blocks) # <<>>
  <2> DEFINE r == acc.messages \o <<a>> \o Answers(<<>>)
  <2>1. a \in Message /\ a.calls = <<>> /\ a.content = Rendered(acc.blocks)
    BY <1>9, EmptySeq DEF Assistant, Message
  <2>2. ms = Append(acc.messages, a)
    BY <1>2, <1>11 DEF acc
  <2> HIDE DEF a
  <2>3. <<>> \in Seq(Nat)
    BY EmptySeq
  <2>4. AnsweredOnce(r) /\ Content(r) = Content(acc.messages) \union Tokens(a.content)
    <3> DEFINE e == <<>>
    <3>1. e \in Seq(Nat) /\ (a.calls = <<>> /\ e = <<>>) /\ r = acc.messages \o <<a>> \o Answers(e)
      BY <2>1, <2>3
    <3> HIDE DEF e, r
    <3>2. (a.calls = <<>> /\ e = <<>>) \/ (Distinct(a.calls) /\ ResultsOf(a.calls, e))
      BY <3>1
    <3> QED
      BY <1>6, <1>7, <2>1, <3>1, <3>2, AnswersAdded
  <2>5. r = ms
    <3>1. Answers(<<>>) = <<>>
      BY DEF Answers
    <3>2. acc.messages \o <<a>> \in Seq(Message) /\ acc.messages \o <<a>> = Append(acc.messages, a)
      BY <1>6, <2>1
    <3> DEFINE m == acc.messages \o <<a>>
    <3> HIDE DEF m
    <3>3. m \o <<>> = m
      BY <3>2 DEF m
    <3> QED
      BY <2>2, <3>1, <3>2, <3>3 DEF m
  <2> QED
    BY <2>1, <2>4, <2>5, <1>7, <1>8, <1>9
<1> QED
  BY <1>10, <1>11

-----------------------------------------------------------------------------
(* Text that is parsed token after token: from the blocks a to b. *)

Parses(a, w, b) ==
  \E g \in [0 .. Len(w) -> Blocks \ {<<>>}] :
    /\ g[0] = a /\ g[Len(w)] = b
    /\ \A m \in 1 .. Len(w) : g[m] = ParseToken(Kinds, g[m - 1], w[m])

LEMMA ParsesIs ==
  ASSUME NEW w \in Text, NEW b, Parses(<<TextBlock(<<>>)>>, w, b)
  PROVE  b = Parsed(Kinds, w)
<1> DEFINE base == <<TextBlock(<<>>)>>
           Eq(f) == [n \in 0 .. Len(w) |-> IF n = 0 THEN base ELSE ParseToken(Kinds, f[n - 1], w[n])]
           f == ParsedUpTo(Kinds, w)
<1>0. Len(w) \in Nat
  BY DEF Text
<1>1. PICK g \in [0 .. Len(w) -> Blocks \ {<<>>}] :
        /\ g[0] = base /\ g[Len(w)] = b
        /\ \A m \in 1 .. Len(w) : g[m] = ParseToken(Kinds, g[m - 1], w[m])
  BY DEF Parses
<1> HIDE DEF base
<1>2. g = Eq(g)
  BY <1>0, <1>1
<1>3. f = CHOOSE e : e = Eq(e)
  BY DEF ParsedUpTo, base
<1>4. f = Eq(f)
  <2> HIDE DEF Eq, f
  <2> QED
    BY <1>2, <1>3
<1> HIDE DEF f
<1>5. \A n \in 0 .. Len(w) : f[n] = IF n = 0 THEN base ELSE ParseToken(Kinds, f[n - 1], w[n])
  BY <1>4
<1> DEFINE P == {n \in 0 .. Len(w) : f[n] = g[n]}
<1>6. 0 \in P
  <2>1. 0 \in 0 .. Len(w)
    BY <1>0
  <2> QED
    BY <2>1, <1>1, <1>5
<1>7. ASSUME NEW n \in 1 .. Len(w), n - 1 \in P
      PROVE  n \in P
  <2>1. n \in 0 .. Len(w) /\ n # 0
    BY <1>0
  <2>2. f[n] = ParseToken(Kinds, f[n - 1], w[n])
    BY <2>1, <1>5
  <2> QED
    BY <2>1, <2>2, <1>1, <1>7
<1>8. 0 .. Len(w) \subseteq P
  <2> HIDE DEF P
  <2> QED
    BY <1>0, <1>6, <1>7, Climb
<1>9. f[Len(w)] = g[Len(w)]
  BY <1>0, <1>8
<1> QED
  BY <1>1, <1>9 DEF Parsed, f

LEMMA ParsesOn ==
  ASSUME NEW s \in Text, NEW w \in Text, NEW a, NEW b, NEW c, Parses(a, s, b), Parses(b, w, c)
  PROVE  Parses(a, s \o w, c)
<1>1. PICK g \in [0 .. Len(s) -> Blocks \ {<<>>}] :
        /\ g[0] = a /\ g[Len(s)] = b
        /\ \A m \in 1 .. Len(s) : g[m] = ParseToken(Kinds, g[m - 1], s[m])
  BY DEF Parses
<1>2. PICK h \in [0 .. Len(w) -> Blocks \ {<<>>}] :
        /\ h[0] = b /\ h[Len(w)] = c
        /\ \A m \in 1 .. Len(w) : h[m] = ParseToken(Kinds, h[m - 1], w[m])
  BY DEF Parses
<1> DEFINE l == Len(s)
           t == s \o w
           k == [m \in 0 .. l + Len(w) |-> IF m <= l THEN g[m] ELSE h[m - l]]
<1>0. l \in Nat /\ Len(w) \in Nat
  BY DEF Text
<1>3. /\ t \in Text /\ Len(t) = l + Len(w)
      /\ \A i \in 1 .. l : t[i] = s[i]
      /\ \A i \in 1 .. Len(w) : t[l + i] = w[i]
  BY Joined
<1>4. /\ \A m \in 0 .. l : g[m] \in Blocks \ {<<>>}
      /\ \A m \in 0 .. Len(w) : h[m] \in Blocks \ {<<>>}
  OBVIOUS
<1>a. /\ g[0] = a /\ g[l] = b
      /\ \A m \in 1 .. l : g[m] = ParseToken(Kinds, g[m - 1], s[m])
  BY <1>1
<1> HIDE DEF l, t
<1>5. k \in [0 .. l + Len(w) -> Blocks \ {<<>>}]
  <2> SUFFICES ASSUME NEW m \in 0 .. l + Len(w)
               PROVE  k[m] \in Blocks \ {<<>>}
    OBVIOUS
  <2>1. CASE m <= l
    <3>1. m \in 0 .. l
      BY <2>1, <1>0
    <3> QED
      BY <2>1, <3>1, <1>4
  <2>2. CASE ~(m <= l)
    <3>1. m - l \in 0 .. Len(w)
      BY <2>2, <1>0
    <3> QED
      BY <2>2, <3>1, <1>4
  <2> QED
    BY <2>1, <2>2
<1>6. k[0] = a
  BY <1>0, <1>a
<1>7. \A m \in 0 .. Len(w) : k[l + m] = h[m]
  <2> SUFFICES ASSUME NEW m \in 0 .. Len(w)
               PROVE  k[l + m] = h[m]
    OBVIOUS
  <2>1. l + m \in 0 .. l + Len(w) /\ (l + m <= l => m = 0) /\ l + m - l = m
    BY <1>0
  <2>2. CASE m = 0
    <3>1. l \in 0 .. l + Len(w) /\ l + m = l /\ l <= l
      BY <2>2, <1>0
    <3> QED
      BY <2>2, <3>1, <1>2, <1>a
  <2>3. CASE m # 0
    BY <2>1, <2>3
  <2> QED
    BY <2>2, <2>3
<1>8. \A m \in 0 .. l : k[m] = g[m]
  BY <1>0
<1> HIDE DEF k
<1>9. ASSUME NEW m \in 1 .. l + Len(w)
      PROVE  k[m] = ParseToken(Kinds, k[m - 1], t[m])
  <2>1. CASE m <= l
    <3>1. m \in 1 .. l /\ m \in 0 .. l /\ m - 1 \in 0 .. l
      BY <2>1, <1>0
    <3> QED
      BY <3>1, <1>3, <1>8, <1>a
  <2>2. CASE ~(m <= l)
    <3> DEFINE i == m - l
    <3>1. i \in 1 .. Len(w) /\ i \in 0 .. Len(w) /\ i - 1 \in 0 .. Len(w) /\ m = l + i /\ m - 1 = l + (i - 1)
      BY <2>2, <1>0
    <3> HIDE DEF i
    <3>2. k[m] = h[i] /\ k[m - 1] = h[i - 1] /\ t[m] = w[i]
      BY <3>1, <1>3, <1>7
    <3> QED
      BY <3>1, <3>2, <1>2
  <2> QED
    BY <2>1, <2>2
<1>10. k[l + Len(w)] = c
  <2>1. Len(w) \in 0 .. Len(w)
    BY <1>0
  <2> QED
    BY <2>1, <1>2, <1>7
<1> QED
  BY <1>3, <1>5, <1>6, <1>9, <1>10 DEF Parses, t

LEMMA ParsesToken ==
  ASSUME NEW a \in Blocks \ {<<>>}, NEW t \in Token, ParseToken(Kinds, a, t) \in Blocks \ {<<>>}
  PROVE  Parses(a, <<t>>, ParseToken(Kinds, a, t))
<1> DEFINE b == ParseToken(Kinds, a, t)
           w == <<t>>
           g == [m \in 0 .. 1 |-> IF m = 0 THEN a ELSE b]
<1>1. Len(w) = 1 /\ w[1] = t
  OBVIOUS
<1> HIDE DEF b, w
<1>2. g \in [0 .. 1 -> Blocks \ {<<>>}] /\ g[0] = a /\ g[1] = b
  BY DEF b
<1> HIDE DEF g
<1>3. \A m \in 1 .. 1 : g[m] = ParseToken(Kinds, g[m - 1], w[m])
  BY <1>1, <1>2 DEF b
<1> QED
  BY <1>1, <1>2, <1>3 DEF Parses, w, b

(* Text that goes to the last block, of the type ty.                       *)
Plain(ty, t) ==
  /\ t[1] # "thought"
  /\ ~(t[1] = "open" /\ ty = "text" /\ Contains(Kinds, t[2]))
  /\ ~(t[1] = "close" /\ ty = t[2])
WithText(a, text) == WithLast(a, [Last(a) EXCEPT !.text = text])

LEMMA OneMore ==
  ASSUME NEW s \in Text, NEW w \in Text, NEW m \in 1 .. Len(w)
  PROVE  s \o SubSeq(w, 1, m) = Append(s \o SubSeq(w, 1, m - 1), w[m])
<1> DEFINE q == SubSeq(w, 1, m - 1)
           e == <<w[m]>>
<1>1. Len(w) \in Nat /\ w[m] \in Token /\ w \in Seq(Token) /\ s \in Seq(Token)
  BY DEF Text
<1>2. SubSeq(w, 1, m) = q \o e
  <2>1. 1 \in 1 .. Len(w) /\ m \in 1 .. Len(w)
    BY <1>1
  <2> QED
    BY <1>1, <2>1, SubSeqRecursiveSecond
<1>3. q \in Seq(Token) /\ e \in Seq(Token)
  <2>1. q \in Seq(Token)
    BY <1>1
  <2>2. e \in Seq(Token)
    BY <1>1
  <2> QED
    BY <2>1, <2>2
<1> HIDE DEF q, e
<1>4. (s \o q) \o e = s \o (q \o e)
  <2>1. s \in Seq(Token)
    BY <1>1
  <2> QED
    BY <1>3, <2>1, ConcatAssociative, SMTT(30)
<1>5. s \o q \in Seq(Token)
  BY <1>1, <1>3, ConcatProperties
<1>6. Append(s \o q, w[m]) = (s \o q) \o e
  BY <1>1, <1>5, AppendIsConcat DEF e
<1> QED
  BY <1>2, <1>4, <1>6 DEF q

LEMMA PlainParsed ==
  ASSUME NEW a \in Blocks, a # <<>>, ~Last(a).native, NEW t \in Token, Plain(Last(a).type, t)
  PROVE  ParseToken(Kinds, a, t) = WithText(a, Append(Last(a).text, t))
BY DEF ParseToken, NativeEnded, Plain, WithText

LEMMA WithTextMade ==
  ASSUME NEW a \in Blocks, a # <<>>, NEW text \in Text
  PROVE  /\ WithText(a, text) \in Blocks /\ WithText(a, text) # <<>>
         /\ Last(WithText(a, text)).type = Last(a).type
         /\ Last(WithText(a, text)).native = Last(a).native
         /\ Last(WithText(a, text)).done = Last(a).done
         /\ Last(WithText(a, text)).text = text
         /\ Front(WithText(a, text)) = Front(a)
         /\ WithText(a, Last(a).text) = a
         /\ \A u : WithText(WithText(a, text), u) = WithText(a, u)
<1> DEFINE F == Front(a)
           L == Last(a)
           B(u) == [L EXCEPT !.text = u]
<1>1. F \in Blocks /\ L \in ABlock /\ a = Append(F, L) /\ \A b : WithLast(a, b) = Append(F, b)
  BY Split
<1> HIDE DEF F, L
<1>2. \A u : WithText(a, u) = Append(F, B(u))
  BY <1>1 DEF WithText, L
<1>3. /\ B(text) \in ABlock /\ B(text).type = L.type /\ B(text).native = L.native
      /\ B(text).done = L.done /\ B(text).text = text
  BY <1>1 DEF ABlock
<1>4. B(L.text) = L
  BY <1>1 DEF ABlock
<1>5. \A u : [B(text) EXCEPT !.text = u] = B(u)
  BY <1>1 DEF ABlock
<1> DEFINE r == WithText(a, text)
           b == B(text)
<1>6. b \in ABlock /\ r = Append(F, b)
  BY <1>2, <1>3
<1> HIDE DEF r, b
<1>7. r \in Blocks /\ r # <<>> /\ Last(r) = b /\ Front(r) = F
  BY <1>1, <1>6, Added
<1>8. \A c : WithLast(r, c) = Append(F, c)
  BY <1>7, Split
<1>9. \A u : WithText(r, u) = Append(F, [b EXCEPT !.text = u])
  BY <1>7, <1>8 DEF WithText
<1>10. \A u : WithText(r, u) = WithText(a, u)
  BY <1>2, <1>5, <1>9 DEF b
<1>11. WithText(a, L.text) = a
  BY <1>1, <1>2, <1>4
<1> QED
  BY <1>3, <1>6, <1>7, <1>10, <1>11 DEF r, b, F, L

LEMMA ParsesPlain ==
  ASSUME NEW a \in Blocks, a # <<>>, ~Last(a).native, NEW w \in Text,
         \A i \in 1 .. Len(w) : Plain(Last(a).type, w[i])
  PROVE  Parses(a, w, WithText(a, Last(a).text \o w))
<1> DEFINE s == Last(a).text
           T(m) == s \o SubSeq(w, 1, m)
           g == [m \in 0 .. Len(w) |-> WithText(a, T(m))]
<1>0. Len(w) \in Nat /\ s \in Text
  <2>1. Last(a) \in ABlock
    BY Split
  <2> QED
    BY <2>1 DEF ABlock, Text
<1> HIDE DEF s
<1>1. \A m \in 0 .. Len(w) : T(m) \in Text
  <2> SUFFICES ASSUME NEW m \in 0 .. Len(w)
               PROVE  T(m) \in Text
    OBVIOUS
  <2>1. SubSeq(w, 1, m) \in Text
    BY <1>0 DEF Text
  <2> QED
    BY <2>1, <1>0, Joined
<1>2. T(0) = s
  <2>1. SubSeq(w, 1, 0) = <<>>
    BY <1>0 DEF Text
  <2>2. s \o <<>> = s
    BY <1>0 DEF Text
  <2> QED
    BY <2>1, <2>2
<1>3. T(Len(w)) = s \o w
  <2>1. SubSeq(w, 1, Len(w)) = w
    BY <1>0 DEF Text
  <2> QED
    BY <2>1
<1>4. \A m \in 1 .. Len(w) : T(m) = Append(T(m - 1), w[m])
  BY <1>0, OneMore
<1> HIDE DEF T
<1>5. g \in [0 .. Len(w) -> Blocks \ {<<>>}]
  BY <1>1, WithTextMade
<1>6. g[0] = a
  <2>1. 0 \in 0 .. Len(w) /\ T(0) = Last(a).text
    BY <1>0, <1>2 DEF s
  <2>2. WithText(a, Last(a).text) = a
    BY NoBlocks, WithTextMade
  <2> QED
    BY <2>1, <2>2
<1>7. g[Len(w)] = WithText(a, s \o w)
  <2>1. Len(w) \in 0 .. Len(w)
    BY <1>0
  <2> QED
    BY <2>1, <1>3
<1>8. ASSUME NEW m \in 1 .. Len(w)
      PROVE  g[m] = ParseToken(Kinds, g[m - 1], w[m])
  <2> DEFINE b == WithText(a, T(m - 1))
  <2>1. m \in 0 .. Len(w) /\ m - 1 \in 0 .. Len(w)
    BY <1>0
  <2>2. g[m] = WithText(a, T(m)) /\ g[m - 1] = b
    BY <2>1
  <2>3. w[m] \in Token
    BY DEF Text
  <2>4. /\ b \in Blocks /\ b # <<>> /\ Last(b).type = Last(a).type /\ Last(b).native = Last(a).native
        /\ Last(b).text = T(m - 1) /\ \A u : WithText(b, u) = WithText(a, u)
    <3> DEFINE t == T(m - 1)
    <3>1. t \in Text
      BY <2>1, <1>1
    <3> HIDE DEF t
    <3>2. /\ WithText(a, t) \in Blocks /\ WithText(a, t) # <<>>
          /\ Last(WithText(a, t)).type = Last(a).type
          /\ Last(WithText(a, t)).native = Last(a).native
          /\ Last(WithText(a, t)).text = t
          /\ \A u : WithText(WithText(a, t), u) = WithText(a, u)
      BY <3>1, WithTextMade
    <3>3. b = WithText(a, t)
      BY DEF t
    <3> HIDE DEF b
    <3> QED
      BY <3>2, <3>3 DEF t
  <2> HIDE DEF b, g
  <2>5. ParseToken(Kinds, b, w[m]) = WithText(b, Append(Last(b).text, w[m]))
    BY <2>3, <2>4, PlainParsed
  <2> QED
    BY <2>2, <2>4, <2>5, <1>4
<1> HIDE DEF g
<1> QED
  BY <1>5, <1>6, <1>7, <1>8 DEF Parses, s

(* Native reasoning ends before text is parsed.                            *)
LEMMA ParsesAfterNative ==
  ASSUME NEW a \in Blocks \ {<<>>}, NativeEnded(a) \in Blocks \ {<<>>}, ~Last(NativeEnded(a)).native,
         NEW w \in Text, w # <<>>, w[1][1] # "thought", NEW b, Parses(NativeEnded(a), w, b)
  PROVE  Parses(a, w, b)
<1> DEFINE n == NativeEnded(a)
<1>1. PICK g \in [0 .. Len(w) -> Blocks \ {<<>>}] :
        /\ g[0] = n /\ g[Len(w)] = b
        /\ \A m \in 1 .. Len(w) : g[m] = ParseToken(Kinds, g[m - 1], w[m])
  BY DEF Parses
<1>2. NativeEnded(n) = n
  <2> HIDE DEF n
  <2> QED
    BY DEF NativeEnded, n
<1>3. ParseToken(Kinds, n, w[1]) = ParseToken(Kinds, a, w[1])
  BY <1>2 DEF ParseToken
<1> HIDE DEF n
<1>4. Len(w) \in Nat /\ Len(w) # 0
  BY DEF Text
<1> DEFINE h == [m \in 0 .. Len(w) |-> IF m = 0 THEN a ELSE g[m]]
<1>5. h \in [0 .. Len(w) -> Blocks \ {<<>>}] /\ h[0] = a /\ \A m \in 1 .. Len(w) : h[m] = g[m]
  BY <1>4
<1> HIDE DEF h
<1>6. h[Len(w)] = b
  <2>1. Len(w) \in 1 .. Len(w)
    BY <1>4
  <2> QED
    BY <2>1, <1>1, <1>5
<1>7. ASSUME NEW m \in 1 .. Len(w)
      PROVE  h[m] = ParseToken(Kinds, h[m - 1], w[m])
  <2>1. CASE m = 1
    BY <2>1, <1>1, <1>3, <1>5
  <2>2. CASE m # 1
    <3>1. m - 1 \in 1 .. Len(w)
      BY <2>2, <1>4
    <3> QED
      BY <3>1, <1>1, <1>5
  <2> QED
    BY <2>1, <2>2
<1> QED
  BY <1>5, <1>6, <1>7 DEF Parses

(* Kinds of tags that have nothing to do. *)
Idle(kind, st) == ~Begins(kind, st) /\ ~Ends(kind, st)

LEMMA HandledSame ==
  ASSUME NEW st \in Handling, NEW l \in 0 .. Len(Kinds), NEW k \in 0 .. l, NEW x,
         HandledUpTo(Kinds, st)[k] = x, \A m \in k + 1 .. l : Idle(Kinds[m], x)
  PROVE  HandledUpTo(Kinds, st)[l] = x
<1> DEFINE h == HandledUpTo(Kinds, st)
           P == {m \in 0 .. l : m < k \/ h[m] = x}
<1>0. Len(Kinds) \in Nat /\ Kinds \in Seq(SectionTypes) /\ l \in Nat /\ k \in Nat
  BY TextAssumption
<1>1. \A m \in 1 .. Len(Kinds) : h[m] = HandleTag(Kinds[m], h[m - 1]) /\ Kinds[m] \in SectionTypes
  BY <1>0, HandledStep
<1> HIDE DEF h
<1>2. 0 \in P
  <2>1. 0 \in 0 .. l /\ (0 < k \/ k = 0)
    BY <1>0
  <2> QED
    BY <2>1 DEF h
<1>3. ASSUME NEW m \in 1 .. l, m - 1 \in P
      PROVE  m \in P
  <2>1. m \in 0 .. l /\ m \in 1 .. Len(Kinds)
    BY <1>0
  <2>2. CASE m < k
    BY <2>1, <2>2
  <2>3. CASE m = k
    BY <2>1, <2>3 DEF h
  <2>4. CASE m > k
    <3>1. m \in k + 1 .. l /\ h[m - 1] = x
      BY <2>4, <1>0, <1>3
    <3>2. HandleTag(Kinds[m], x) = x
      BY <3>1, <2>1, <1>1, TagHandled DEF Idle
    <3> QED
      BY <3>1, <3>2, <2>1, <1>1
  <2> QED
    BY <2>2, <2>3, <2>4, <1>0
<1>4. 0 .. l \subseteq P
  <2> HIDE DEF P
  <2> QED
    BY <1>0, <1>2, <1>3, Climb
<1>5. l \in 0 .. l /\ ~(l < k)
  BY <1>0
<1> QED
  BY <1>4, <1>5 DEF h

LEMMA NoneHandles ==
  ASSUME NEW st \in Handling, \A m \in 1 .. Len(Kinds) : Idle(Kinds[m], st)
  PROVE  HandledUpTo(Kinds, st)[Len(Kinds)] = st
<1>1. Len(Kinds) \in Nat /\ Kinds \in Seq(SectionTypes)
  BY TextAssumption
<1>2. HandledUpTo(Kinds, st)[0] = st
  BY <1>1, HandledStep
<1>3. 0 \in 0 .. Len(Kinds) /\ Len(Kinds) \in 0 .. Len(Kinds) /\ 0 + 1 = 1
  BY <1>1
<1> QED
  BY <1>2, <1>3, HandledSame

LEMMA OneHandles ==
  ASSUME NEW st \in Handling, NEW n \in 1 .. Len(Kinds), NEW r, r = HandleTag(Kinds[n], st),
         \A m \in 1 .. n - 1 : Idle(Kinds[m], st),
         \A m \in n + 1 .. Len(Kinds) : Idle(Kinds[m], r)
  PROVE  HandledUpTo(Kinds, st)[Len(Kinds)] = r
<1>1. Len(Kinds) \in Nat /\ Kinds \in Seq(SectionTypes)
  BY TextAssumption
<1>2. /\ HandledUpTo(Kinds, st)[0] = st
      /\ HandledUpTo(Kinds, st)[n] = HandleTag(Kinds[n], HandledUpTo(Kinds, st)[n - 1])
  BY <1>1, HandledStep
<1>3. n - 1 \in 0 .. Len(Kinds) /\ 0 \in 0 .. n - 1 /\ 0 + 1 = 1
  BY <1>1
<1>4. HandledUpTo(Kinds, st)[n - 1] = st
  BY <1>2, <1>3, HandledSame
<1>5. HandledUpTo(Kinds, st)[n] = r
  BY <1>2, <1>4
<1>6. Len(Kinds) \in 0 .. Len(Kinds) /\ n \in 0 .. Len(Kinds)
  BY <1>1
<1> QED
  BY <1>5, <1>6, HandledSame

LEMMA InThree ==
  ASSUME NEW v \in Text, NEW x \in 1 .. Len(v)
  PROVE  v = (UpTo(v, x) \o <<v[x]>>) \o From(v, x)
<1>1. Len(v) \in Nat /\ v \in Seq(Token)
  BY DEF Text
<1>2. SubSeq(v, 1, x) = SubSeq(v, 1, x - 1) \o <<v[x]>>
  <2>1. 1 \in 1 .. Len(v) /\ x \in 1 .. Len(v)
    BY <1>1
  <2> QED
    BY <1>1, <2>1, SubSeqRecursiveSecond
<1>3. SubSeq(v, 1, x) \o SubSeq(v, x + 1, Len(v)) = SubSeq(v, 1, Len(v))
  <2>1. 1 \in 1 .. Len(v) + 1 /\ x \in 1 - 1 .. Len(v) /\ Len(v) \in x .. Len(v)
    BY <1>1
  <2> QED
    BY <1>1, <2>1, ConcatAdjacentSubSeq
<1>4. SubSeq(v, 1, Len(v)) = v
  BY <1>1, SubSeqFull
<1> QED
  BY <1>2, <1>3, <1>4 DEF UpTo, From

LEMMA PositionIn ==
  ASSUME NEW s \in Text, NEW token
  PROVE  Position(token, s) # 0 <=> token \in ToSet(s)
<1>1. DOMAIN s = 1 .. Len(s) /\ Len(s) \in Nat /\ s \in Seq(Token)
  BY DEF Text
<1>2. /\ Position(token, s) \in 0 .. Len(s)
      /\ Position(token, s) = 0 => \A i \in 1 .. Len(s) : s[i] # token
      /\ Position(token, s) # 0 => s[Position(token, s)] = token
  BY <1>1, PositionFinds
<1>3. Position(token, s) # 0 => Position(token, s) \in 1 .. Len(s)
  BY <1>1, <1>2
<1> QED
  BY <1>1, <1>2, <1>3 DEF ToSet

(* What is received, before tags are looked for. *)
LEMMA ReceivedIs ==
  ASSUME NEW c \in Text, NEW v \in Text, NEW bs, Receives(bs), NEW a, a = NativeEnded(bs)
  PROVE  /\ a \in Blocks \ {<<>>} /\ ~Last(a).native /\ Last(a).text \in Text
         /\ Last(a).type # "tool_calls" /\ AllFine(a)
         /\ Received(v, c, bs) \in Handling
         /\ Received(v, c, bs).content = c \o v /\ Received(v, c, bs).end = FALSE
         /\ Received(v, c, bs).blocks = WithText(a, Last(a).text \o v)
<1>1. bs \in Blocks /\ bs # <<>> /\ AllFine(bs) /\ Last(bs).type # "tool_calls"
  BY DEF Receives
<1>2. a \in Blocks /\ a # <<>> /\ AllFine(a) /\ Last(a).type # "tool_calls" /\ ~Last(a).native
  BY <1>1, NativeEnds
<1>3. Received(v, c, bs) \in Handling /\ Last(a).text \in Text
  BY <1>1, TextReceived
<1>4. /\ Received(v, c, bs).content = c \o v /\ Received(v, c, bs).end = FALSE
      /\ Received(v, c, bs).blocks = WithText(a, Last(a).text \o v)
  BY DEF Received, WithText
<1> QED
  BY <1>2, <1>3, <1>4

(* A delta that goes to the last block. *)
LEMMA StaysInBlock ==
  ASSUME NEW c \in Text, NEW v \in Text, v # <<>>, NEW bs, Receives(bs), NEW a, a = NativeEnded(bs),
         \A i \in 1 .. Len(v) : Plain(Last(a).type, v[i]),
         Last(a).type = "text" => \A n \in 1 .. Len(Kinds) : Opening(Kinds[n]) \notin ToSet(c \o v),
         Last(a).type # "text" => Closing(Last(a).type) \notin ToSet(c \o v),
         NEW st, st = AddText(v, c, bs, Kinds)
  PROVE  /\ st.content = c \o v /\ st.blocks = WithText(a, Last(a).text \o v) /\ ~st.end
         /\ Parses(bs, v, st.blocks)
<1> DEFINE rc == Received(v, c, bs)
           text == Last(a).text \o v
<1>a. /\ a \in Blocks \ {<<>>} /\ ~Last(a).native /\ Last(a).text \in Text
      /\ rc \in Handling /\ rc.content = c \o v /\ rc.end = FALSE
  BY ReceivedIs
<1>b. rc.blocks = WithText(a, text)
  BY DEF Received, WithText
<1>1. /\ a \in Blocks \ {<<>>} /\ ~Last(a).native /\ Last(a).text \in Text
      /\ rc \in Handling /\ rc.content = c \o v /\ rc.end = FALSE
      /\ rc.blocks = WithText(a, text)
  BY <1>a, <1>b
<1>2. st = HandledUpTo(Kinds, rc)[Len(Kinds)]
  BY DEF AddText
<1>3. text \in Text /\ c \o v \in Text
  BY <1>1, Joined
<1> HIDE DEF rc, text
<1>4. Last(rc.blocks).type = Last(a).type
  BY <1>1, <1>3, WithTextMade
<1>5. ASSUME NEW n \in 1 .. Len(Kinds)
      PROVE  Idle(Kinds[n], rc)
  <2>1. Kinds[n] # "text"
    BY KindsDiffer, TextDiffers
  <2>2. ~Begins(Kinds[n], rc)
    BY <1>1, <1>3, <1>4, PositionIn DEF Begins
  <2>3. ~Ends(Kinds[n], rc)
    BY <2>1, <1>1, <1>3, <1>4, PositionIn DEF Ends
  <2> QED
    BY <2>2, <2>3 DEF Idle
<1>6. st = rc
  BY <1>1, <1>2, <1>5, NoneHandles
<1>7. Parses(a, v, WithText(a, text))
  BY <1>1, ParsesPlain DEF text
<1>8. Parses(bs, v, WithText(a, text))
  <2>1. bs \in Blocks \ {<<>>}
    BY DEF Receives
  <2>2. 1 \in 1 .. Len(v) /\ v[1][1] # "thought"
    <3>1. Len(v) \in Nat \ {0}
      BY EmptySeq, LenProperties DEF Text
    <3> QED
      BY <3>1 DEF Plain
  <2> QED
    BY <2>1, <2>2, <1>1, <1>7, ParsesAfterNative
<1> QED
  BY <1>1, <1>6, <1>8 DEF text

(* Where a token is that is in v only, and what is before and after it. *)
LEMMA CutJoined ==
  ASSUME NEW c \in Text, NEW v \in Text, NEW x \in 1 .. Len(v)
  PROVE  /\ UpTo(c \o v, Len(c) + x) = c \o UpTo(v, x)
         /\ From(c \o v, Len(c) + x) = From(v, x)
<1> DEFINE s == c \o v
           u == UpTo(v, x)
           w == c \o u
           p == UpTo(s, Len(c) + x)
           q == From(s, Len(c) + x)
           f == From(v, x)
<1>0. Len(c) \in Nat /\ Len(v) \in Nat
  BY DEF Text
<1>1. /\ s \in Text /\ Len(s) = Len(c) + Len(v)
      /\ \A i \in 1 .. Len(c) : s[i] = c[i]
      /\ \A i \in 1 .. Len(v) : s[Len(c) + i] = v[i]
  BY Joined
<1>2. /\ u \in Text /\ f \in Text
      /\ Len(u) = x - 1 /\ \A i \in 1 .. x - 1 : u[i] = v[i]
      /\ Len(f) = Len(v) - x /\ \A i \in 1 .. Len(v) - x : f[i] = v[x + i]
  BY Cut
<1> HIDE DEF s, u, f
<1>3. /\ w \in Text /\ Len(w) = Len(c) + (x - 1)
      /\ \A i \in 1 .. Len(c) : w[i] = c[i]
      /\ \A i \in 1 .. x - 1 : w[Len(c) + i] = u[i]
  <2>1. w \in Text /\ Len(w) = Len(c) + Len(u)
    BY <1>2, Joined
  <2>2. \A i \in 1 .. Len(c) : w[i] = c[i]
    BY <1>2, Joined
  <2>3. \A i \in 1 .. Len(u) : w[Len(c) + i] = u[i]
    BY <1>2, Joined
  <2> HIDE DEF w
  <2> QED
    BY <2>1, <2>2, <2>3, <1>2
<1>4. Len(c) + x \in 1 .. Len(s)
  BY <1>0, <1>1
<1>5. /\ p \in Text /\ q \in Text
      /\ Len(p) = Len(c) + x - 1 /\ \A i \in 1 .. Len(c) + x - 1 : p[i] = s[i]
      /\ Len(q) = Len(s) - (Len(c) + x) /\ \A i \in 1 .. Len(s) - (Len(c) + x) : q[i] = s[Len(c) + x + i]
  <2> DEFINE y == Len(c) + x
  <2> HIDE DEF y
  <2>1. y \in 1 .. Len(s)
    BY <1>4 DEF y
  <2>2. /\ UpTo(s, y) \in Text /\ From(s, y) \in Text /\ Len(UpTo(s, y)) = y - 1
        /\ \A i \in 1 .. y - 1 : UpTo(s, y)[i] = s[i]
    BY <2>1, <1>1, Cut
  <2>3. /\ Len(From(s, y)) = Len(s) - y
        /\ \A i \in 1 .. Len(s) - y : From(s, y)[i] = s[y + i]
    BY <2>1, <1>1, Cut
  <2> QED
    BY <2>2, <2>3 DEF y
<1> HIDE DEF w, p, q
<1>6. Len(p) = Len(w) /\ Len(q) = Len(f)
  BY <1>0, <1>1, <1>2, <1>3, <1>5
<1>7. ASSUME NEW i \in 1 .. Len(p)
      PROVE  p[i] = w[i]
  <2>1. i \in 1 .. Len(c) + x - 1
    BY <1>5
  <2>2. CASE i <= Len(c)
    <3>1. i \in 1 .. Len(c)
      BY <2>1, <2>2, <1>0
    <3> QED
      BY <2>1, <3>1, <1>1, <1>3, <1>5
  <2>3. CASE i > Len(c)
    <3> DEFINE j == i - Len(c)
    <3>1. j \in 1 .. x - 1 /\ j \in 1 .. Len(v) /\ i = Len(c) + j
      BY <2>1, <2>3, <1>0
    <3> HIDE DEF j
    <3>2. p[i] = s[Len(c) + j] /\ w[i] = u[j]
      BY <2>1, <3>1, <1>3, <1>5
    <3> QED
      BY <3>1, <3>2, <1>1, <1>2
  <2> QED
    BY <2>1, <2>2, <2>3, <1>0
<1>8. ASSUME NEW i \in 1 .. Len(q)
      PROVE  q[i] = f[i]
  <2>1. /\ i \in 1 .. Len(s) - (Len(c) + x) /\ i \in 1 .. Len(v) - x
        /\ x + i \in 1 .. Len(v) /\ Len(c) + x + i = Len(c) + (x + i)
    BY <1>0, <1>1, <1>2, <1>5
  <2> QED
    BY <2>1, <1>1, <1>2, <1>5, SMTT(20)
<1>9. p = w
  BY <1>3, <1>5, <1>6, <1>7, SeqEqual DEF Text
<1>10. q = f
  BY <1>2, <1>5, <1>6, <1>8, SeqEqual DEF Text
<1> QED
  BY <1>9, <1>10 DEF p, q, w, f, s, u

LEMMA PositionJoined ==
  ASSUME NEW c \in Text, NEW v \in Text, NEW x \in 1 .. Len(v), NEW token, token \notin ToSet(c),
         v[x] = token, \A i \in 1 .. x - 1 : v[i] # token
  PROVE  Position(token, c \o v) = Len(c) + x
<1> DEFINE s == c \o v
           p == Position(token, s)
<1>0. Len(c) \in Nat /\ Len(v) \in Nat /\ DOMAIN c = 1 .. Len(c)
  BY DEF Text
<1>1. /\ s \in Text /\ Len(s) = Len(c) + Len(v)
      /\ \A i \in 1 .. Len(c) : s[i] = c[i]
      /\ \A i \in 1 .. Len(v) : s[Len(c) + i] = v[i]
  BY Joined
<1> HIDE DEF s
<1>2. /\ p \in 0 .. Len(s)
      /\ p = 0 => \A i \in 1 .. Len(s) : s[i] # token
      /\ p # 0 => s[p] = token /\ \A i \in 1 .. p - 1 : s[i] # token
  <2>1. s \in Seq(Token)
    BY <1>1 DEF Text
  <2>2. p \in 0 .. Len(s) /\ (p = 0 => \A i \in 1 .. Len(s) : s[i] # token)
    BY <2>1, PositionFinds
  <2>3. p # 0 => s[p] = token /\ \A i \in 1 .. p - 1 : s[i] # token
    BY <2>1, PositionFinds
  <2> HIDE DEF p
  <2> QED
    BY <2>2, <2>3
<1> HIDE DEF p
<1>3. Len(c) + x \in 1 .. Len(s) /\ s[Len(c) + x] = token
  BY <1>0, <1>1
<1>4. p # 0
  BY <1>2, <1>3
<1>5. p <= Len(c) + x
  <2>1. ~(Len(c) + x \in 1 .. p - 1)
    BY <1>2, <1>3, <1>4
  <2>2. p \in Nat
    BY <1>0, <1>1, <1>2
  <2> QED
    BY <2>1, <2>2, <1>0
<1>6. ASSUME p < Len(c) + x
      PROVE  FALSE
  <2>1. CASE p <= Len(c)
    <3>1. p \in 1 .. Len(c) /\ s[p] = token
      BY <2>1, <1>0, <1>1, <1>2, <1>4
    <3> QED
      BY <3>1, <1>0, <1>1 DEF ToSet
  <2>2. CASE p > Len(c)
    <3> DEFINE i == p - Len(c)
    <3>1. i \in 1 .. x - 1 /\ i \in 1 .. Len(v) /\ p = Len(c) + i
      BY <2>2, <1>0, <1>1, <1>2, <1>6
    <3> HIDE DEF i
    <3>2. s[p] = v[i]
      BY <3>1, <1>1
    <3> QED
      BY <3>1, <3>2, <1>2, <1>4
  <2>3. p \in Nat
    BY <1>0, <1>1, <1>2
  <2> QED
    BY <2>1, <2>2, <2>3, <1>0
<1>7. p \in Nat
  BY <1>0, <1>1, <1>2
<1> QED
  BY <1>0, <1>5, <1>6, <1>7 DEF p, s

LEMMA WithoutAll ==
  ASSUME NEW s \in Text
  PROVE  Without(s, s) = <<>>
<1> DEFINE found == {i \in DOMAIN s : IsPrefix(s, SubSeq(s, i, Len(s)))}
           m == Min(found)
<1>0. Len(s) \in Nat /\ DOMAIN s = 1 .. Len(s) /\ s \in Seq(Token)
  BY DEF Text
<1>1. CASE s = <<>>
  BY <1>1 DEF Without
<1>2. CASE s # <<>>
  <2>1. 1 \in DOMAIN s
    <3>1. Len(s) # 0
      BY <1>0, <1>2, EmptySeq
    <3> QED
      BY <3>1, <1>0
  <2>2. SubSeq(s, 1, Len(s)) = s
    BY <1>0, SubSeqFull
  <2>3. 1 \in found
    BY <2>1, <2>2, <1>0 DEF IsPrefix
  <2>4. \A i \in found : 1 <= i
    BY <1>0
  <2> HIDE DEF found
  <2>5. m \in found /\ \A i \in found : m <= i
    BY <2>3, <2>4 DEF Min
  <2>6. m <= 1 /\ 1 <= m
    BY <2>3, <2>4, <2>5
  <2>7. m \in Int
    BY <2>5, <1>0 DEF found
  <2>8. m = 1
    BY <2>6, <2>7
  <2>9. Without(s, s) = UpTo(s, m) \o From(s, m + Len(s) - 1)
    BY <2>3 DEF Without, found
  <2> HIDE DEF m
  <2>10. m + Len(s) - 1 = Len(s)
    BY <2>8, <1>0
  <2>11. UpTo(s, m) = <<>> /\ From(s, Len(s)) = <<>>
    BY <2>8, <1>0, SubSeqEmpty DEF UpTo, From
  <2> QED
    BY <2>9, <2>10, <2>11
<1> QED
  BY <1>1, <1>2

LEMMA TextIsPlain ==
  ASSUME NEW w \in Text, \A i \in 1 .. Len(w) : w[i][1] = "text"
  PROVE  /\ \A ty : \A i \in 1 .. Len(w) : Plain(ty, w[i])
         /\ \A k : Opening(k) \notin ToSet(w) /\ Closing(k) \notin ToSet(w)
<1>1. DOMAIN w = 1 .. Len(w)
  BY DEF Text
<1> QED
  BY <1>1, TagsDiffer DEF Plain, ToSet

LEMMA BlockWithText ==
  ASSUME NEW F \in Blocks, NEW ty, NEW t \in Text, Block(ty, <<>>) \in ABlock
  PROVE  /\ WithText(Append(F, Block(ty, <<>>)), t) = Append(F, Block(ty, t))
         /\ Append(F, Block(ty, <<>>)) \in Blocks \ {<<>>}
         /\ Last(Append(F, Block(ty, <<>>))) = Block(ty, <<>>)
<1> DEFINE b == Block(ty, <<>>)
           a == Append(F, b)
<1>1. [b EXCEPT !.text = t] = Block(ty, t)
  <2> DEFINE d == Block(ty, t)
  <2>1. b \in ABlock
    OBVIOUS
  <2>2. d.type = b.type /\ d.text = t /\ d.done = b.done /\ d.native = b.native
        /\ d.calls = b.calls /\ d.results = b.results
    BY DEF Block
  <2>3. d \in ABlock
    BY <2>1 DEF ABlock, Block
  <2> HIDE DEF b, d
  <2>4. [b EXCEPT !.text = t] = d
    BY <2>1, <2>2, <2>3 DEF ABlock
  <2> QED
    BY <2>4 DEF d
<1> HIDE DEF b
<1>2. a \in Blocks /\ a # <<>> /\ Last(a) = b /\ Front(a) = F
  BY Added DEF b
<1> HIDE DEF a
<1>3. WithLast(a, [b EXCEPT !.text = t]) = Append(F, [b EXCEPT !.text = t])
  BY <1>2, Split
<1> QED
  BY <1>1, <1>2, <1>3 DEF WithText, a, b

(* A delta that begins a section. *)
LEMMA SectionBegun ==
  ASSUME NEW c \in Text, NEW v \in Text, NEW bs, Receives(bs), NEW a, a = NativeEnded(bs),
         NEW n \in 1 .. Len(Kinds), NEW k, k = Kinds[n],
         Last(a).type = "text", Last(a).text = c,
         \A m \in 1 .. Len(Kinds) : Opening(Kinds[m]) \notin ToSet(c),
         NEW x \in 1 .. Len(v), v[x] = Opening(k),
         \A i \in 1 .. Len(v) : i # x => v[i][1] = "text",
         NEW st, st = AddText(v, c, bs, Kinds)
  PROVE  /\ st.content = c \o v /\ ~st.end /\ Last(st.blocks) = Block(k, From(v, x))
         /\ Parses(bs, v, st.blocks)
<1> DEFINE rc == Received(v, c, bs)
           cv == c \o v
           u == UpTo(v, x)
           f == From(v, x)
           cu == c \o u
           kept == IF cu = <<>> THEN Front(a) ELSE WithText(a, cu)
           r == Append(kept, Block(k, f))
<1>0. Len(v) \in Nat /\ k \in SectionTypes /\ Contains(Kinds, k) /\ Len(c) \in Nat
  BY KindsDiffer DEF Text
<1>a. /\ a \in Blocks \ {<<>>} /\ ~Last(a).native
      /\ rc \in Handling /\ rc.content = cv /\ rc.end = FALSE
  <2>1. a \in Blocks \ {<<>>} /\ ~Last(a).native /\ rc \in Handling
    BY ReceivedIs
  <2>2. rc.content = cv /\ rc.end = FALSE
    BY DEF Received
  <2> QED
    BY <2>1, <2>2
<1>b. rc.blocks = WithText(a, cv)
  BY DEF Received, WithText
<1>1. st = HandledUpTo(Kinds, rc)[Len(Kinds)]
  BY DEF AddText
<1>2. /\ u \in Text /\ f \in Text
      /\ \A i \in 1 .. Len(u) : u[i][1] = "text"
      /\ \A i \in 1 .. Len(f) : f[i][1] = "text"
  <2>1. /\ u \in Text /\ f \in Text
        /\ Len(u) = x - 1 /\ \A i \in 1 .. x - 1 : u[i] = v[i]
        /\ Len(f) = Len(v) - x /\ \A i \in 1 .. Len(v) - x : f[i] = v[x + i]
    BY Cut
  <2> HIDE DEF u, f
  <2>2. \A i \in 1 .. x - 1 : i \in 1 .. Len(v) /\ i # x
    BY <1>0
  <2>3. \A i \in 1 .. Len(v) - x : x + i \in 1 .. Len(v) /\ x + i # x
    BY <1>0
  <2>4. \A i \in 1 .. Len(u) : u[i][1] = "text"
    BY <2>1, <2>2
  <2>5. \A i \in 1 .. Len(f) : f[i][1] = "text"
    BY <2>1, <2>3
  <2> QED
    BY <2>1, <2>4, <2>5
<1>3. UpTo(cv, Len(c) + x) = cu /\ From(cv, Len(c) + x) = f
  BY CutJoined
<1>4. Position(Opening(k), cv) = Len(c) + x
  <2>1. \A i \in 1 .. x - 1 : i \in 1 .. Len(v) /\ i # x
    BY <1>0
  <2>2. \A i \in 1 .. x - 1 : v[i] # Opening(k)
    BY <2>1, TagsDiffer
  <2>3. Opening(k) \notin ToSet(c)
    OBVIOUS
  <2> QED
    BY <2>2, <2>3, PositionJoined
<1>5. cv \in Text /\ ToSet(cv) = ToSet(c) \union ToSet(v)
  BY Joined
<1>6. cu \in Text
  BY <1>2, Joined
<1>7. cu = <<>> => <<Opening(k)>> \o f = cv
  <2>1. v = (u \o <<v[x]>>) \o f
    BY InThree
  <2>2. cu = <<>> => c = <<>> /\ u = <<>>
    BY <1>2, ConcatEqualIffEmpty DEF Text
  <2>3. c = <<>> => cv = v
    BY ConcatEmptySeq DEF Text
  <2>4. <<>> \o <<v[x]>> = <<v[x]>>
    <3>1. <<v[x]>> \in Seq(Token)
      BY DEF Text
    <3> QED
      BY <3>1, ConcatEmptySeq
  <2> HIDE DEF u, f, cu, cv
  <2> QED
    BY <2>1, <2>2, <2>3, <2>4
<1> HIDE DEF rc, cv, u, f, cu
<1>8. /\ rc.blocks \in Blocks /\ rc.blocks # <<>> /\ Last(rc.blocks).type = "text"
      /\ Last(rc.blocks).text = cv /\ Front(rc.blocks) = Front(a)
      /\ WithText(rc.blocks, cu) = WithText(a, cu)
  BY <1>a, <1>b, <1>5, WithTextMade
<1>9. Position(Closing(k), f) = 0
  BY <1>2, TextIsPlain, PositionIn
<1>10. BeginSection(k, rc.content, rc.blocks) = r
  <2> DEFINE text == IF cu # <<>> THEN cu ELSE Without(<<Opening(k)>> \o f, Last(rc.blocks).text)
  <2>1. text = cu
    BY <1>5, <1>7, <1>8, WithoutAll
  <2> HIDE DEF text
  <2>2. BeginSection(k, rc.content, rc.blocks)
          = Append(IF text = <<>> THEN Front(rc.blocks) ELSE WithText(rc.blocks, text), Block(k, f))
    <3>1. /\ Position(Opening(k), rc.content) = Len(c) + x
          /\ UpTo(rc.content, Len(c) + x) = cu /\ From(rc.content, Len(c) + x) = f
      BY <1>a, <1>3, <1>4
    <3> QED
      BY <3>1, <1>9 DEF BeginSection, WithText, text
  <2> QED
    BY <2>1, <2>2, <1>8
<1>11. HandleTag(k, rc) = [rc EXCEPT !.blocks = r]
  <2>1. Begins(k, rc)
    BY <1>0, <1>a, <1>4, <1>8 DEF Begins
  <2>2. HandleTag(k, rc) = [rc EXCEPT !.blocks = BeginSection(k, rc.content, rc.blocks)]
    BY <2>1, <1>0, TagHandled
  <2> HIDE DEF r
  <2> QED
    BY <2>2, <1>10
<1>12. kept \in Blocks
  <2>1. Front(a) \in Blocks /\ WithText(a, cu) \in Blocks
    BY <1>a, <1>6, Split, WithTextMade
  <2> QED
    BY <2>1
<1> HIDE DEF kept
<1>13. Block(k, f) \in ABlock /\ Block(k, f).type = k
  BY <1>0, <1>2, NewBlocks
<1>14. r \in Blocks /\ r # <<>> /\ Last(r) = Block(k, f)
  BY <1>12, <1>13, Added
<1> HIDE DEF r
<1> DEFINE h == HandleTag(k, rc)
<1>15. h.content = cv /\ h.end = FALSE /\ h.blocks = r
  BY <1>a, <1>11 DEF Handling
<1> HIDE DEF h
<1>16. k # "text"
  BY <1>0, TextDiffers
<1>17. ASSUME NEW m \in 1 .. n - 1
       PROVE  Idle(Kinds[m], rc)
  <2>1. m \in 1 .. Len(Kinds) /\ n \in m + 1 .. Len(Kinds)
    BY TextAssumption
  <2>2. Kinds[m] # k /\ Kinds[m] # "text"
    BY <2>1, KindsDiffer, TextDiffers
  <2>3. Opening(Kinds[m]) \notin ToSet(v)
    <3>1. DOMAIN v = 1 .. Len(v)
      BY DEF Text
    <3> QED
      BY <2>2, <3>1, TagsDiffer DEF ToSet
  <2>4. ~Begins(Kinds[m], rc)
    BY <2>1, <2>3, <1>a, <1>5, PositionIn DEF Begins
  <2> QED
    BY <2>2, <2>4, <1>8 DEF Idle, Ends
<1>18. ASSUME NEW m \in n + 1 .. Len(Kinds)
       PROVE  Idle(Kinds[m], h)
  <2>1. Kinds[m] # k
    BY KindsDiffer
  <2> QED
    BY <2>1, <1>13, <1>14, <1>15, <1>16 DEF Idle, Begins, Ends
<1>19. st = h
  BY <1>a, <1>1, <1>17, <1>18, OneHandles DEF h
<1>20. Parses(a, u, WithText(a, cu))
  BY <1>a, <1>2, ParsesPlain, TextIsPlain DEF cu
<1>21. Parses(WithText(a, cu), <<v[x]>>, Append(kept, Block(k, <<>>)))
  <2> DEFINE b == WithText(a, cu)
  <2>1. /\ b \in Blocks \ {<<>>} /\ Last(b).type = "text" /\ ~Last(b).native
        /\ Last(b).text = cu /\ Front(b) = Front(a)
    BY <1>a, <1>6, WithTextMade
  <2> HIDE DEF b
  <2>2. NativeEnded(b) = b
    BY <2>1 DEF NativeEnded
  <2>3. ParseToken(Kinds, b, v[x]) = Append(kept, Block(k, <<>>))
    <3>1. v[x][1] = "open" /\ v[x][2] = k
      BY DEF Opening
    <3> QED
      BY <3>1, <2>1, <2>2, <1>0 DEF ParseToken, kept, b
  <2>4. Append(kept, Block(k, <<>>)) \in Blocks \ {<<>>}
    BY <1>0, <1>12, NoBlocks, NewBlocks, BlockWithText
  <2>5. v[x] \in Token
    BY DEF Text
  <2> QED
    BY <2>1, <2>3, <2>4, <2>5, ParsesToken DEF b
<1>22. Parses(Append(kept, Block(k, <<>>)), f, r)
  <2> DEFINE b == Append(kept, Block(k, <<>>))
  <2>0. Block(k, <<>>) \in ABlock /\ Block(k, <<>>).text = <<>> /\ ~Block(k, <<>>).native
    BY <1>0, NoBlocks, NewBlocks
  <2>1. b \in Blocks \ {<<>>} /\ Last(b) = Block(k, <<>>)
    BY <2>0, <1>2, <1>12, BlockWithText
  <2>2. WithText(b, f) = r
    BY <2>0, <1>2, <1>12, BlockWithText DEF r
  <2> HIDE DEF b
  <2>3. <<>> \o f = f
    BY <1>2, ConcatEmptySeq DEF Text
  <2>4. \A i \in 1 .. Len(f) : Plain(Last(b).type, f[i])
    BY <1>2, TextIsPlain
  <2>5. Parses(b, f, WithText(b, Last(b).text \o f))
    BY <2>0, <2>1, <2>4, <1>2, ParsesPlain
  <2> QED
    BY <2>0, <2>1, <2>2, <2>3, <2>5 DEF b
<1>23. Parses(a, v, r)
  <2>1. <<v[x]>> \in Text
    BY DEF Text
  <2>2. u \o <<v[x]>> \in Text
    BY <2>1, <1>2, Joined
  <2>3. Parses(a, u \o <<v[x]>>, Append(kept, Block(k, <<>>)))
    BY <2>1, <1>2, <1>20, <1>21, ParsesOn
  <2>4. Parses(a, (u \o <<v[x]>>) \o f, r)
    BY <2>2, <2>3, <1>2, <1>22, ParsesOn
  <2>5. v = (u \o <<v[x]>>) \o f
    BY InThree DEF u, f
  <2> QED
    BY <2>4, <2>5
<1>24. Parses(bs, v, r)
  <2>1. bs \in Blocks \ {<<>>}
    BY DEF Receives
  <2>2. v # <<>> /\ v[1][1] # "thought"
    <3>1. 1 \in 1 .. Len(v) /\ Len(v) # 0
      BY <1>0
    <3>2. v[1][1] = "text" \/ v[1] = Opening(k)
      BY <3>1
    <3> QED
      BY <3>1, <3>2, TagsDiffer, EmptySeq
  <2> QED
    BY <2>1, <2>2, <1>a, <1>23, ParsesAfterNative
<1> QED
  BY <1>14, <1>15, <1>19, <1>24 DEF cv, f

(* The content that is left when a section ends begins no other. *)
LEMMA NoOpeningLeft ==
  ASSUME NEW c \in Text, NEW v \in Text, NEW k, NEW K,
         \A j \in K : Opening(j) \in ToSet(c) => j = k,
         NEW x \in 1 .. Len(v), v[x] = Closing(k),
         \A i \in 1 .. Len(v) : i # x => v[i][1] = "text"
  PROVE  \A j \in K : Opening(j) \notin ToSet(WithoutSections(k, c \o v))
<1> DEFINE s == c \o v
<1>0. Len(c) \in Nat /\ Len(v) \in Nat /\ DOMAIN c = 1 .. Len(c)
  BY DEF Text
<1>1. /\ s \in Text /\ Len(s) = Len(c) + Len(v)
      /\ \A i \in 1 .. Len(c) : s[i] = c[i]
      /\ \A i \in 1 .. Len(v) : s[Len(c) + i] = v[i]
  BY Joined
<1>2. ToSet(WithoutSections(k, s)) = {s[i] : i \in {j \in DOMAIN s : ~InSection(k, s, j)}}
  BY <1>1, SectionsRemoved
<1>3. DOMAIN s = 1 .. Len(s)
  BY <1>1 DEF Text
<1> HIDE DEF s
<1> SUFFICES ASSUME NEW j \in K, NEW i \in 1 .. Len(s), s[i] = Opening(j), ~InSection(k, s, i)
             PROVE  FALSE
  BY <1>2, <1>3 DEF s
<1>4. CASE i <= Len(c)
  <2>1. c[i] = Opening(j) /\ i \in 1 .. Len(c)
    BY <1>0, <1>1, <1>4
  <2>2. j = k
    BY <2>1, <1>0 DEF ToSet
  <2>3. \E o \in 1 .. i : s[o] = Opening(k) /\ \A l \in o .. i - 1 : s[l] # Closing(k)
    <3>1. i \in 1 .. i /\ \A l \in i .. i - 1 : FALSE
      BY <1>0, <1>1
    <3> QED
      BY <3>1, <2>2
  <2>4. \E l \in i .. Len(s) : s[l] = Closing(k)
    <3>1. Len(c) + x \in i .. Len(s)
      BY <2>1, <1>0, <1>1
    <3>2. s[Len(c) + x] = Closing(k)
      BY <1>1
    <3> QED
      BY <3>1, <3>2
  <2> QED
    BY <2>3, <2>4 DEF InSection
<1>5. CASE i > Len(c)
  <2> DEFINE l == i - Len(c)
  <2>1. l \in 1 .. Len(v) /\ i = Len(c) + l
    BY <1>0, <1>1, <1>5
  <2> HIDE DEF l
  <2>2. v[l] = Opening(j)
    BY <2>1, <1>1
  <2>3. v[l] = Closing(k) \/ v[l][1] = "text"
    BY <2>1
  <2> QED
    BY <2>2, <2>3, TagsDiffer
<1> QED
  BY <1>0, <1>1, <1>4, <1>5

(* A delta that ends a section. *)
LEMMA SectionEnded ==
  ASSUME NEW c \in Text, NEW v \in Text, NEW bs, Receives(bs),
         NEW n \in 1 .. Len(Kinds), NEW k, k = Kinds[n],
         Last(bs).type = k, ~Last(bs).native, ~Last(bs).done,
         \A m \in 1 .. Len(Kinds) : Opening(Kinds[m]) \in ToSet(c) => Kinds[m] = k,
         NEW x \in 1 .. Len(v), v[x] = Closing(k),
         \A i \in 1 .. Len(v) : i # x => v[i][1] = "text",
         k = "code_interpreter" => x = Len(v),
         NEW st, st = AddText(v, c, bs, Kinds)
  PROVE  /\ Parses(bs, v, st.blocks)
         /\ ~st.end => /\ Last(st.blocks).type = "text"
                       /\ \A m \in 1 .. Len(Kinds) : Opening(Kinds[m]) \notin ToSet(st.content)
<1> DEFINE rc == Received(v, c, bs)
           cv == c \o v
           F == Front(bs)
           L == Last(bs)
           t == L.text
           u == UpTo(v, x)
           f == From(v, x)
           tu == t \o u
           tv == t \o v
           code == k = "code_interpreter"
           b1 == [L EXCEPT !.text = tu]
           e == [b1 EXCEPT !.done = (k # "code_interpreter")]
           T(w) == Append(IF tu = <<>> THEN F ELSE Append(F, e), TextBlock(w))
           r == IF tu # <<>> /\ code THEN Append(F, e) ELSE T(f)
<1>0. Len(v) \in Nat /\ k \in SectionTypes /\ k # "text"
  BY KindsDiffer, TextDiffers DEF Text
<1>1. bs \in Blocks /\ bs # <<>> /\ AllFine(bs) /\ NativeEnded(bs) = bs
  BY DEF Receives, NativeEnded
<1>2. /\ F \in Blocks /\ L \in ABlock /\ bs = Append(F, L) /\ \A b : WithLast(bs, b) = Append(F, b)
  BY <1>1, Split
<1>3. t \in Text /\ Closing(k) \notin ToSet(t)
  <2>1. Fine(L)
    BY <1>1, FrontFine
  <2> QED
    BY <2>1, <1>0, <1>2 DEF Fine, ABlock
<1>4. /\ rc \in Handling /\ rc.content = cv /\ rc.end = FALSE
      /\ rc.blocks = WithText(bs, tv)
  <2>1. rc \in Handling
    BY <1>1, ReceivedIs
  <2>2. rc.content = cv /\ rc.end = FALSE
    BY DEF Received
  <2>3. rc.blocks = WithText(bs, tv)
    BY <1>1 DEF Received, WithText
  <2> QED
    BY <2>1, <2>2, <2>3
<1>5. st = HandledUpTo(Kinds, rc)[Len(Kinds)]
  BY DEF AddText
<1>6. /\ u \in Text /\ f \in Text
      /\ \A i \in 1 .. Len(u) : u[i][1] = "text"
      /\ \A i \in 1 .. Len(f) : f[i][1] = "text"
      /\ code => f = <<>>
  <2>1. /\ u \in Text /\ f \in Text
        /\ Len(u) = x - 1 /\ \A i \in 1 .. x - 1 : u[i] = v[i]
        /\ Len(f) = Len(v) - x /\ \A i \in 1 .. Len(v) - x : f[i] = v[x + i]
    BY Cut
  <2> HIDE DEF u, f
  <2>2. \A i \in 1 .. x - 1 : i \in 1 .. Len(v) /\ i # x
    BY <1>0
  <2>3. \A i \in 1 .. Len(v) - x : x + i \in 1 .. Len(v) /\ x + i # x
    BY <1>0
  <2>4. \A i \in 1 .. Len(u) : u[i][1] = "text"
    BY <2>1, <2>2
  <2>5. \A i \in 1 .. Len(f) : f[i][1] = "text"
    BY <2>1, <2>3
  <2>6. code => Len(f) = 0
    BY <2>1, <1>0
  <2>7. code => f = <<>>
    BY <2>1, <2>6, EmptySeq DEF Text
  <2> QED
    BY <2>1, <2>4, <2>5, <2>7
<1>7. UpTo(tv, Len(t) + x) = tu /\ From(tv, Len(t) + x) = f
  BY <1>3, CutJoined
<1>8. Position(Closing(k), tv) = Len(t) + x
  <2>1. \A i \in 1 .. x - 1 : i \in 1 .. Len(v) /\ i # x
    BY <1>0
  <2>2. \A i \in 1 .. x - 1 : v[i] # Closing(k)
    BY <2>1, TagsDiffer
  <2>3. t \in Text /\ Closing(k) \notin ToSet(t)
    BY <1>3
  <2> HIDE DEF t
  <2> QED
    BY <2>2, <2>3, PositionJoined
<1>9. Len(t) + x # 0
  <2>1. Len(t) \in Nat
    BY <1>3 DEF Text
  <2> QED
    BY <2>1, <1>0
<1>10. /\ cv \in Text /\ Closing(k) \in ToSet(cv)
  <2>1. cv \in Text /\ ToSet(cv) = ToSet(c) \union ToSet(v)
    BY Joined
  <2>2. Closing(k) \in ToSet(v)
    BY DEF ToSet, Text
  <2> QED
    BY <2>1, <2>2
<1>11. tu \in Text /\ tv \in Text
  BY <1>3, <1>6, Joined
<1> HIDE DEF rc, cv, u, f, tu, tv, t
<1>12. /\ b1 \in ABlock /\ b1.text = tu /\ b1.type = k /\ b1.done = FALSE /\ b1.native = FALSE
       /\ e \in ABlock /\ e.type = k
       /\ [[L EXCEPT !.text = tv] EXCEPT !.text = tu, !.done = (k # "code_interpreter")] = e
       /\ code => e = b1
  <2>1. b1 \in ABlock /\ b1.text = tu /\ b1.type = k /\ b1.done = FALSE /\ b1.native = FALSE
    BY <1>2, <1>11 DEF ABlock
  <2>2. e \in ABlock /\ e.type = k
    <3> HIDE DEF b1
    <3> QED
      BY <2>1 DEF ABlock
  <2>3. [[L EXCEPT !.text = tv] EXCEPT !.text = tu, !.done = (k # "code_interpreter")] = e
    BY <1>2, <1>11 DEF ABlock
  <2>4. code => e = b1
    <3> HIDE DEF b1
    <3> QED
      BY <2>1 DEF ABlock
  <2> QED
    BY <2>1, <2>2, <2>3, <2>4
<1>13. /\ rc.blocks \in Blocks /\ rc.blocks # <<>> /\ Front(rc.blocks) = F
       /\ Last(rc.blocks).type = k /\ Last(rc.blocks).text = tv
       /\ Last(rc.blocks) = [L EXCEPT !.text = tv]
       /\ \A b : WithLast(rc.blocks, b) = Append(F, b)
  <2> DEFINE B == WithText(bs, tv)
             l == [L EXCEPT !.text = tv]
  <2>1. B = Append(F, l)
    BY <1>2 DEF WithText
  <2>2. l \in ABlock /\ l.type = k /\ l.text = tv
    BY <1>2, <1>11 DEF ABlock
  <2> HIDE DEF B, l
  <2>3. B \in Blocks /\ B # <<>> /\ Last(B) = l /\ Front(B) = F
    BY <2>1, <2>2, <1>2, Added
  <2>4. \A b : WithLast(B, b) = Append(F, b)
    BY <2>3, Split
  <2>5. rc.blocks = B
    BY <1>4 DEF B
  <2> QED
    BY <2>2, <2>3, <2>4, <2>5 DEF l
<1>14. EndSection(k, rc.blocks) = r
  <2> DEFINE b == Last(rc.blocks)
             i == Position(Closing(k), b.text)
             inner == IF i = 0 THEN b.text ELSE UpTo(b.text, i)
             ended == [b EXCEPT !.text = inner, !.done = (k # "code_interpreter")]
  <2>1. i = Len(t) + x
    BY <1>8, <1>13
  <2>2. inner = tu
    BY <2>1, <1>7, <1>9, <1>13
  <2>3. ended = e
    BY <2>2, <1>12, <1>13
  <2>4. Leftover(b.text, i) = f
    BY <2>1, <1>7, <1>9, <1>13 DEF Leftover
  <2>5. EndSection(k, rc.blocks) =
          CASE inner = <<>> -> Append(Front(rc.blocks), TextBlock(Leftover(b.text, i)))
            [] inner # <<>> /\ k = "code_interpreter" -> WithLast(rc.blocks, ended)
            [] OTHER -> Append(WithLast(rc.blocks, ended), TextBlock(Leftover(b.text, i)))
    BY DEF EndSection
  <2> HIDE DEF b, i, inner, ended, e
  <2>6. EndSection(k, rc.blocks) =
          CASE tu = <<>> -> Append(F, TextBlock(f))
            [] tu # <<>> /\ k = "code_interpreter" -> Append(F, e)
            [] OTHER -> Append(Append(F, e), TextBlock(f))
    BY <2>2, <2>3, <2>4, <2>5, <1>13
  <2> QED
    BY <2>6
<1> DEFINE h == HandleTag(k, rc)
           W == WithoutSections(k, cv)
<1>15. h = [content |-> W, blocks |-> r, end |-> code]
  <2>1. Ends(k, rc)
    BY <1>4, <1>10, <1>13, PositionIn DEF Ends
  <2>2. HandleTag(k, rc) = [content |-> WithoutSections(k, rc.content),
                            blocks |-> EndSection(k, rc.blocks),
                            end |-> k = "code_interpreter"]
    BY <2>1, <1>0, TagHandled
  <2> QED
    BY <2>2, <1>4, <1>14
<1>16. W \in Text /\ \A m \in 1 .. Len(Kinds) : Opening(Kinds[m]) \notin ToSet(W)
  <2>1. W \in Text
    BY <1>10, SectionsRemoved
  <2> DEFINE K == {Kinds[m] : m \in 1 .. Len(Kinds)}
  <2>2. \A j \in K : Opening(j) \in ToSet(c) => j = k
    OBVIOUS
  <2>3. \A j \in K : Opening(j) \notin ToSet(W)
    <3> HIDE DEF K
    <3> QED
      BY <2>2, NoOpeningLeft DEF cv
  <2> QED
    BY <2>1, <2>3
<1> HIDE DEF W, e, b1
<1>17. /\ \A w \in Text : /\ T(w) \in Blocks \ {<<>>} /\ Last(T(w)) = TextBlock(w)
                          /\ WithText(T(<<>>), w) = T(w)
       /\ Append(F, e) \in Blocks \ {<<>>} /\ Last(Append(F, e)) = e
  <2>1. Append(F, e) \in Blocks \ {<<>>} /\ Last(Append(F, e)) = e
    BY <1>2, <1>12, Added
  <2> DEFINE G == IF tu = <<>> THEN F ELSE Append(F, e)
  <2>2. G \in Blocks
    BY <2>1, <1>2
  <2> HIDE DEF G
  <2>3. ASSUME NEW w \in Text
        PROVE  /\ Append(G, TextBlock(w)) \in Blocks \ {<<>>} /\ Last(Append(G, TextBlock(w))) = TextBlock(w)
               /\ WithText(Append(G, TextBlock(<<>>)), w) = Append(G, TextBlock(w))
    <3>1. TextBlock(w) \in ABlock /\ TextBlock(<<>>) \in ABlock
      BY NoBlocks, NewBlocks
    <3>2. Append(G, TextBlock(w)) \in Blocks \ {<<>>} /\ Last(Append(G, TextBlock(w))) = TextBlock(w)
      BY <3>1, <2>2, Added
    <3>3. WithText(Append(G, TextBlock(<<>>)), w) = Append(G, TextBlock(w))
      BY <3>1, <2>2, BlockWithText DEF TextBlock
    <3> QED
      BY <3>2, <3>3
  <2> QED
    BY <2>1, <2>3 DEF G
<1> HIDE DEF T
<1>18. r \in Blocks \ {<<>>} /\ Last(r).type \in {"text", k} /\ (~code => Last(r).type = "text")
  <2>1. TextBlock(f).type = "text"
    BY <1>6, NewBlocks
  <2> QED
    BY <2>1, <1>6, <1>12, <1>17
<1> HIDE DEF h
<1>19. ASSUME NEW m \in 1 .. n - 1
       PROVE  Idle(Kinds[m], rc)
  <2>1. m \in 1 .. Len(Kinds) /\ n \in m + 1 .. Len(Kinds)
    BY TextAssumption
  <2>2. Kinds[m] # k /\ Kinds[m] # "text"
    BY <2>1, KindsDiffer, TextDiffers
  <2> QED
    BY <2>2, <1>0, <1>13 DEF Idle, Begins, Ends
<1>20. ASSUME NEW m \in n + 1 .. Len(Kinds)
       PROVE  Idle(Kinds[m], h)
  <2>1. Kinds[m] # k /\ m \in 1 .. Len(Kinds)
    BY KindsDiffer
  <2>2. Kinds[m] # "text"
    BY <2>1, KindsDiffer, TextDiffers
  <2>3. h.content = W /\ h.blocks = r
    BY <1>15
  <2>4. ~Begins(Kinds[m], h)
    BY <2>1, <2>3, <1>16, PositionIn DEF Begins
  <2>5. ~Ends(Kinds[m], h)
    BY <2>1, <2>2, <2>3, <1>18 DEF Ends
  <2> QED
    BY <2>4, <2>5 DEF Idle
<1>21. st = h
  BY <1>4, <1>5, <1>19, <1>20, OneHandles DEF h
<1>22. st.content = W /\ st.blocks = r /\ st.end = code
  BY <1>15, <1>21
<1>23. Parses(bs, u, Append(F, b1))
  <2>1. WithText(bs, tu) = Append(F, b1)
    BY <1>2 DEF WithText, b1
  <2>2. \A i \in 1 .. Len(u) : Plain(Last(bs).type, u[i])
    BY <1>6, TextIsPlain
  <2> QED
    BY <2>1, <2>2, <1>1, <1>6, ParsesPlain DEF tu, t
<1> DEFINE p == IF tu # <<>> /\ code THEN Append(F, e) ELSE T(<<>>)
<1>24. Parses(Append(F, b1), <<v[x]>>, p)
  <2> DEFINE b == Append(F, b1)
  <2>1. b \in Blocks \ {<<>>} /\ Last(b) = b1 /\ Front(b) = F /\ \A y : WithLast(b, y) = Append(F, y)
    <3>1. b \in Blocks \ {<<>>} /\ Last(b) = b1 /\ Front(b) = F
      BY <1>2, <1>12, Added
    <3> QED
      BY <3>1, Split
  <2> HIDE DEF b
  <2>2. NativeEnded(b) = b
    BY <2>1, <1>12 DEF NativeEnded
  <2>3. v[x][1] = "close" /\ v[x][2] = k
    BY DEF Closing
  <2>4. ParseToken(Kinds, b, v[x]) = p
    <3>1. CASE tu = <<>>
      <4>1. ParseToken(Kinds, b, v[x]) = Append(F, TextBlock(<<>>))
        BY <3>1, <2>1, <2>2, <2>3, <1>12 DEF ParseToken
      <4> QED
        BY <4>1, <3>1 DEF T
    <3>2. CASE tu # <<>> /\ code
      <4>1. ParseToken(Kinds, b, v[x]) = b
        BY <3>2, <2>1, <2>2, <2>3, <1>12 DEF ParseToken
      <4> QED
        BY <4>1, <3>2, <1>12 DEF b
    <3>3. CASE tu # <<>> /\ ~code
      <4>1. ParseToken(Kinds, b, v[x]) = Append(Append(F, [b1 EXCEPT !.done = TRUE]), TextBlock(<<>>))
        BY <3>3, <2>1, <2>2, <2>3, <1>12 DEF ParseToken
      <4>2. e = [b1 EXCEPT !.done = TRUE]
        BY <3>3, <1>12 DEF e, ABlock
      <4> QED
        BY <4>1, <4>2, <3>3 DEF T
    <3> QED
      BY <3>1, <3>2, <3>3
  <2>5. p \in Blocks \ {<<>>}
    BY <1>17, NoBlocks
  <2>6. v[x] \in Token
    BY DEF Text
  <2> HIDE DEF p
  <2> QED
    BY <2>1, <2>4, <2>5, <2>6, ParsesToken DEF b
<1>25. Parses(p, f, r)
  <2>1. CASE tu # <<>> /\ code
    <3>1. WithText(p, Last(p).text \o f) = p /\ p \in Blocks \ {<<>>} /\ ~Last(p).native
      <4> DEFINE q == Append(F, e)
      <4>1. q \in Blocks \ {<<>>} /\ Last(q) = e /\ p = q
        BY <2>1, <1>17
      <4> HIDE DEF q, p
      <4>2. e.text \in Text /\ ~e.native
        BY <2>1, <1>11, <1>12
      <4>3. e.text \o f = e.text
        BY <2>1, <4>2, <1>6, ConcatEmptySeq DEF Text
      <4>4. WithText(q, Last(q).text) = q
        BY <4>1, NoBlocks, WithTextMade
      <4> QED
        BY <4>1, <4>2, <4>3, <4>4
    <3>2. r = p
      BY <2>1
    <3>3. \A i \in 1 .. Len(f) : Plain(Last(p).type, f[i])
      BY <1>6, TextIsPlain
    <3> HIDE DEF p, r
    <3> QED
      BY <3>1, <3>2, <3>3, <1>6, ParsesPlain
  <2>2. CASE ~(tu # <<>> /\ code)
    <3>1. p = T(<<>>) /\ r = T(f)
      BY <2>2
    <3>2. p \in Blocks \ {<<>>} /\ Last(p) = TextBlock(<<>>) /\ WithText(p, f) = r
      BY <3>1, <1>6, <1>17, NoBlocks
    <3> HIDE DEF p, r
    <3>3. TextBlock(<<>>).text = <<>> /\ ~TextBlock(<<>>).native
      BY NoBlocks, NewBlocks
    <3>4. <<>> \o f = f
      BY <1>6, ConcatEmptySeq DEF Text
    <3>5. \A i \in 1 .. Len(f) : Plain(Last(p).type, f[i])
      BY <1>6, TextIsPlain
    <3>6. Parses(p, f, WithText(p, Last(p).text \o f))
      BY <3>2, <3>3, <3>5, <1>6, ParsesPlain
    <3> QED
      BY <3>2, <3>3, <3>4, <3>6
  <2> QED
    BY <2>1, <2>2
<1> HIDE DEF p, r
<1>26. Parses(bs, v, r)
  <2>1. <<v[x]>> \in Text
    BY DEF Text
  <2>2. u \o <<v[x]>> \in Text
    BY <2>1, <1>6, Joined
  <2>3. Parses(bs, u \o <<v[x]>>, p)
    BY <2>1, <1>6, <1>23, <1>24, ParsesOn
  <2>4. Parses(bs, (u \o <<v[x]>>) \o f, r)
    BY <2>2, <2>3, <1>6, <1>25, ParsesOn
  <2>5. v = (u \o <<v[x]>>) \o f
    BY InThree DEF u, f
  <2> QED
    BY <2>4, <2>5
<1> QED
  BY <1>16, <1>18, <1>22, <1>26

-----------------------------------------------------------------------------
(* Deltas of a text with one section. *)

Nice == \A d \in Deltas : OneTag(d) /\ NothingBegins(d)

LEMMA TagIs ==
  ASSUME NEW t \in Token
  PROVE  /\ t[1] = "open" => t = Opening(t[2]) /\ t[2] \in SectionTypes
         /\ t[1] = "close" => t = Closing(t[2]) /\ t[2] \in SectionTypes
         /\ t \in Tags <=> t[1] \in {"open", "close"}
<1>1. CASE t \in Tags
  <2>1. PICK k \in SectionTypes : t = Opening(k) \/ t = Closing(k)
    BY <1>1 DEF Tags
  <2> QED
    BY <1>1, <2>1 DEF Opening, Closing
<1>2. CASE t \notin Tags
  <2>1. t[1] \in {"text", "thought"}
    BY <1>2, TagsDiffer DEF Token
  <2> QED
    BY <1>2, <2>1
<1> QED
  BY <1>1, <1>2

(* Beside its tag, a delta is text. *)
LEMMA OneTagNumbered ==
  ASSUME deltas \in Nat, NEW d \in Deltas, OneTag(d),
         NEW v, v = [i \in DOMAIN d |-> IF d[i] = Piece(0) THEN Piece(10 * (deltas + 1) + i) ELSE d[i]]
  PROVE  /\ \A i \in 1 .. Len(v) : v[i] \in Tags \/ v[i][1] = "text"
         /\ \A i, j \in 1 .. Len(v) : v[i] \in Tags /\ i # j => v[j][1] = "text"
<1>1. d \in Seq(Tags \union {Piece(0)}) /\ v \in Text
  BY TextAssumption, Numbered
<1>2. DOMAIN d = 1 .. Len(d) /\ Len(d) \in Nat /\ Len(v) = Len(d)
  <2>1. DOMAIN v = DOMAIN d
    OBVIOUS
  <2>2. DOMAIN v = 1 .. Len(v) /\ Len(v) \in Nat
    BY <1>1, LenProperties DEF Text
  <2>3. DOMAIN d = 1 .. Len(d) /\ Len(d) \in Nat
    BY <1>1
  <2>4. \A p, q \in Nat : 1 .. p = 1 .. q => p = q
    OBVIOUS
  <2> QED
    BY <2>1, <2>2, <2>3, <2>4
<1>3. \A i \in 1 .. Len(v) : (v[i] = d[i] /\ d[i] \in Tags) \/ (v[i][1] = "text" /\ v[i] \notin Tags)
  <2> SUFFICES ASSUME NEW i \in 1 .. Len(d)
               PROVE  (v[i] = d[i] /\ d[i] \in Tags) \/ (v[i][1] = "text" /\ v[i] \notin Tags)
    BY <1>2
  <2>1. v[i] = IF d[i] = Piece(0) THEN Piece(10 * (deltas + 1) + i) ELSE d[i]
    BY <1>2
  <2>2. d[i] \in Tags \/ d[i] = Piece(0)
    BY <1>1, <1>2
  <2>3. \A m : Piece(m)[1] = "text" /\ Piece(m) \notin Tags
    BY TagsDiffer DEF Tags
  <2>4. CASE d[i] = Piece(0)
    <3>1. v[i] = Piece(10 * (deltas + 1) + i)
      BY <2>1, <2>4
    <3> QED
      BY <3>1, <2>3
  <2>5. CASE d[i] # Piece(0)
    BY <2>1, <2>2, <2>5
  <2> QED
    BY <2>4, <2>5
<1>4. \A i, j \in 1 .. Len(v) : d[i] \in Tags /\ d[j] \in Tags => i = j
  BY <1>2 DEF OneTag
<1> QED
  BY <1>3, <1>4

(* What has been heard, but for native reasoning at its beginning, is text. *)
NoTags(s) == \A i \in DOMAIN s : s[i][1] \notin {"open", "close"}
ThoughtsFirst(s) == \A j \in DOMAIN s : s[j][1] = "thought" => \A k \in 1 .. j : s[k][1] = "thought"

LEMMA SectionsBefore ==
  ASSUME NEW s \in Text, NEW w \in Text
  PROVE  /\ OneSection(s \o w) => OneSection(s)
         /\ NoTags(s \o w) => NoTags(s)
         /\ ThoughtsFirst(s \o w) => ThoughtsFirst(s)
<1>1. /\ s \o w \in Text /\ Len(s \o w) = Len(s) + Len(w)
      /\ \A i \in 1 .. Len(s) : (s \o w)[i] = s[i]
  BY Joined
<1>2. DOMAIN s = 1 .. Len(s) /\ DOMAIN (s \o w) = 1 .. Len(s \o w) /\ Len(s) \in Nat /\ Len(w) \in Nat
  BY <1>1 DEF Text
<1>3. \A i \in DOMAIN s : i \in DOMAIN (s \o w) /\ (s \o w)[i] = s[i]
  BY <1>1, <1>2
<1>4. \A j \in DOMAIN s : \A k \in 1 .. j : k \in DOMAIN s
  BY <1>2
<1> DEFINE t == s \o w
<1> HIDE DEF t
<1>5. \A i \in DOMAIN s : i \in DOMAIN t /\ t[i] = s[i]
  BY <1>3 DEF t
<1>6. OneSection(t) => OneSection(s)
  BY <1>4, <1>5 DEF OneSection
<1>7. NoTags(t) => NoTags(s)
  BY <1>5 DEF NoTags
<1>8. ThoughtsFirst(t) => ThoughtsFirst(s)
  BY <1>4, <1>5 DEF ThoughtsFirst
<1> QED
  BY <1>6, <1>7, <1>8 DEF t

LEMMA FirstTag ==
  ASSUME NEW s \in Text, NEW w \in Text, OneSection(s \o w),
         NEW x \in 1 .. Len(w), w[x][1] = "open"
  PROVE  NoTags(s) /\ ThoughtsFirst(s)
<1> DEFINE t == s \o w
           y == Len(s) + x
<1>1. /\ t \in Text /\ Len(t) = Len(s) + Len(w)
      /\ \A i \in 1 .. Len(s) : t[i] = s[i]
      /\ \A i \in 1 .. Len(w) : t[Len(s) + i] = w[i]
  BY Joined
<1> HIDE DEF t
<1>2. DOMAIN s = 1 .. Len(s) /\ DOMAIN t = 1 .. Len(t) /\ Len(s) \in Nat /\ Len(w) \in Nat
  BY <1>1 DEF Text
<1>3. y \in DOMAIN t /\ t[y][1] = "open"
  BY <1>1, <1>2
<1>4. \A j \in DOMAIN s : j \in DOMAIN t /\ t[j] = s[j] /\ j < y /\ \A k \in 1 .. j : t[k] = s[k]
  BY <1>1, <1>2
<1>5. \A j \in DOMAIN t : /\ j < y => t[j][1] \notin {"open", "close"}
                          /\ t[j][1] = "thought" => \A k \in 1 .. j : t[k][1] = "thought"
  BY <1>3 DEF OneSection, t
<1>6. NoTags(s)
  BY <1>4, <1>5 DEF NoTags
<1>7. ThoughtsFirst(s)
  BY <1>4, <1>5 DEF ThoughtsFirst
<1> QED
  BY <1>6, <1>7

LEMMA OneOpening ==
  ASSUME NEW s \in Text, OneSection(s), NEW j, NEW k,
         Opening(j) \in ToSet(s), Opening(k) \in ToSet(s)
  PROVE  j = k
<1>1. DOMAIN s \subseteq Nat
  BY DEF Text
<1>2. PICK x \in DOMAIN s : s[x] = Opening(j)
  BY DEF ToSet
<1>3. PICK y \in DOMAIN s : s[y] = Opening(k)
  BY DEF ToSet
<1>4. s[x][1] = "open" /\ s[y][1] = "open"
  BY <1>2, <1>3, TagsDiffer
<1>5. ~(x < y) /\ ~(y < x)
  BY <1>4 DEF OneSection
<1>6. x = y
  BY <1>1, <1>5
<1> QED
  BY <1>2, <1>3, <1>6, TagsDiffer


-----------------------------------------------------------------------------
(* The stream with one section: it has not begun or has ended, or is open. *)

BetweenSections(bs, c, s) ==
  /\ Last(NativeEnded(bs)).type = "text"
  /\ \A n \in 1 .. Len(Kinds) : Opening(Kinds[n]) \notin ToSet(c)
  /\ NoTags(s) /\ ThoughtsFirst(s) => Last(NativeEnded(bs)).text = c
SectionOpen(bs, c, s) ==
  \E n \in 1 .. Len(Kinds) :
    /\ Last(bs).type = Kinds[n] /\ ~Last(bs).native /\ ~Last(bs).done
    /\ Opening(Kinds[n]) \in ToSet(s) /\ Closing(Kinds[n]) \notin ToSet(c)

(* Native reasoning before any text, after which nothing but it was heard. *)
Silent == (\A i \in DOMAIN heard : heard[i][1] = "thought") => content = <<>>
Parsing ==
  /\ Silent
  /\ loop = "first" /\ OneSection(heard) /\ Nice =>
       /\ Parses(<<TextBlock(<<>>)>>, heard, blocks)
       /\ at \in {"start", "stream"} =>
            BetweenSections(blocks, content, heard) \/ SectionOpen(blocks, content, heard)

LEMMA TextParsing ==
  ASSUME NEW s \in Text, NEW c \in Text, NEW v \in Text, v # <<>>, NEW bs, Receives(bs),
         ToSet(c) \subseteq ToSet(s), OneSection(s \o v), NothingBegins(v),
         \A i \in 1 .. Len(v) : v[i] \in Tags \/ v[i][1] = "text",
         \A i, j \in 1 .. Len(v) : v[i] \in Tags /\ i # j => v[j][1] = "text",
         BetweenSections(bs, c, s) \/ SectionOpen(bs, c, s),
         NEW st, st = AddText(v, c, bs, Kinds)
  PROVE  /\ Parses(bs, v, st.blocks)
         /\ ~st.end => \/ BetweenSections(st.blocks, st.content, s \o v)
                       \/ SectionOpen(st.blocks, st.content, s \o v)
<1> DEFINE a == NativeEnded(bs)
           t == s \o v
           cv == c \o v
<1>0. DOMAIN v = 1 .. Len(v) /\ Len(v) \in Nat /\ DOMAIN s = 1 .. Len(s)
  BY LenProperties DEF Text
<1>1. /\ t \in Text /\ cv \in Text
      /\ ToSet(t) = ToSet(s) \union ToSet(v) /\ ToSet(cv) = ToSet(c) \union ToSet(v)
  BY Joined
<1>2. \A i \in 1 .. Len(v) : v[i] \in Token /\ v[i] \in ToSet(v)
  BY <1>0 DEF Text, ToSet
<1>3. \A n \in 1 .. Len(Kinds) : Kinds[n] \in SectionTypes /\ Kinds[n] # "text"
  BY KindsDiffer, TextDiffers
<1>4. \A k : \A i \in 1 .. Len(v) :
        /\ v[i] = Opening(k) => v[i][1] = "open" /\ v[i][2] = k
        /\ v[i] = Closing(k) => v[i][1] = "close" /\ v[i][2] = k
  BY DEF Opening, Closing
<1>5. \A i \in 1 .. Len(v) :
        /\ v[i][1] # "thought"
        /\ v[i][1] = "open" => v[i] = Opening(v[i][2]) /\ v[i] \in Tags
        /\ v[i][1] = "close" => v[i] = Closing(v[i][2]) /\ v[i] \in Tags /\ v[i][2] \in SectionTypes
  BY <1>2, TagIs
<1>6. \A k : Contains(Kinds, k) => \E n \in 1 .. Len(Kinds) : Kinds[n] = k
  BY TextAssumption DEF Contains
<1> HIDE DEF a, t, cv
<1>10. ASSUME BetweenSections(bs, c, s), \A x \in 1 .. Len(v), n \in 1 .. Len(Kinds) : v[x] # Opening(Kinds[n])
       PROVE  Parses(bs, v, st.blocks) /\ BetweenSections(st.blocks, st.content, t)
  <2>1. /\ Last(a).type = "text"
        /\ \A n \in 1 .. Len(Kinds) : Opening(Kinds[n]) \notin ToSet(c)
        /\ NoTags(s) /\ ThoughtsFirst(s) => Last(a).text = c
    BY <1>10 DEF BetweenSections, a
  <2>2. \A i \in 1 .. Len(v) : Plain(Last(a).type, v[i])
    <3> SUFFICES ASSUME NEW i \in 1 .. Len(v)
                 PROVE  Plain("text", v[i])
      BY <2>1
    <3>1. v[i][1] = "open" => ~Contains(Kinds, v[i][2])
      BY <1>5, <1>6, <1>10
    <3>2. v[i][1] = "close" => v[i][2] # "text"
      BY <1>5, TextDiffers
    <3> QED
      BY <3>1, <3>2, <1>5 DEF Plain
  <2>3. \A n \in 1 .. Len(Kinds) : Opening(Kinds[n]) \notin ToSet(cv)
    <3>1. \A n \in 1 .. Len(Kinds) : Opening(Kinds[n]) \notin ToSet(v)
      BY <1>0, <1>10 DEF ToSet
    <3> QED
      BY <3>1, <2>1, <1>1
  <2>4. /\ st.content = cv /\ st.blocks = WithText(a, Last(a).text \o v)
        /\ Parses(bs, v, st.blocks)
    BY <2>1, <2>2, <2>3, StaysInBlock DEF a, cv
  <2>5. a \in Blocks \ {<<>>} /\ ~Last(a).native /\ Last(a).text \in Text
    BY ReceivedIs DEF a
  <2>6. Last(st.blocks).type = "text" /\ Last(st.blocks).text = Last(a).text \o v
    <3> DEFINE w == Last(a).text \o v
    <3>1. w \in Text
      BY <2>5, Joined
    <3>2. st.blocks = WithText(a, w)
      BY <2>4
    <3> HIDE DEF w
    <3>3. Last(st.blocks).type = "text" /\ Last(st.blocks).text = w
      BY <3>1, <3>2, <2>1, <2>5, WithTextMade
    <3> QED
      BY <3>3 DEF w
  <2>7. NativeEnded(st.blocks) = st.blocks
    BY <2>6 DEF NativeEnded
  <2>8. NoTags(t) /\ ThoughtsFirst(t) => NoTags(s) /\ ThoughtsFirst(s)
    BY SectionsBefore DEF t
  <2> QED
    BY <2>1, <2>3, <2>4, <2>6, <2>7, <2>8 DEF BetweenSections, cv
<1>11. ASSUME BetweenSections(bs, c, s), NEW x \in 1 .. Len(v), NEW n \in 1 .. Len(Kinds), v[x] = Opening(Kinds[n])
       PROVE  Parses(bs, v, st.blocks) /\ SectionOpen(st.blocks, st.content, t)
  <2> DEFINE k == Kinds[n]
  <2>1. v[x][1] = "open" /\ v[x] \in Tags
    BY <1>4, <1>5, <1>11
  <2>2. NoTags(s) /\ ThoughtsFirst(s)
    BY <2>1, FirstTag
  <2>3. /\ Last(a).type = "text" /\ Last(a).text = c
        /\ \A m \in 1 .. Len(Kinds) : Opening(Kinds[m]) \notin ToSet(c)
    BY <2>2, <1>11 DEF BetweenSections, a
  <2>4. \A i \in 1 .. Len(v) : i # x => v[i][1] = "text"
    BY <2>1
  <2>5. /\ st.content = cv /\ Last(st.blocks) = Block(k, From(v, x))
        /\ Parses(bs, v, st.blocks)
    BY <2>3, <2>4, <1>11, SectionBegun, SMTT(20) DEF a, cv
  <2>6. Closing(k) \notin ToSet(cv)
    <3>1. Closing(k) \notin ToSet(v)
      <4>1. \A i \in 1 .. Len(v) : v[i][1] # "close"
        BY <2>1, <2>4
      <4> QED
        BY <4>1, <1>0, TagsDiffer DEF ToSet
    <3>2. Closing(k) \notin ToSet(s)
      <4>1. Closing(k)[1] = "close"
        BY TagsDiffer
      <4> QED
        BY <4>1, <2>2 DEF NoTags, ToSet
    <3> QED
      BY <3>1, <3>2, <1>1
  <2>7. Opening(k) \in ToSet(t)
    BY <1>1, <1>2, <1>11
  <2> HIDE DEF k
  <2>8. Last(st.blocks).type = k /\ ~Last(st.blocks).native /\ ~Last(st.blocks).done
    BY <2>5 DEF Block
  <2> QED
    BY <2>5, <2>6, <2>7, <2>8 DEF SectionOpen, k
<1>12. ASSUME NEW n \in 1 .. Len(Kinds), Last(bs).type = Kinds[n], ~Last(bs).native, ~Last(bs).done,
              Opening(Kinds[n]) \in ToSet(s), Closing(Kinds[n]) \notin ToSet(c),
              \A x \in 1 .. Len(v) : v[x] # Closing(Kinds[n])
       PROVE  Parses(bs, v, st.blocks) /\ SectionOpen(st.blocks, st.content, t)
  <2> DEFINE k == Kinds[n]
  <2>1. a = bs /\ k # "text"
    BY <1>3, <1>12 DEF NativeEnded, a
  <2>2. \A i \in 1 .. Len(v) : Plain(k, v[i])
    <3> SUFFICES ASSUME NEW i \in 1 .. Len(v)
                 PROVE  Plain(k, v[i])
      OBVIOUS
    <3>1. v[i][1] = "close" => v[i][2] # k
      BY <1>5, <1>12
    <3> QED
      BY <3>1, <2>1, <1>5 DEF Plain
  <2>3. Closing(k) \notin ToSet(cv)
    <3>1. Closing(k) \notin ToSet(v)
      BY <1>0, <1>12 DEF ToSet
    <3> QED
      BY <3>1, <1>1, <1>12
  <2>4. Last(a).type = k /\ bs = a
    BY <2>1, <1>12
  <2>5. /\ st.content = cv /\ st.blocks = WithText(a, Last(a).text \o v)
        /\ Parses(bs, v, st.blocks)
    <3> HIDE DEF k
    <3>1. \A i \in 1 .. Len(v) : Plain(Last(a).type, v[i])
      BY <2>2, <2>4
    <3>2. Last(a).type # "text" /\ Closing(Last(a).type) \notin ToSet(c \o v)
      BY <2>1, <2>3, <2>4 DEF cv
    <3> QED
      BY <3>1, <3>2, StaysInBlock DEF a, cv
  <2>6. a \in Blocks \ {<<>>} /\ ~Last(a).native /\ Last(a).text \in Text
    BY ReceivedIs DEF a
  <2>7. /\ Last(st.blocks).type = Last(a).type /\ Last(st.blocks).native = Last(a).native
        /\ Last(st.blocks).done = Last(a).done
    <3> DEFINE w == Last(a).text \o v
    <3>1. w \in Text
      BY <2>6, Joined
    <3>2. st.blocks = WithText(a, w)
      BY <2>5
    <3> HIDE DEF w
    <3> QED
      BY <3>1, <3>2, <2>6, WithTextMade
  <2>8. Opening(k) \in ToSet(t)
    BY <1>1, <1>12
  <2> QED
    BY <2>1, <2>3, <2>5, <2>7, <2>8, <1>12 DEF SectionOpen
<1>13. ASSUME NEW n \in 1 .. Len(Kinds), Last(bs).type = Kinds[n], ~Last(bs).native, ~Last(bs).done,
              Opening(Kinds[n]) \in ToSet(s), NEW x \in 1 .. Len(v), v[x] = Closing(Kinds[n])
       PROVE  Parses(bs, v, st.blocks) /\ (~st.end => BetweenSections(st.blocks, st.content, t))
  <2> DEFINE k == Kinds[n]
  <2>1. v[x] \in Tags
    BY <1>4, <1>5, <1>13
  <2>2. \A i \in 1 .. Len(v) : i # x => v[i][1] = "text"
    BY <2>1
  <2>3. OneSection(s)
    BY SectionsBefore
  <2>4. \A m \in 1 .. Len(Kinds) : Opening(Kinds[m]) \in ToSet(c) => Kinds[m] = k
    BY <2>3, <1>13, OneOpening
  <2>5. k = "code_interpreter" => x = Len(v)
    <3> SUFFICES ASSUME k = "code_interpreter", x # Len(v)
                 PROVE  FALSE
      OBVIOUS
    <3>0. x \in 1 .. Len(v) /\ x # Len(v) /\ Len(v) \in Nat
      BY <1>0, <1>13
    <3>1. Len(v) \in DOMAIN v /\ x \in DOMAIN v /\ x < Len(v)
      <4>1. Len(v) \in 1 .. Len(v) /\ x < Len(v)
        BY <3>0
      <4> QED
        BY <3>0, <4>1, <1>0
    <3>2. v[x] # Closing("code_interpreter")
      BY <3>1 DEF NothingBegins
    <3> QED
      BY <3>2, <1>13
  <2>6. /\ Parses(bs, v, st.blocks)
        /\ ~st.end => /\ Last(st.blocks).type = "text"
                      /\ \A m \in 1 .. Len(Kinds) : Opening(Kinds[m]) \notin ToSet(st.content)
    BY <2>2, <2>4, <2>5, <1>13, SectionEnded
  <2>7. Last(st.blocks).type = "text" => NativeEnded(st.blocks) = st.blocks
    BY DEF NativeEnded
  <2>8. ~NoTags(t)
    <3>1. Opening(k) \in ToSet(t)
      BY <1>1, <1>13
    <3> QED
      BY <3>1, TagsDiffer DEF NoTags, ToSet
  <2> QED
    BY <2>6, <2>7, <2>8 DEF BetweenSections
<1> QED
  BY <1>10, <1>11, <1>12, <1>13 DEF SectionOpen, t

LEMMA ParsingBegins == Init => Parsing
<1> SUFFICES ASSUME Init
             PROVE  Parsing
  OBVIOUS
<1> DEFINE b == TextBlock(<<>>)
           a == <<b>>
<1>1. /\ content = <<>> \/ content = <<Piece(0)>>
      /\ blocks = <<TextBlock(content)>> /\ heard = content /\ at = "start"
  BY DEF Init
<1>2. content \in Text
  BY FirstTypes DEF Types
<1>3. /\ Len(content) \in {0, 1} /\ DOMAIN content = 1 .. Len(content)
      /\ \A i \in 1 .. Len(content) : content[i] = Piece(0)
  BY <1>1
<1>4. \A i \in 1 .. Len(content) : content[i][1] = "text"
  BY <1>3, TagsDiffer
<1>5. Silent
  <2> SUFFICES ASSUME \A i \in DOMAIN heard : heard[i][1] = "thought", content # <<>>
               PROVE  FALSE
    BY DEF Silent
  <2>1. 1 \in DOMAIN content /\ content[1][1] = "text"
    BY <1>1, TagsDiffer
  <2> QED
    BY <2>1, <1>1
<1>6. /\ a \in Blocks \ {<<>>} /\ Last(a) = b /\ b.type = "text" /\ b.text = <<>> /\ ~b.native
      /\ WithText(a, content) = blocks
  <2>1. b \in ABlock /\ b.type = "text" /\ b.text = <<>> /\ ~b.native
    <3>1. b \in ABlock
      BY NoBlocks, NewBlocks
    <3> QED
      BY <3>1 DEF TextBlock, Block
  <2>2. a = Append(<<>>, b) /\ blocks = Append(<<>>, TextBlock(content))
    BY <1>1
  <2> QED
    BY <2>1, <2>2, <1>2, NoBlocks, BlockWithText DEF TextBlock
<1>7. Parses(a, content, blocks)
  <2>1. \A i \in 1 .. Len(content) : Plain("text", content[i])
    BY <1>2, <1>4, TextIsPlain
  <2>2. Last(a).text \o content = content
    <3>1. content \in Seq(Token)
      BY <1>2 DEF Text
    <3> QED
      BY <3>1, <1>6, ConcatEmptySeq
  <2> HIDE DEF a, b
  <2> QED
    BY <2>1, <2>2, <1>2, <1>6, ParsesPlain
<1>8. BetweenSections(blocks, content, heard)
  <2>1. Last(blocks).type = "text" /\ Last(blocks).text = content
    <3> HIDE DEF a, b
    <3> QED
      BY <1>2, <1>6, WithTextMade
  <2>2. NativeEnded(blocks) = blocks
    BY <2>1 DEF NativeEnded
  <2>3. \A n \in 1 .. Len(Kinds) : Opening(Kinds[n]) \notin ToSet(content)
    BY <1>2, <1>4, TextIsPlain
  <2> QED
    BY <2>1, <2>2, <2>3 DEF BetweenSections
<1> QED
  BY <1>1, <1>5, <1>7, <1>8 DEF Parsing, a, b

LEMMA SameParsing ==
  ASSUME Parsing, UNCHANGED <<content, heard>>,
         loop' = "first" => /\ loop = "first" /\ blocks' = blocks
                            /\ at' \in {"start", "stream"} => at \in {"start", "stream"}
  PROVE  Parsing'
<1>1. Silent'
  BY DEF Parsing, Silent
<1>2. Nice' <=> Nice
  BY DEF Nice, OneTag, NothingBegins
<1>3. OneSection(heard') <=> OneSection(heard)
  BY DEF OneSection
<1>4. ASSUME loop' = "first", OneSection(heard'), Nice
      PROVE  /\ Parses(<<TextBlock(<<>>)>>, heard', blocks')
             /\ at' \in {"start", "stream"} =>
                  BetweenSections(blocks', content', heard') \/ SectionOpen(blocks', content', heard')
  <2>1. loop = "first" /\ OneSection(heard) /\ blocks' = blocks /\ content' = content /\ heard' = heard
    BY <1>3, <1>4
  <2>2. /\ Parses(<<TextBlock(<<>>)>>, heard, blocks)
        /\ at \in {"start", "stream"} =>
             BetweenSections(blocks, content, heard) \/ SectionOpen(blocks, content, heard)
    BY <2>1, <1>4 DEF Parsing
  <2> QED
    BY <2>1, <2>2, <1>4
<1> QED
  BY <1>1, <1>2, <1>4 DEF Parsing

LEMMA ParsingStep ==
  ASSUME Types, Loops, InOrder, AllThere, Parsing, Next
  PROVE  Parsing'
<1> USE DEF parse, stream, rounds, account
<1>0. blocks \in Blocks /\ blocks # <<>> /\ heard \in Text /\ content \in Text
  BY DEF Types, TypeOK
<1>a. Nice' <=> Nice
  BY DEF Nice, OneTag, NothingBegins
<1>3. ASSUME NEW d \in Deltas, TextDelta(d)
      PROVE  Parsing'
  <2> DEFINE v == [i \in DOMAIN d |-> IF d[i] = Piece(0) THEN Piece(10 * (deltas + 1) + i) ELSE d[i]]
             st == AddText(v, content, blocks, Kinds)
  <2>0. deltas \in Nat
    BY BoundAssumption DEF Types, TypeOK
  <2>1. v \in Text /\ v # <<>> /\ (NothingBegins(d) => NothingBegins(v))
    BY <2>0, Numbered
  <2>2. OneTag(d) => /\ \A i \in 1 .. Len(v) : v[i] \in Tags \/ v[i][1] = "text"
                     /\ \A i, j \in 1 .. Len(v) : v[i] \in Tags /\ i # j => v[j][1] = "text"
    BY <2>0, OneTagNumbered
  <2>3. v[1][1] # "thought"
    <3>1. 1 \in DOMAIN v
      BY <2>1, EmptySeq, LenProperties DEF Text
    <3>2. 1 \in DOMAIN d /\ d \in Seq(Tags \union {Piece(0)})
      BY <3>1, TextAssumption
    <3>3. d[1] \in Tags \/ d[1] = Piece(0)
      BY <3>2
    <3>4. \A t \in Tags : t[1] # "thought"
      BY TagsDiffer DEF Tags
    <3> QED
      BY <3>2, <3>3, <3>4, TagsDiffer
  <2>4. /\ at = "stream" /\ loop' = loop
        /\ content' = st.content /\ blocks' = st.blocks /\ heard' = heard \o v
        /\ IF st.end THEN at' = "closing" ELSE at' = "stream"
    BY <1>3 DEF TextDelta, Receiving
  <2> HIDE DEF v
  <2>5. Silent'
    <3>1. Len(heard) + 1 \in DOMAIN heard' /\ heard'[Len(heard) + 1] = v[1]
      <4>1. Len(v) \in Nat \ {0} /\ Len(heard) \in Nat
        BY <1>0, <2>1, EmptySeq, LenProperties DEF Text
      <4>2. /\ heard \o v \in Text /\ Len(heard \o v) = Len(heard) + Len(v)
            /\ \A i \in 1 .. Len(v) : (heard \o v)[Len(heard) + i] = v[i]
        BY <1>0, <2>1, Joined
      <4>3. DOMAIN (heard \o v) = 1 .. Len(heard \o v) /\ 1 \in 1 .. Len(v)
        BY <4>1, <4>2 DEF Text
      <4> QED
        BY <4>1, <4>2, <4>3, <2>4
    <3> QED
      BY <3>1, <2>3 DEF Silent
  <2>6. ASSUME loop' = "first", OneSection(heard'), Nice
        PROVE  /\ Parses(<<TextBlock(<<>>)>>, heard', blocks')
               /\ at' \in {"start", "stream"} =>
                    BetweenSections(blocks', content', heard') \/ SectionOpen(blocks', content', heard')
    <3>1. OneTag(d) /\ NothingBegins(v) /\ OneSection(heard \o v)
      BY <2>1, <2>4, <2>6 DEF Nice
    <3>2. OneSection(heard)
      BY <3>1, <1>0, <2>1, SectionsBefore
    <3>3. /\ Parses(<<TextBlock(<<>>)>>, heard, blocks)
          /\ BetweenSections(blocks, content, heard) \/ SectionOpen(blocks, content, heard)
      BY <3>2, <2>4, <2>6 DEF Parsing
    <3>4. Receives(blocks) /\ ToSet(content) \subseteq ToSet(heard)
      BY <1>0, <2>4 DEF InOrder, Receives, AllThere
    <3>5. /\ Parses(blocks, v, st.blocks)
          /\ ~st.end => \/ BetweenSections(st.blocks, st.content, heard \o v)
                        \/ SectionOpen(st.blocks, st.content, heard \o v)
      BY <3>1, <3>3, <3>4, <1>0, <2>1, <2>2, TextParsing
    <3>6. Parses(<<TextBlock(<<>>)>>, heard \o v, st.blocks)
      <4> DEFINE base == <<TextBlock(<<>>)>>
      <4> HIDE DEF base, st
      <4>1. Parses(base, heard, blocks)
        BY <3>3 DEF base
      <4>2. Parses(base, heard \o v, st.blocks)
        BY <4>1, <3>5, <1>0, <2>1, ParsesOn
      <4> QED
        BY <4>2 DEF base
    <3> HIDE DEF st
    <3> QED
      BY <3>5, <3>6, <2>4
  <2> HIDE DEF st
  <2> QED
    BY <2>5, <2>6, <1>a DEF Parsing
<1>4. CASE ReasoningDelta
  <2> DEFINE m == 10 * (deltas + 1)
             t == Thought(m)
             w == <<t>>
  <2>1. m \in Nat
    BY BoundAssumption DEF Types, TypeOK
  <2>2. /\ at = "stream" /\ UNCHANGED <<at, loop, content>>
        /\ blocks' = AddReasoning(w, blocks) /\ heard' = heard \o w
    BY <1>4 DEF ReasoningDelta, Receiving
  <2> HIDE DEF m
  <2>3. t \in Token /\ t[1] = "thought"
    BY <2>1, TagsDiffer DEF Token
  <2>4. Receives(blocks)
    BY <1>0, <2>2 DEF InOrder, Receives
  <2>5. blocks' \in Blocks /\ blocks' # <<>> /\ Last(blocks').type = "reasoning"
    <3>1. Receives(blocks') /\ Last(blocks').type = "reasoning"
      BY <2>1, <2>2, <2>4, ReasoningAdded
    <3> QED
      BY <3>1 DEF Receives
  <2> HIDE DEF t
  <2>6. w \in Text /\ Len(w) = 1 /\ w[1] = t
    BY <2>3 DEF Text
  <2> HIDE DEF w
  <2>7. /\ heard' \in Text /\ Len(heard') = Len(heard) + 1 /\ Len(heard) \in Nat
        /\ DOMAIN heard' = 1 .. Len(heard) + 1 /\ DOMAIN heard = 1 .. Len(heard)
        /\ heard'[Len(heard) + 1] = t
        /\ \A i \in 1 .. Len(heard) : heard'[i] = heard[i]
    <3>1. /\ heard \o w \in Text /\ Len(heard \o w) = Len(heard) + Len(w) /\ Len(heard) \in Nat
          /\ \A i \in 1 .. Len(heard) : (heard \o w)[i] = heard[i]
          /\ \A i \in 1 .. Len(w) : (heard \o w)[Len(heard) + i] = w[i]
      <4>1. Len(heard) \in Nat
        BY <1>0 DEF Text
      <4> QED
        BY <4>1, <1>0, <2>6, Joined
    <3>2. DOMAIN (heard \o w) = 1 .. Len(heard \o w) /\ DOMAIN heard = 1 .. Len(heard)
      BY <3>1, <1>0 DEF Text
    <3> QED
      BY <3>1, <3>2, <2>2, <2>6
  <2>8. Silent'
    <3>1. \A i \in DOMAIN heard : i \in DOMAIN heard' /\ heard'[i] = heard[i]
      BY <2>7
    <3> QED
      BY <3>1, <2>2 DEF Parsing, Silent
  <2>9. ASSUME loop' = "first", OneSection(heard'), Nice
        PROVE  /\ Parses(<<TextBlock(<<>>)>>, heard', blocks')
               /\ BetweenSections(blocks', content', heard')
    <3>1. OneSection(heard)
      BY <2>2, <2>6, <2>9, <1>0, SectionsBefore
    <3>2. /\ Parses(<<TextBlock(<<>>)>>, heard, blocks)
          /\ BetweenSections(blocks, content, heard) \/ SectionOpen(blocks, content, heard)
      BY <3>1, <2>2, <2>9 DEF Parsing
    <3>3. BetweenSections(blocks, content, heard)
      <4> SUFFICES ASSUME SectionOpen(blocks, content, heard)
                   PROVE  FALSE
        BY <3>2
      <4>1. PICK k : Opening(k) \in ToSet(heard)
        BY DEF SectionOpen
      <4>2. PICK i \in DOMAIN heard : heard[i] = Opening(k)
        BY <4>1 DEF ToSet
      <4>3. i \in DOMAIN heard' /\ heard'[i][1] = "open"
        BY <4>2, <2>7, TagsDiffer
      <4>4. Len(heard) + 1 \in DOMAIN heard' /\ heard'[Len(heard) + 1][1] = "thought"
        BY <2>3, <2>7
      <4>5. \A l \in 1 .. Len(heard) + 1 : heard'[l][1] = "thought"
        BY <4>3, <4>4, <2>9 DEF OneSection
      <4> QED
        BY <4>3, <4>5, <2>7
    <3>4. Parses(blocks, w, blocks')
      <4>1. ParseToken(Kinds, blocks, t) = blocks'
        BY <2>2, <2>3 DEF ParseToken, w
      <4> QED
        BY <4>1, <2>3, <2>5, <1>0, ParsesToken DEF w
    <3>5. Parses(<<TextBlock(<<>>)>>, heard', blocks')
      <4> DEFINE base == <<TextBlock(<<>>)>>
      <4> HIDE DEF base
      <4>1. Parses(base, heard, blocks)
        BY <3>2 DEF base
      <4>2. Parses(base, heard \o w, blocks')
        BY <4>1, <3>4, <1>0, <2>6, ParsesOn
      <4> QED
        BY <4>2, <2>2 DEF base
    <3>6. /\ Last(NativeEnded(blocks')).type = "text"
          /\ Last(NativeEnded(blocks')).text = <<>>
      <4>1. Last(blocks').native
        <5>1. CASE Last(blocks).type = "reasoning"
          <6>1. Last(blocks).native
            BY <5>1, <3>3 DEF BetweenSections, NativeEnded
          <6>2. Last(blocks').native = Last(blocks).native
            BY <5>1, <2>1, <2>2, <2>4, ReasoningAdded DEF w, t
          <6> QED
            BY <6>1, <6>2
        <5>2. CASE Last(blocks).type # "reasoning"
          BY <5>2, <2>1, <2>2, <2>4, ReasoningAdded DEF w, t
        <5> QED
          BY <5>1, <5>2
      <4> DEFINE l == [Last(blocks') EXCEPT !.done = TRUE]
                 e == Append(WithLast(blocks', l), TextBlock(<<>>))
      <4>2. NativeEnded(blocks') = e
        BY <4>1, <2>5 DEF NativeEnded
      <4>3. Last(e) = TextBlock(<<>>)
        <5>1. Last(blocks') \in ABlock
          BY <2>5, Split
        <5>2. l \in ABlock
          BY <5>1 DEF ABlock
        <5> HIDE DEF l
        <5>3. WithLast(blocks', l) \in Blocks /\ TextBlock(<<>>) \in ABlock
          <6>1. TextBlock(<<>>) \in ABlock
            BY NoBlocks, NewBlocks
          <6>2. WithLast(blocks', l) = Append(Front(blocks'), l) /\ Front(blocks') \in Blocks
            BY <2>5, Split
          <6> QED
            BY <5>2, <6>1, <6>2, Added
        <5> QED
          BY <5>3, Added
      <4> QED
        BY <4>2, <4>3 DEF TextBlock, Block
    <3>7. ThoughtsFirst(heard') => content' = <<>>
      <4> SUFFICES ASSUME ThoughtsFirst(heard')
                   PROVE  content = <<>>
        BY <2>2
      <4>1. \A l \in 1 .. Len(heard) + 1 : heard'[l][1] = "thought"
        <5>1. Len(heard) + 1 \in DOMAIN heard'
          BY <2>7
        <5> QED
          BY <5>1, <2>3, <2>7 DEF ThoughtsFirst
      <4>2. \A l \in DOMAIN heard : heard[l][1] = "thought"
        BY <4>1, <2>7
      <4> QED
        BY <4>2 DEF Parsing, Silent
    <3> QED
      BY <3>3, <3>5, <3>6, <3>7, <2>2 DEF BetweenSections
  <2> QED
    BY <2>8, <2>9, <1>a DEF Parsing
<1>5. CASE OtherDelta \/ \E i \in CallIndex : ToolCallDelta(i)
  <2>1. UNCHANGED <<at, loop, parse>>
    BY <1>5 DEF OtherDelta, ToolCallDelta, Receiving
  <2> QED
    BY <2>1, SameParsing
<1>6. CASE ShowWhole \/ NoAnswer \/ Refused \/ NextCode
  <2>1. loop' # "first" /\ UNCHANGED <<content, heard>>
    BY <1>6 DEF ShowWhole, NoAnswer, Refused, NextCode, AfterLoop
  <2> QED
    BY <2>1, SameParsing
<1>7. CASE BreakStream
  <2>1. UNCHANGED parse /\ (loop' = "first" => loop = "first" /\ at' = "ended")
    BY <1>7 DEF BreakStream, AfterLoop
  <2> QED
    BY <2>1, SameParsing
<1>8. CASE Start \/ SaveWhole \/ BackgroundDone \/ Cancel \/ SaveCancelled \/ CancelAgain \/ Finish
  <2>1. UNCHANGED <<loop, parse>> /\ (at' \in {"start", "stream"} => at = "start")
    BY <1>8 DEF Start, SaveWhole, BackgroundDone, Cancel, SaveCancelled, CancelAgain, Finish
  <2> QED
    BY <2>1, SameParsing
<1>9. CASE EndStream
  <2>1. loop' # "first" /\ UNCHANGED <<content, heard>>
    BY <1>9 DEF EndStream
  <2> QED
    BY <2>1, SameParsing
<1>10. CASE NextTools \/ RunTool \/ ToolsRun \/ Resume \/ RunCode
  <2>1. loop' # "first"
    BY <1>10 DEF NextTools, RunTool, ToolsRun, Resume, RunCode, MoreTools, Loops
  <2>2. UNCHANGED <<content, heard>>
    BY <1>10 DEF NextTools, RunTool, ToolsRun, Resume, RunCode
  <2> QED
    BY <2>1, <2>2, SameParsing
<1>11. CASE Done
  <2>1. UNCHANGED <<at, loop, parse>>
    BY <1>11 DEF Done, vars
  <2> QED
    BY <2>1, SameParsing
<1> QED
  BY <1>3, <1>4, <1>5, <1>6, <1>7, <1>8, <1>9, <1>10, <1>11 DEF Next, Receive, Step

-----------------------------------------------------------------------------
(* The theorems. *)

(* The invariant is inductive, and holds of every state that is reached.   *)
LEMMA Invariant == Spec => []IInv
<1>1. Init => IInv
  BY FirstTypes, FirstRest DEF IInv
<1>2. IInv /\ [Next]_vars => IInv'
  <2> SUFFICES ASSUME IInv, [Next]_vars
               PROVE  IInv'
    OBVIOUS
  <2>0. Types /\ Loops /\ Waiting /\ Owing /\ InOrder /\ AllThere /\ ShownIsHeard /\ SavedInTime
    BY DEF IInv
  <2>1. CASE Next
    <3>1. Types' /\ Loops' /\ Waiting' /\ Owing' /\ InOrder' /\ AllThere'
      BY <2>0, <2>1, TypesStep, ControlStep, OwingStep, InOrderStep, AllThereStep
    <3>2. ShownIsHeard' /\ SavedInTime'
      BY <2>0, <2>1, <3>1, ShownIsHeardStep, SavedInTimeStep
    <3> QED
      BY <3>1, <3>2 DEF IInv
  <2>2. CASE UNCHANGED vars
    <3>1. Waiting' /\ Owing'
      BY <2>2 DEF vars, parse, stream, rounds, account, IInv, Waiting, CallsAreRun, Owing, Waited, Unrun
    <3> QED
      BY <2>2, <3>1
      DEF vars, parse, stream, rounds, account, IInv, Types, TypeOK, Loops, InOrder, Running,
          KnownLast, AllThere, NothingDropped, Regular, NothingBegins, LastInContent,
          ShownIsHeard, SavedInTime, SavedAsReceived
  <2> QED
    BY <2>1, <2>2
<1> QED
  BY <1>1, <1>2, PTL DEF Spec

(* Type correctness: there is always a last block, and it is what the code *)
(* that runs at each await takes it to be.                                 *)
THEOREM TypeCorrect == Spec => []TypeOK
<1>1. IInv => TypeOK
  BY DEF IInv, Types
<1> QED
  BY <1>1, Invariant, PTL

(* For any kinds of tags, in any order, any deltas that are regular, any   *)
(* native reasoning, calls and code: no text is dropped from the answer.   *)
THEOREM NothingIsDropped == Spec => []NothingDropped
<1>1. IInv => NothingDropped
  BY DEF IInv, AllThere
<1> QED
  BY <1>1, Invariant, PTL

(* A streamed answer that is done, or was stopped at any await, and not    *)
(* once more before it could be saved, is saved with all the text the page *)
(* has shown of it.                                                        *)
THEOREM ReloadLosesNothing == Spec => []ShownIsSaved
<1>1. IInv => ShownIsSaved
  <2> SUFFICES ASSUME IInv, at = "ended", ~realtime, loop # "whole",
                      told \intersect {"error", "again"} = {}, Regular
               PROVE  Pieces(Displayed) \subseteq Tokens(saved)
    BY DEF ShownIsSaved
  <2>1. saved = Rendered(blocks) /\ blocks \in Blocks
    BY DEF IInv, SavedInTime, Types
  <2>2. Tokens(saved) = Tokens(blocks)
    BY <2>1, RenderedKeeps
  <2>3. Displayed \subseteq ToSet(heard)
    BY NoBlocks DEF IInv, ShownIsHeard, Displayed
  <2>4. Pieces(ToSet(heard)) \subseteq Tokens(blocks)
    BY DEF IInv, AllThere, NothingDropped
  <2> QED
    BY <2>2, <2>3, <2>4 DEF Pieces
<1> QED
  BY <1>1, Invariant, PTL

(* With ENABLE_REALTIME_CHAT_SAVE all text of the first stream is in the   *)
(* database as soon as it has been received, for every ChunkSize.          *)
THEOREM TextIsSaved == Spec => []SavedAsReceived
<1>1. IInv => SavedAsReceived
  BY DEF IInv, SavedInTime
<1> QED
  BY <1>1, Invariant, PTL

(* What the model is told when tools have run has every call with its      *)
(* result, for any number of calls and rounds, and all text of the answer. *)
THEOREM CallsAreAnswered == Spec => []RequestComplete
<1>1. IInv => RequestComplete
  <2> SUFFICES ASSUME IInv, at = "request"
               PROVE  /\ AnsweredOnce(Messages(blocks))
                      /\ Tokens(blocks) = UNION {Tokens(Messages(blocks)[i].content) : i \in DOMAIN Messages(blocks)}
    BY DEF RequestComplete
  <2>1. blocks \in Blocks /\ AllFine(blocks)
    BY DEF IInv, Types, InOrder
  <2> QED
    BY <2>1, MessagesComplete DEF Content
<1> QED
  BY <1>1, Invariant, PTL

(* An answer that is done has run every call the model has made, but for   *)
(* those of a later stream that broke, up to the limit of rounds, and      *)
(* unless code has run.                                                    *)
THEOREM NoCallIsForgotten == Spec => []CallsAreRun
<1>1. IInv => CallsAreRun
  BY DEF IInv, Waiting, CallsAreRun
<1> QED
  BY <1>1, Invariant, PTL

(* Parsing the text anew with each delta gives what parsing it once, token *)
(* after token, does: for any kinds of tags, and a text of any length with *)
(* one section, cut into deltas that have one tag each.                    *)
THEOREM ParsedOnce == Spec => []ParsedRight
<1>1. Init => Parsing
  BY ParsingBegins
<1>2. IInv /\ Parsing /\ [Next]_vars => Parsing'
  <2>1. ASSUME IInv, Parsing, Next
        PROVE  Parsing'
    BY <2>1, ParsingStep DEF IInv
  <2>2. ASSUME Parsing, UNCHANGED vars
        PROVE  Parsing'
    BY <2>2, SameParsing DEF vars, parse
  <2> QED
    BY <2>1, <2>2
<1>3. IInv /\ Parsing => ParsedRight
  <2> SUFFICES ASSUME IInv, Parsing, loop = "first", OneSection(heard), Nice
               PROVE  blocks = Parsed(Kinds, heard)
    BY DEF ParsedRight, Nice
  <2>1. Parses(<<TextBlock(<<>>)>>, heard, blocks) /\ heard \in Text
    BY DEF Parsing, IInv, Types
  <2> QED
    BY <2>1, ParsesIs
<1> QED
  BY <1>1, <1>2, <1>3, Invariant, PTL DEF Spec
=============================================================================
