-------------------------- MODULE RepetitionProofs --------------------------
(***************************************************************************)
(* Proofs about RepetitionVerify, for any vocabulary, target model,         *)
(* penalties, drafts and batches.                                           *)
(***************************************************************************)
EXTENDS RepetitionVerify, TLAPS, FiniteSetTheorems, SequenceTheorems, NaturalsInduction

-----------------------------------------------------------------------------
(* Least elements, which stand in for induction here.                        *)

\* A nonempty set of naturals has a least element.
LEMMA LeastNat ==
  ASSUME NEW S, S \subseteq Nat, S # {}
  PROVE  \E n \in S : \A m \in S : n <= m
<1> DEFINE R == {ss \in Nat \X Nat : ss[1] < ss[2]}
<1>1. IsWellFoundedOn(R, Nat)
  BY NatLessThanWellFounded DEF OpToRel
<1> HIDE DEF R
<1>2. PICK n \in S : \A m \in S : ~ (<<m, n>> \in R)
  BY <1>1, WFMin
<1>3. ASSUME NEW m \in S PROVE n <= m
  <2>1. m \in Nat /\ n \in Nat
    OBVIOUS
  <2>2. m < n => <<m, n>> \in R
    BY <2>1 DEF R
  <2> QED
    BY <1>2, <2>1, <2>2
<1> QED
  BY <1>3

\* Every nonempty finite set of tokens has a best one: otherwise take a set
\* without one of least size and remove a token from it.
LEMMA BestExists ==
  ASSUME NEW values \in [Tokens -> Int],
         NEW S, S \subseteq Tokens, S # {}, IsFiniteSet(Tokens), Tokens \subseteq Nat
  PROVE  \E t \in S : Decode!IsBest(t, values, S)
<1> DEFINE Bad == {U \in SUBSET Tokens : U # {} /\ \A t \in U : ~Decode!IsBest(t, values, U)}
           Sizes == {Cardinality(U) : U \in Bad}
<1>1. \A U \in SUBSET Tokens : IsFiniteSet(U) /\ Cardinality(U) \in Nat
  BY FS_Subset, FS_CardinalityType
<1>2. SUFFICES ASSUME Bad # {} PROVE FALSE
  BY DEF Bad
<1>3. PICK n \in Sizes : \A m \in Sizes : n <= m
  <2>1. Sizes \subseteq Nat /\ Sizes # {}
    BY <1>1, <1>2
  <2> QED
    BY <2>1, LeastNat
<1>4. PICK U \in Bad : Cardinality(U) = n
  BY <1>3
<1>5. PICK x \in U : TRUE
  BY <1>4
<1> DEFINE V == U \ {x}
<1>6. /\ V \in SUBSET Tokens /\ Cardinality(V) = Cardinality(U) - 1
      /\ Cardinality(U) \in Nat
  BY <1>1, <1>4, <1>5, FS_RemoveElement
<1>7. V \notin Bad
  <2>1. ASSUME V \in Bad PROVE FALSE
    <3>1. Cardinality(V) \in Sizes
      BY <2>1
    <3> QED
      BY <3>1, <1>3, <1>4, <1>6
  <2> QED
    BY <2>1
<1>8. CASE V = {}
  <2>1. U = {x}
    BY <1>8, <1>5
  <2>2. Decode!IsBest(x, values, U)
    BY <2>1, <1>4 DEF Decode!IsBest
  <2> QED
    BY <2>2, <1>4, <1>5
<1>9. CASE V # {}
  <2>1. PICK t \in V : Decode!IsBest(t, values, V)
    BY <1>6, <1>7, <1>9
  <2>2. /\ x \in Tokens /\ t \in Tokens /\ values[x] \in Int /\ values[t] \in Int
        /\ \A u \in U : values[u] \in Int /\ u \in Nat
    BY <1>4, <1>5
  <2>3. CASE values[x] > values[t] \/ (values[x] = values[t] /\ x <= t)
    <3>1. ASSUME NEW u \in U
          PROVE  values[u] < values[x] \/ (values[u] = values[x] /\ x <= u)
      <4>1. u = x \/ u \in V
        OBVIOUS
      <4> QED
        BY <4>1, <2>1, <2>2, <2>3 DEF Decode!IsBest
    <3>2. Decode!IsBest(x, values, U)
      BY <3>1, <1>5 DEF Decode!IsBest
    <3> QED
      BY <3>2, <1>4, <1>5
  <2>4. CASE ~(values[x] > values[t] \/ (values[x] = values[t] /\ x <= t))
    <3>1. ASSUME NEW u \in U
          PROVE  values[u] < values[t] \/ (values[u] = values[t] /\ t <= u)
      <4>1. u = x \/ u \in V
        OBVIOUS
      <4> QED
        BY <4>1, <2>1, <2>2, <2>4 DEF Decode!IsBest
    <3>2. Decode!IsBest(t, values, U)
      BY <3>1, <2>1 DEF Decode!IsBest
    <3> QED
      BY <3>2, <2>1, <1>4
  <2> QED
    BY <2>3, <2>4
<1> QED
  BY <1>8, <1>9
-----------------------------------------------------------------------------
(* Reductions.                                                               *)

\* The best of a nonempty set of tokens is in it and beats the others.
LEMMA BestIs ==
  ASSUME NEW values \in [Tokens -> Int], NEW S \in SUBSET Tokens, S # {}
  PROVE  /\ Decode!IsBest(Decode!Best(values, S), values, S)
         /\ Decode!Best(values, S) \in S
<1>1. \E t \in S : Decode!IsBest(t, values, S)
  BY BestExists, RepetitionAssumption
<1>2. Decode!IsBest(Decode!Best(values, S), values, S)
  BY <1>1 DEF Decode!Best
<1> QED
  BY <1>2 DEF Decode!IsBest

\* There is one best token: ties go to the lowest ID.
LEMMA BestUnique ==
  ASSUME NEW values \in [Tokens -> Int], NEW S \in SUBSET Tokens,
         NEW t, Decode!IsBest(t, values, S)
  PROVE  t = Decode!Best(values, S)
<1>1. t \in S /\ t \in Nat /\ \A u \in S : values[u] \in Int /\ u \in Nat
  BY RepetitionAssumption DEF Decode!IsBest
<1> DEFINE b == Decode!Best(values, S)
<1>2. Decode!IsBest(b, values, S) /\ b \in S
  BY <1>1, BestIs
<1>3. /\ values[t] < values[b] \/ (values[t] = values[b] /\ b <= t)
      /\ values[b] < values[t] \/ (values[b] = values[t] /\ t <= b)
  BY <1>1, <1>2 DEF Decode!IsBest
<1>4. b \in Nat /\ values[b] \in Int /\ values[t] \in Int
  BY <1>1, <1>2
<1> QED
  BY <1>1, <1>3, <1>4

\* The best of the bests of the parts of S is the best of S.
LEMMA BestOfParts ==
  ASSUME NEW values \in [Tokens -> Int], NEW S \in SUBSET Tokens, S # {},
         NEW Parts, \A V \in Parts : V # {} /\ V \subseteq S,
         \A t \in S : \E V \in Parts : t \in V
  PROVE  Decode!Best(values, {Decode!Best(values, V) : V \in Parts}) = Decode!Best(values, S)
<1> DEFINE W == {Decode!Best(values, V) : V \in Parts}
           b == Decode!Best(values, S)
<1>1. \A V \in Parts : Decode!IsBest(Decode!Best(values, V), values, V) /\ Decode!Best(values, V) \in V
  BY BestIs
<1>2. W \subseteq S
  BY <1>1
<1>3. Decode!IsBest(b, values, S) /\ b \in S
  BY BestIs
<1>4. PICK V \in Parts : b \in V
  BY <1>3
<1>5. Decode!IsBest(b, values, V)
  BY <1>3, <1>4 DEF Decode!IsBest
<1>6. b = Decode!Best(values, V)
  BY <1>5, BestUnique
<1>7. b \in W
  BY <1>4, <1>6
<1>8. Decode!IsBest(b, values, W)
  BY <1>2, <1>3, <1>7 DEF Decode!IsBest
<1> QED
  BY <1>2, <1>8, BestUnique

\* The fused kernel's tiles and programs find the best token.
LEMMA FusedIsBest ==
  ASSUME NEW values \in [Tokens -> Int]
  PROVE  FusedToken(values) = Decode!Best(values, Tokens)
<1> DEFINE programs == {b % TilePrograms : b \in Tiles}
           Part(p) == UNION {Tile(b) : b \in {c \in Tiles : c % TilePrograms = p}}
           Parts == {Part(p) : p \in programs}
<1>1. \A t \in Tokens : t \div TileSize \in Tiles /\ t \in Tile(t \div TileSize)
  BY DEF Tiles, Tile
<1>2. \A t \in Tokens : t \in Part((t \div TileSize) % TilePrograms)
  BY <1>1
<1>3. \A p \in programs : Part(p) # {} /\ Part(p) \subseteq Tokens
  <2>1. TAKE p \in programs
  <2>2. PICK b \in Tiles : p = b % TilePrograms
    OBVIOUS
  <2>3. PICK t \in Tokens : b = t \div TileSize
    BY DEF Tiles
  <2>4. t \in Part(p)
    BY <1>2, <2>2, <2>3
  <2> QED
    BY <2>4 DEF Tile
<1>4. \A V \in Parts : V # {} /\ V \subseteq Tokens
  BY <1>3
<1>5. \A t \in Tokens : \E V \in Parts : t \in V
  <2>1. TAKE t \in Tokens
  <2>2. (t \div TileSize) % TilePrograms \in programs
    BY <1>1
  <2>3. Part((t \div TileSize) % TilePrograms) \in Parts
    BY <2>2
  <2> QED
    BY <1>2, <2>3
<1>6. {Decode!Best(values, V) : V \in Parts} = {Partial(values, p) : p \in programs}
  BY DEF Partial
<1>7. Tokens # {}
  BY RepetitionAssumption
<1> HIDE DEF Parts, programs
<1>8. Decode!Best(values, {Decode!Best(values, V) : V \in Parts}) = Decode!Best(values, Tokens)
  BY <1>4, <1>5, <1>7, BestOfParts
<1> QED
  BY <1>6, <1>8 DEF FusedToken, programs

\* A target model's row of logits, and what a request's penalty may be.
Logit == [Tokens -> Int]
Penalty == [num : Nat \ {0}, den : Nat \ {0}]

\* Penalised values are integers.
LEMMA ValuesType ==
  ASSUME NEW p \in Penalty, NEW logits \in Logit, NEW seen
  PROVE  Decode!Values(p, logits, seen) \in [Tokens -> Int]
<1>1. p.num \in Int /\ p.den \in Int
  BY DEF Penalty
<1>2. ASSUME NEW t \in Tokens PROVE Decode!Adjusted(p, logits[t], t \in seen) \in Int
  <2> DEFINE x == logits[t]
  <2>1. x \in Int
    BY DEF Logit
  <2> HIDE DEF x
  <2>2. x * p.num * p.den \in Int /\ x * p.den * p.den \in Int /\ x * p.num * p.num \in Int
    BY <1>1, <2>1
  <2>3. CASE t \in seen
    BY <2>2, <2>3 DEF Decode!Adjusted, x
  <2>4. CASE t \notin seen
    BY <2>2, <2>4 DEF Decode!Adjusted, x
  <2> QED
    BY <2>3, <2>4
<1> QED
  BY <1>2 DEF Decode!Values

\* The best seen token against the best unseen one is the best token.
LEMMA NativeIsBest ==
  ASSUME NEW values \in [Tokens -> Int], NEW seen \in SUBSET Tokens
  PROVE  Decode!Best(values,
           (IF seen = {} THEN {} ELSE {Decode!Best(values, seen)}) \cup
           (IF Tokens \ seen = {} THEN {} ELSE {Decode!Best(values, Tokens \ seen)}))
         = Decode!Best(values, Tokens)
<1> DEFINE Parts == {V \in {seen, Tokens \ seen} : V # {}}
<1>1. {Decode!Best(values, V) : V \in Parts} =
        (IF seen = {} THEN {} ELSE {Decode!Best(values, seen)}) \cup
        (IF Tokens \ seen = {} THEN {} ELSE {Decode!Best(values, Tokens \ seen)})
  OBVIOUS
<1>2. \A V \in Parts : V # {} /\ V \subseteq Tokens
  OBVIOUS
<1>3. \A t \in Tokens : \E V \in Parts : t \in V
  OBVIOUS
<1>4. Tokens # {}
  BY RepetitionAssumption
<1> HIDE DEF Parts
<1>5. Decode!Best(values, {Decode!Best(values, V) : V \in Parts}) = Decode!Best(values, Tokens)
  BY <1>2, <1>3, <1>4, BestOfParts
<1> QED
  BY <1>1, <1>5

\* A penalty of at least 1 raises no value.
LEMMA PenaltyLowers ==
  ASSUME NEW p \in Penalty, p.num >= p.den, NEW x \in Int, NEW b \in BOOLEAN
  PROVE  Decode!Adjusted(p, x, b) <= x * p.num * p.den
<1> DEFINE n == p.num
           d == p.den
<1>1. n \in Nat /\ d \in Nat /\ n > 0 /\ d > 0 /\ n >= d
  BY DEF Penalty
<1> HIDE DEF n, d
<1>2. CASE ~b
  <2>1. Decode!Adjusted(p, x, b) = x * n * d
    BY <1>2 DEF Decode!Adjusted, n, d
  <2>2. x * n * d \in Int
    BY <1>1
  <2> QED
    BY <2>1, <2>2 DEF n, d
<1>3. CASE b /\ x > 0
  <2>1. Decode!Adjusted(p, x, b) = x * d * d
    BY <1>3 DEF Decode!Adjusted, n, d
  <2>2. x * d * d <= x * n * d
    <3>1. x * d \in Nat /\ x * d > 0
      BY <1>1, <1>3
    <3>2. x * n * d - x * d * d = x * d * (n - d)
      BY <1>1
    <3>3. x * d * (n - d) >= 0
      BY <1>1, <3>1
    <3> QED
      BY <1>1, <3>2, <3>3
  <2> QED
    BY <2>1, <2>2 DEF n, d
<1>4. CASE b /\ ~(x > 0)
  <2>1. Decode!Adjusted(p, x, b) = x * n * n
    BY <1>4 DEF Decode!Adjusted, n, d
  <2>2. x * n * n <= x * n * d
    <3>1. x * n \in Int /\ x * n <= 0
      BY <1>1, <1>4
    <3>2. x * n * d - x * n * n = x * n * (d - n)
      BY <1>1
    <3>3. x * n * (d - n) >= 0
      BY <1>1, <3>1
    <3> QED
      BY <1>1, <3>2, <3>3
  <2> QED
    BY <2>1, <2>2 DEF n, d
<1> QED
  BY <1>2, <1>3, <1>4
-----------------------------------------------------------------------------
(* The Top-K proof.                                                          *)

\* The best candidate beats every token left out: the token's logit is at
\* most that of any candidate, and the penalty does not raise it.
LEMMA ProvenIsBest ==
  ASSUME NEW r \in Requests, NEW base, NEW d, NEW k, NEW low \in BOOLEAN,
         penalty[r] \in Penalty, penalty[r].num >= penalty[r].den,
         Logits(r, d, k) \in Logit, config \in ConfigType,
         config.topk > 0, Proven(r, base, d, k, low)
  PROVE  TopKToken(r, base, d, k, low) = Decode!Best(RowValues(r, base, d, k), Tokens)
<1> DEFINE logits == Logits(r, d, k)
           cands  == TopCandidates(logits, low)
           values == RowValues(r, base, d, k)
           raw    == Decode!Values(penalty[r], logits, {})
           best   == Decode!Best(values, cands)
           Ahead(t) == {u \in Tokens : Before(logits, u, t, low)}
           num == penalty[r].num
           den == penalty[r].den
<1>1. /\ values \in [Tokens -> Int] /\ raw \in [Tokens -> Int] /\ cands \in SUBSET Tokens
      /\ \A t \in Tokens : logits[t] \in Int /\ t \in Nat
      /\ num \in Nat /\ den \in Nat /\ num > 0 /\ den > 0 /\ config.topk \in Nat
  <2>1. values \in [Tokens -> Int]
    BY ValuesType DEF RowValues
  <2>2. raw \in [Tokens -> Int]
    BY ValuesType
  <2>3. \A t \in Tokens : logits[t] \in Int /\ t \in Nat
    BY RepetitionAssumption DEF Logit
  <2>4. num \in Nat /\ den \in Nat /\ num > 0 /\ den > 0 /\ config.topk \in Nat
    BY DEF Penalty, ConfigType
  <2>5. cands \in SUBSET Tokens
    BY DEF TopCandidates
  <2> HIDE DEF values, raw, cands, logits, num, den
  <2> QED
    BY <2>1, <2>2, <2>3, <2>4, <2>5
<1>2. cands = Tokens \/ \E c \in cands : \A e \in cands : raw[c] <= raw[e] /\ values[best] > raw[c]
  BY DEF Proven
<1>3. CASE cands = Tokens
  BY <1>3 DEF TopKToken
<1>4. CASE cands # Tokens
  <2>1. PICK c \in cands : \A e \in cands : raw[c] <= raw[e] /\ values[best] > raw[c]
    BY <1>2, <1>4
  <2>2. c \in Tokens /\ values[best] > raw[c]
    BY <1>1, <2>1
  <2>3. best \in cands /\ Decode!IsBest(best, values, cands)
    BY <1>1, <2>1, BestIs
  <2>4. ASSUME NEW t \in Tokens, t \notin cands PROVE logits[t] <= logits[c]
    <3>1. SUFFICES ASSUME logits[t] > logits[c] PROVE FALSE
      BY <1>1, <2>2
    <3>2. ASSUME NEW u \in Ahead(t) PROVE u \in Ahead(c)
      <4>1. logits[u] >= logits[t]
        BY <3>2, <1>1 DEF Before
      <4>2. logits[u] > logits[c]
        BY <4>1, <3>1, <1>1, <2>2
      <4> QED
        BY <4>2 DEF Before
    <3>3. Ahead(t) \subseteq Ahead(c) /\ IsFiniteSet(Ahead(c))
      BY <3>2, FS_Subset, RepetitionAssumption
    <3>4. Cardinality(Ahead(t)) <= Cardinality(Ahead(c)) /\ Cardinality(Ahead(t)) \in Nat
          /\ Cardinality(Ahead(c)) \in Nat
      BY <3>3, FS_Subset, FS_CardinalityType
    <3>5. Cardinality(Ahead(c)) < config.topk
      BY <2>1 DEF TopCandidates
    <3>6. Cardinality(Ahead(t)) < config.topk
      BY <3>4, <3>5, <1>1
    <3> QED
      BY <3>6, <2>4 DEF TopCandidates
  <2>5. ASSUME NEW t \in Tokens, t \notin cands PROVE values[t] < values[best]
    <3> DEFINE x == logits[t]
               y == logits[c]
    <3>1. x <= y /\ x \in Int /\ y \in Int
      BY <2>4, <2>5, <1>1, <2>2
    <3>2. raw[t] = x * num * den /\ raw[c] = y * num * den
      BY <2>2 DEF Decode!Values, Decode!Adjusted
    <3>3. values[t] <= raw[t]
      <4> DEFINE b == t \in SeenAt(base, d, k)
      <4>1. values[t] = Decode!Adjusted(penalty[r], x, b)
        BY DEF RowValues, Decode!Values
      <4>2. b \in BOOLEAN
        OBVIOUS
      <4> HIDE DEF b, x, raw, values
      <4>3. Decode!Adjusted(penalty[r], x, b) <= x * num * den
        BY <4>2, <3>1, PenaltyLowers
      <4> QED
        BY <4>1, <4>3, <3>2
    <3>4. x * num * den <= y * num * den
      <4> HIDE DEF x, y, num, den
      <4>1. num * den \in Nat /\ x * (num * den) = x * num * den
            /\ y * (num * den) = y * num * den
        BY <1>1, <3>1
      <4>2. y * (num * den) - x * (num * den) = (y - x) * (num * den)
        BY <4>1, <3>1
      <4>3. (y - x) * (num * den) >= 0
        BY <4>1, <3>1
      <4>4. x * num * den \in Int /\ y * num * den \in Int
        BY <1>1, <3>1
      <4> QED
        BY <4>1, <4>2, <4>3, <4>4
    <3>5. values[t] \in Int /\ raw[t] \in Int /\ raw[c] \in Int /\ values[best] \in Int
      BY <1>1, <2>2, <2>3
    <3> HIDE DEF values, raw, x, y, best, num, den
    <3>6. raw[t] <= raw[c]
      BY <3>2, <3>4
    <3> QED
      BY <3>3, <3>5, <3>6, <2>2
  <2>6. ASSUME NEW u \in Tokens
        PROVE  values[u] < values[best] \/ (values[u] = values[best] /\ best <= u)
    <3>1. CASE u \in cands
      BY <3>1, <2>3 DEF Decode!IsBest
    <3>2. CASE u \notin cands
      BY <3>2, <2>5
    <3> QED
      BY <3>1, <3>2
  <2>7. best \in Tokens
    BY <2>3, <1>1
  <2>8. Decode!IsBest(best, values, Tokens)
    BY <2>6, <2>7 DEF Decode!IsBest
  <2>9. best = Decode!Best(values, Tokens)
    BY <2>8, <1>1, BestUnique
  <2> QED
    BY <2>9 DEF TopKToken
<1> QED
  BY <1>3, <1>4
-----------------------------------------------------------------------------
(* Beginnings of sequences.                                                  *)

\* What a beginning of a sequence is.
LEMMA Beginning ==
  ASSUME NEW S, NEW s \in Seq(S), NEW n \in 0 .. Len(s)
  PROVE  /\ SubSeq(s, 1, n) \in Seq(S) /\ Len(SubSeq(s, 1, n)) = n
         /\ \A i \in 1 .. n : SubSeq(s, 1, n)[i] = s[i]
<1>1. Len(s) \in Nat /\ n \in Nat /\ \A i \in 1 .. n : s[i] \in S
  BY ElementOfSeq, LenProperties
<1> QED
  BY <1>1, SubSeqProperties

\* A beginning of a beginning is one of the whole.
LEMMA BeginningOfBeginning ==
  ASSUME NEW S, NEW s \in Seq(S), NEW n \in 0 .. Len(s), NEW m \in 0 .. n
  PROVE  SubSeq(SubSeq(s, 1, n), 1, m) = SubSeq(s, 1, m)
<1> DEFINE b == SubSeq(s, 1, n)
<1>1. b \in Seq(S) /\ Len(b) = n /\ m \in 0 .. Len(s)
      /\ \A i \in 1 .. n : b[i] = s[i]
  BY Beginning, LenProperties
<1> HIDE DEF b
<1>2. /\ SubSeq(b, 1, m) \in Seq(S) /\ Len(SubSeq(b, 1, m)) = m
      /\ \A i \in 1 .. m : SubSeq(b, 1, m)[i] = b[i]
  BY <1>1, Beginning
<1>3. /\ SubSeq(s, 1, m) \in Seq(S) /\ Len(SubSeq(s, 1, m)) = m
      /\ \A i \in 1 .. m : SubSeq(s, 1, m)[i] = s[i]
  BY <1>1, Beginning
<1>4. \A i \in 1 .. m : SubSeq(b, 1, m)[i] = SubSeq(s, 1, m)[i]
  BY <1>1, <1>2, <1>3
<1>5. SubSeq(b, 1, m) = SubSeq(s, 1, m)
  BY <1>2, <1>3, <1>4, SeqEqual
<1> QED
  BY <1>5 DEF b

\* A beginning of a concatenation, on either side of the seam.
LEMMA BeginningOfConcat ==
  ASSUME NEW S, NEW s \in Seq(S), NEW t \in Seq(S), NEW n \in 0 .. Len(t)
  PROVE  /\ SubSeq(s \o t, 1, Len(s) + n) = s \o SubSeq(t, 1, n)
         /\ SubSeq(s \o t, 1, Len(s)) = s
<1>1. /\ s \o t \in Seq(S) /\ Len(s \o t) = Len(s) + Len(t)
      /\ \A i \in 1 .. Len(s) + Len(t) :
           (s \o t)[i] = IF i <= Len(s) THEN s[i] ELSE t[i - Len(s)]
      /\ Len(s) \in Nat /\ Len(t) \in Nat
  BY ConcatProperties, LenProperties
<1> DEFINE c == s \o t
           b == SubSeq(t, 1, n)
<1>2. b \in Seq(S) /\ Len(b) = n /\ \A i \in 1 .. n : b[i] = t[i]
  BY Beginning
<1>3. /\ s \o b \in Seq(S) /\ Len(s \o b) = Len(s) + n
      /\ \A i \in 1 .. Len(s) + n :
           (s \o b)[i] = IF i <= Len(s) THEN s[i] ELSE b[i - Len(s)]
  BY <1>2, ConcatProperties
<1> HIDE DEF c, b
<1>4. Len(s) + n \in 0 .. Len(c) /\ Len(s) \in 0 .. Len(c) /\ c \in Seq(S)
  BY <1>1 DEF c
<1>5. /\ SubSeq(c, 1, Len(s) + n) \in Seq(S) /\ Len(SubSeq(c, 1, Len(s) + n)) = Len(s) + n
      /\ \A i \in 1 .. Len(s) + n : SubSeq(c, 1, Len(s) + n)[i] = c[i]
  BY <1>4, Beginning
<1>6. /\ SubSeq(c, 1, Len(s)) \in Seq(S) /\ Len(SubSeq(c, 1, Len(s))) = Len(s)
      /\ \A i \in 1 .. Len(s) : SubSeq(c, 1, Len(s))[i] = c[i]
  BY <1>4, Beginning
<1>7. ASSUME NEW i \in 1 .. Len(s) + n
      PROVE  SubSeq(c, 1, Len(s) + n)[i] = (s \o b)[i]
  <2>1. c[i] = IF i <= Len(s) THEN s[i] ELSE t[i - Len(s)]
    BY <1>1 DEF c
  <2>2. (s \o b)[i] = IF i <= Len(s) THEN s[i] ELSE b[i - Len(s)]
    BY <1>3
  <2>3. i > Len(s) => i - Len(s) \in 1 .. n
    BY <1>1
  <2>4. i > Len(s) => b[i - Len(s)] = t[i - Len(s)]
    BY <1>2, <2>3
  <2>5. SubSeq(c, 1, Len(s) + n)[i] = c[i]
    BY <1>5
  <2>6. i \in Int /\ Len(s) \in Int
    BY <1>1
  <2> QED
    BY <2>1, <2>2, <2>4, <2>5, <2>6
<1>8. \A i \in 1 .. Len(s) : SubSeq(c, 1, Len(s))[i] = s[i]
  BY <1>1, <1>6 DEF c
<1>9. SubSeq(c, 1, Len(s) + n) = s \o b
  BY <1>3, <1>5, <1>7, SeqEqual
<1>10. SubSeq(c, 1, Len(s)) = s
  BY <1>6, <1>8, SeqEqual
<1> QED
  BY <1>9, <1>10 DEF b, c

\* A prefix is a beginning.
LEMMA PrefixIsBeginning ==
  ASSUME NEW S, NEW s \in Seq(S), NEW t \in Seq(S)
  PROVE  IsPrefix(s, t) <=> Len(s) <= Len(t) /\ s = SubSeq(t, 1, Len(s))
BY SubSeqFull DEF IsPrefix

\* Being a prefix is transitive.
LEMMA PrefixTrans ==
  ASSUME NEW S, NEW s \in Seq(S), NEW t \in Seq(S), NEW u \in Seq(S),
         IsPrefix(s, t), IsPrefix(t, u)
  PROVE  IsPrefix(s, u)
<1>1. /\ Len(s) <= Len(t) /\ s = SubSeq(t, 1, Len(s))
      /\ Len(t) <= Len(u) /\ t = SubSeq(u, 1, Len(t))
  BY PrefixIsBeginning
<1>2. Len(s) \in 0 .. Len(t) /\ Len(t) \in 0 .. Len(u) /\ Len(s) <= Len(u)
  BY <1>1, LenProperties
<1>3. SubSeq(SubSeq(u, 1, Len(t)), 1, Len(s)) = SubSeq(u, 1, Len(s))
  BY <1>2, BeginningOfBeginning
<1>4. s = SubSeq(u, 1, Len(s))
  BY <1>1, <1>3
<1> QED
  BY <1>2, <1>4, PrefixIsBeginning
-----------------------------------------------------------------------------
(* Plain greedy decoding.                                                    *)

\* The values of the token that follows the output w of a request, the token
\* that greedy decoding puts there, and the outputs made of such tokens.
TextValues(r, w) ==
  Decode!Values(penalty[r], model[Last(Prompt[r] \o w)], Range(Prompt[r] \o w))
NextToken(r, w) == Decode!Best(TextValues(r, w), Tokens)
ExactWord(r, w) == \A i \in 1 .. Len(w) : w[i] = NextToken(r, SubSeq(w, 1, i - 1))

\* Greedy decoding is deterministic: of two exact outputs of a request, the
\* shorter one is a beginning of the other.
LEMMA Comparable ==
  ASSUME NEW r, NEW w \in Seq(Tokens), NEW v \in Seq(Tokens),
         ExactWord(r, w), ExactWord(r, v), Len(w) <= Len(v)
  PROVE  w = SubSeq(v, 1, Len(w))
<1> DEFINE Differ == {i \in 1 .. Len(w) : w[i] # v[i]}
<1>1. Len(w) \in Nat /\ Len(v) \in Nat /\ Differ \subseteq Nat
  BY LenProperties
<1>2. SUFFICES ASSUME Differ # {} PROVE FALSE
  <2>1. Len(w) \in 0 .. Len(v)
    BY <1>1
  <2>2. /\ SubSeq(v, 1, Len(w)) \in Seq(Tokens) /\ Len(SubSeq(v, 1, Len(w))) = Len(w)
        /\ \A i \in 1 .. Len(w) : SubSeq(v, 1, Len(w))[i] = v[i]
    BY <2>1, Beginning
  <2>3. Differ = {}
    BY <1>2
  <2>4. \A i \in 1 .. Len(w) : SubSeq(v, 1, Len(w))[i] = w[i]
    BY <2>2, <2>3
  <2> QED
    BY <2>2, <2>4, SeqEqual
<1>3. PICK i \in Differ : \A j \in Differ : i <= j
  BY <1>1, <1>2, LeastNat
<1>4. /\ i \in 1 .. Len(w) /\ i \in 1 .. Len(v) /\ w[i] # v[i]
      /\ i - 1 \in 0 .. Len(w) /\ i - 1 \in 0 .. Len(v)
  BY <1>1, <1>3
<1>5. \A j \in 1 .. i - 1 : w[j] = v[j]
  <2>1. TAKE j \in 1 .. i - 1
  <2>2. j \in 1 .. Len(w) /\ ~(i <= j)
    BY <1>1, <1>4
  <2> QED
    BY <1>3, <2>2
<1>6. SubSeq(w, 1, i - 1) = SubSeq(v, 1, i - 1)
  <2>1. /\ SubSeq(w, 1, i - 1) \in Seq(Tokens) /\ Len(SubSeq(w, 1, i - 1)) = i - 1
        /\ \A j \in 1 .. i - 1 : SubSeq(w, 1, i - 1)[j] = w[j]
    BY <1>4, Beginning
  <2>2. /\ SubSeq(v, 1, i - 1) \in Seq(Tokens) /\ Len(SubSeq(v, 1, i - 1)) = i - 1
        /\ \A j \in 1 .. i - 1 : SubSeq(v, 1, i - 1)[j] = v[j]
    BY <1>4, Beginning
  <2>3. \A j \in 1 .. i - 1 : SubSeq(w, 1, i - 1)[j] = SubSeq(v, 1, i - 1)[j]
    BY <1>5, <2>1, <2>2
  <2> QED
    BY <2>1, <2>2, <2>3, SeqEqual
<1>7. w[i] = NextToken(r, SubSeq(w, 1, i - 1)) /\ v[i] = NextToken(r, SubSeq(v, 1, i - 1))
  BY <1>4 DEF ExactWord
<1> QED
  BY <1>4, <1>6, <1>7

\* A beginning of an exact output is exact.
LEMMA ExactBeginning ==
  ASSUME NEW r, NEW w \in Seq(Tokens), ExactWord(r, w), NEW n \in 0 .. Len(w)
  PROVE  ExactWord(r, SubSeq(w, 1, n))
<1> DEFINE b == SubSeq(w, 1, n)
<1>1. b \in Seq(Tokens) /\ Len(b) = n /\ (\A i \in 1 .. n : b[i] = w[i]) /\ Len(w) \in Nat
  BY Beginning, LenProperties
<1>2. ASSUME NEW i \in 1 .. n PROVE b[i] = NextToken(r, SubSeq(b, 1, i - 1))
  <2>1. i \in 1 .. Len(w) /\ i - 1 \in 0 .. n
    BY <1>1
  <2>2. SubSeq(b, 1, i - 1) = SubSeq(w, 1, i - 1)
    BY <2>1, BeginningOfBeginning
  <2>3. w[i] = NextToken(r, SubSeq(w, 1, i - 1))
    BY <2>1 DEF ExactWord
  <2> QED
    BY <1>1, <2>2, <2>3
<1> HIDE DEF b
<1>3. ExactWord(r, b)
  BY <1>1, <1>2 DEF ExactWord
<1> QED
  BY <1>3 DEF b
-----------------------------------------------------------------------------
(* What a request gains in a frame.                                          *)

\* The values after any output, and the token that follows it.
LEMMA TextTyped ==
  ASSUME TypeOK, NEW r \in Requests, NEW w \in Seq(Tokens)
  PROVE  /\ TextValues(r, w) \in [Tokens -> Int]
         /\ NextToken(r, w) \in Tokens
<1>1. penalty[r] \in Penalty /\ Prompt[r] \in Seq(Tokens) /\ Prompt[r] # <<>>
      /\ model \in [Tokens -> Logit] /\ Tokens # {}
  BY RepetitionAssumption DEF TypeOK, PenaltyType, ModelType, Penalty, Logit
<1> DEFINE t == Prompt[r] \o w
<1>2. t \in Seq(Tokens) /\ Len(t) \in 1 .. Len(t)
  <2>1. Len(Prompt[r]) \in Nat \ {0} /\ Len(w) \in Nat
    BY <1>1, EmptySeq, LenProperties
  <2>2. t \in Seq(Tokens) /\ Len(t) = Len(Prompt[r]) + Len(w)
    BY <1>1, ConcatProperties
  <2> QED
    BY <2>1, <2>2
<1> HIDE DEF t
<1>3. Last(t) \in Tokens
  BY <1>2, ElementOfSeq DEF Last
<1>4. Decode!Values(penalty[r], model[Last(t)], Range(t)) \in [Tokens -> Int]
  BY <1>1, <1>3, ValuesType
<1>5. TextValues(r, w) \in [Tokens -> Int]
  BY <1>4 DEF TextValues, t
<1>6. Decode!Best(TextValues(r, w), Tokens) \in Tokens
  BY <1>1, <1>5, BestIs
<1> QED
  BY <1>5, <1>6 DEF NextToken

\* A row that is verified against the request's own history reads the values
\* that follow the output and the drafts in front of the row.
LEMMA RowIsText ==
  ASSUME TypeOK, NEW r \in Requests, NEW d \in Seq(Tokens), NEW k \in 1 .. Len(d) + 1
  PROVE  /\ RowValues(r, History(r), d, k) = TextValues(r, output[r] \o SubSeq(d, 1, k - 1))
         /\ SeenAt(History(r), d, k) \in SUBSET Tokens
<1> DEFINE b == SubSeq(d, 1, k - 1)
<1>1. Prompt[r] \in Seq(Tokens) /\ output[r] \in Seq(Tokens)
  BY RepetitionAssumption DEF TypeOK
<1>2. b \in Seq(Tokens) /\ Len(b) = k - 1 /\ \A i \in 1 .. k - 1 : b[i] = d[i]
  <2>1. k - 1 \in 0 .. Len(d)
    BY LenProperties
  <2> QED
    BY <2>1, Beginning
<1> HIDE DEF b
<1>3. (Prompt[r] \o output[r]) \o b = Prompt[r] \o (output[r] \o b)
  <2> DEFINE P == Prompt[r]
             o == output[r]
  <2>1. P \in Seq(Tokens) /\ o \in Seq(Tokens)
    BY <1>1
  <2> HIDE DEF P, o
  <2>2. b \in Seq(Tokens)
    BY <1>2
  <2>3. (P \o o) \o b = P \o (o \o b)
    BY ONLY <2>1, <2>2, ConcatAssociative, SMTT(60)
  <2> QED
    BY <2>3 DEF P, o
<1>4. Range(b) = {d[i] : i \in 1 .. k - 1}
  <2>1. Range(b) = {b[i] : i \in 1 .. Len(b)}
    BY <1>2, RangeEquality
  <2> QED
    BY <2>1, <1>2
<1>5. output[r] \o b \in Seq(Tokens) /\ Range(output[r] \o b) = Range(output[r]) \cup Range(b)
  BY <1>1, <1>2, ConcatProperties, RangeConcatenation
<1>6. Range(Prompt[r] \o (output[r] \o b)) = Range(Prompt[r]) \cup Range(output[r] \o b)
  <2> DEFINE P == Prompt[r]
             u == output[r] \o b
  <2>1. P \in Seq(Tokens) /\ u \in Seq(Tokens)
    BY <1>1, <1>5
  <2> HIDE DEF P, u
  <2>2. Range(P \o u) = Range(P) \cup Range(u)
    BY <2>1, RangeConcatenation
  <2> QED
    BY <2>2 DEF P, u
<1>7. SeenAt(History(r), d, k) = Range(Prompt[r] \o (output[r] \o b))
  <2>1. SeenAt(History(r), d, k) = (Range(Prompt[r]) \cup Range(output[r])) \cup Range(b)
    BY <1>4 DEF SeenAt, History
  <2>2. Range(output[r] \o b) = Range(output[r]) \cup Range(b)
    BY <1>5
  <2> QED
    BY <2>1, <2>2, <1>6
<1>8. Logits(r, d, k) = model[Last(Prompt[r] \o (output[r] \o b))]
  BY <1>3 DEF Logits, b
<1>9. Prompt[r] \o (output[r] \o b) \in Seq(Tokens)
  BY <1>1, <1>5, ConcatProperties
<1>10. Range(Prompt[r] \o (output[r] \o b)) \in SUBSET Tokens
  BY <1>9, RangeOfSeq
<1>11. RowValues(r, History(r), d, k) = TextValues(r, output[r] \o b)
  BY <1>7, <1>8 DEF RowValues, TextValues
<1> QED
  BY <1>7, <1>10, <1>11 DEF b

\* The accepted tokens are the verdicts in front of the first rejected draft
\* and the verdict there; the drafts in front of it are the tokens accepted.
LEMMA AcceptedIs ==
  ASSUME NEW d \in Seq(Tokens), NEW verdict \in [1 .. Len(d) + 1 -> Tokens]
  PROVE  /\ Accepted(d, verdict) \in Seq(Tokens)
         /\ Len(Accepted(d, verdict)) \in 1 .. Len(d) + 1
         /\ \A j \in 1 .. Len(Accepted(d, verdict)) :
              /\ Accepted(d, verdict)[j] = verdict[j]
              /\ SubSeq(Accepted(d, verdict), 1, j - 1) = SubSeq(d, 1, j - 1)
<1> DEFINE Stops(k) == /\ \A j \in 1 .. k : verdict[j] = d[j]
                       /\ k = Len(d) \/ verdict[k + 1] # d[k + 1]
           Wrong == {j \in 1 .. Len(d) : verdict[j] # d[j]}
           n == CHOOSE k \in 0 .. Len(d) : Stops(k)
           A == SubSeq(d, 1, n) \o <<verdict[n + 1]>>
<1>1. Len(d) \in Nat /\ Wrong \subseteq Nat
  BY LenProperties
<1>2. \E k \in 0 .. Len(d) : Stops(k)
  <2>1. CASE Wrong = {}
    <3>1. Stops(Len(d)) /\ Len(d) \in 0 .. Len(d)
      BY <2>1, <1>1
    <3> QED
      BY <3>1
  <2>2. CASE Wrong # {}
    <3>1. PICK i \in Wrong : \A j \in Wrong : i <= j
      BY <1>1, <2>2, LeastNat
    <3>2. i \in 1 .. Len(d) /\ i - 1 \in 0 .. Len(d) /\ (i - 1) + 1 = i
      BY <1>1, <3>1
    <3>3. ASSUME NEW j \in 1 .. i - 1 PROVE verdict[j] = d[j]
      <4>1. j \in 1 .. Len(d) /\ ~(i <= j)
        BY <1>1, <3>2
      <4> QED
        BY <3>1, <4>1
    <3>4. Stops(i - 1)
      BY <3>1, <3>2, <3>3
    <3> QED
      BY <3>2, <3>4
  <2> QED
    BY <2>1, <2>2
<1>3. n \in 0 .. Len(d) /\ Stops(n)
  BY <1>2
<1>4. Accepted(d, verdict) = A
  BY DEF Accepted
<1> HIDE DEF n
<1>5. /\ SubSeq(d, 1, n) \in Seq(Tokens) /\ Len(SubSeq(d, 1, n)) = n
      /\ \A i \in 1 .. n : SubSeq(d, 1, n)[i] = d[i]
  BY <1>3, Beginning
<1>6. n + 1 \in 1 .. Len(d) + 1 /\ verdict[n + 1] \in Tokens
  BY <1>1, <1>3
<1> DEFINE v == verdict[n + 1]
           b == SubSeq(d, 1, n)
<1>7. <<v>> \in Seq(Tokens) /\ Len(<<v>>) = 1 /\ <<v>>[1] = v
  BY <1>6
<1> HIDE DEF v, b
<1>8. /\ b \o <<v>> \in Seq(Tokens) /\ Len(b \o <<v>>) = n + 1
      /\ \A i \in 1 .. n + 1 : (b \o <<v>>)[i] = IF i <= n THEN b[i] ELSE <<v>>[i - n]
  BY <1>5, <1>7, ConcatProperties DEF b
<1>9. ASSUME NEW j \in 1 .. n + 1
      PROVE  (b \o <<v>>)[j] = verdict[j] /\ SubSeq(b \o <<v>>, 1, j - 1) = SubSeq(d, 1, j - 1)
  <2> DEFINE c == b \o <<v>>
  <2>1. j \in Nat /\ n \in Nat /\ j - 1 \in 0 .. n /\ (j <= n => j \in 1 .. n)
        /\ (~(j <= n) => j = n + 1 /\ j - n = 1)
    BY <1>1, <1>3
  <2>2. c[j] = IF j <= n THEN b[j] ELSE <<v>>[j - n]
    BY <1>8
  <2> HIDE DEF c
  <2>3. ASSUME j <= n PROVE c[j] = verdict[j]
    <3>1. b[j] = d[j] /\ d[j] = verdict[j]
      BY <2>1, <2>3, <1>3, <1>5 DEF b
    <3> QED
      BY <3>1, <2>2, <2>3
  <2>4. ASSUME ~(j <= n) PROVE c[j] = verdict[j]
    <3>1. j - n = 1 /\ j = n + 1
      BY <2>1, <2>4
    <3>2. c[j] = <<v>>[1]
      BY <3>1, <2>2, <2>4
    <3> QED
      BY <3>1, <3>2, <1>7 DEF v
  <2>5. c[j] = verdict[j]
    BY <2>3, <2>4
  <2>6. SubSeq(c, 1, j - 1) = SubSeq(d, 1, j - 1)
    <3>1. SubSeq(c, 1, n) = b
      BY <1>5, <1>7, BeginningOfConcat DEF b, c
    <3>2. c \in Seq(Tokens) /\ n \in 0 .. Len(c)
      BY <1>8, <2>1 DEF c
    <3>3. SubSeq(SubSeq(c, 1, n), 1, j - 1) = SubSeq(c, 1, j - 1)
      BY <3>2, <2>1, BeginningOfBeginning
    <3>4. SubSeq(SubSeq(d, 1, n), 1, j - 1) = SubSeq(d, 1, j - 1)
      BY <1>3, <2>1, BeginningOfBeginning
    <3> QED
      BY <3>1, <3>3, <3>4 DEF b
  <2> QED
    BY <2>5, <2>6 DEF c
<1>10. A = b \o <<v>>
  BY DEF b, v
<1> HIDE DEF A
<1>11. Len(A) = n + 1 /\ n + 1 \in 1 .. Len(d) + 1 /\ A \in Seq(Tokens)
  BY <1>6, <1>8, <1>10
<1>12. ASSUME NEW j \in 1 .. Len(A)
       PROVE  A[j] = verdict[j] /\ SubSeq(A, 1, j - 1) = SubSeq(d, 1, j - 1)
  BY <1>9, <1>10, <1>11
<1> QED
  BY <1>4, <1>11, <1>12
\* Any tokens a frame gives a request extend its output, up to the limit.
LEMMA GrownShape ==
  ASSUME TypeOK, NEW r \in Requests, NEW A \in Seq(Tokens)
  PROVE  /\ Grown(r, A) \in Seq(Tokens) /\ Len(Grown(r, A)) <= MaxOutput
         /\ IsPrefix(output[r], Grown(r, A))
         /\ \A j \in 1 .. Len(Grown(r, A)) - Len(output[r]) :
              /\ j \in 1 .. Len(A)
              /\ Grown(r, A)[Len(output[r]) + j] = A[j]
              /\ SubSeq(Grown(r, A), 1, Len(output[r]) + j - 1)
                   = output[r] \o SubSeq(A, 1, j - 1)
<1> DEFINE out  == output[r]
           full == out \o A
           m    == IF Len(full) > MaxOutput THEN MaxOutput ELSE Len(full)
           new  == Grown(r, A)
<1>1. out \in Seq(Tokens) /\ Len(out) <= MaxOutput /\ MaxOutput \in Nat
      /\ Len(out) \in Nat /\ Len(A) \in Nat
  BY RepetitionAssumption, LenProperties DEF TypeOK
<1>2. new = SubSeq(full, 1, m)
  BY DEF Grown
<1> HIDE DEF out, new
<1>3. /\ full \in Seq(Tokens) /\ Len(full) = Len(out) + Len(A)
      /\ \A i \in 1 .. Len(out) + Len(A) : full[i] = IF i <= Len(out) THEN out[i] ELSE A[i - Len(out)]
  BY <1>1, ConcatProperties
<1>4. SubSeq(full, 1, Len(out)) = out
      /\ \A n \in 0 .. Len(A) : SubSeq(full, 1, Len(out) + n) = out \o SubSeq(A, 1, n)
  BY <1>1, BeginningOfConcat
<1> HIDE DEF full
<1>5. m \in Len(out) .. Len(full) /\ m <= MaxOutput /\ m \in 0 .. Len(full) /\ Len(out) \in 0 .. m
  BY <1>1, <1>3
<1> HIDE DEF m
<1>6. new \in Seq(Tokens) /\ Len(new) = m /\ \A i \in 1 .. m : new[i] = full[i]
  BY <1>2, <1>3, <1>5, Beginning
<1>7. \A n \in 0 .. m : SubSeq(new, 1, n) = SubSeq(full, 1, n)
  BY <1>2, <1>3, <1>5, BeginningOfBeginning
<1>8. IsPrefix(out, new)
  <2>1. SubSeq(new, 1, Len(out)) = out
    BY <1>4, <1>5, <1>7
  <2>2. Len(out) <= Len(new)
    BY <1>1, <1>5, <1>6
  <2> QED
    BY <2>1, <2>2, <1>1, <1>6, PrefixIsBeginning
<1>9. ASSUME NEW j \in 1 .. Len(new) - Len(out)
      PROVE  /\ j \in 1 .. Len(A) /\ new[Len(out) + j] = A[j]
             /\ SubSeq(new, 1, Len(out) + j - 1) = out \o SubSeq(A, 1, j - 1)
  <2>1. /\ j \in 1 .. Len(A) /\ Len(out) + j \in 1 .. m /\ ~(Len(out) + j <= Len(out))
        /\ (Len(out) + j) - Len(out) = j /\ j - 1 \in 0 .. Len(A)
        /\ Len(out) + (j - 1) \in 0 .. m /\ Len(out) + j - 1 = Len(out) + (j - 1)
        /\ Len(out) + j \in 1 .. Len(out) + Len(A)
    BY <1>1, <1>3, <1>5, <1>6
  <2>2. new[Len(out) + j] = full[Len(out) + j]
    BY <2>1, <1>6
  <2>3. full[Len(out) + j] = A[j]
    BY <2>1, <1>3
  <2>4. SubSeq(new, 1, Len(out) + (j - 1)) = SubSeq(full, 1, Len(out) + (j - 1))
    BY <2>1, <1>7
  <2>5. SubSeq(full, 1, Len(out) + (j - 1)) = out \o SubSeq(A, 1, j - 1)
    BY <2>1, <1>4
  <2> QED
    BY <2>1, <2>2, <2>3, <2>4, <2>5
<1>10. Len(new) <= MaxOutput
  BY <1>5, <1>6
<1> QED
  BY <1>6, <1>8, <1>9, <1>10 DEF out, new

\* What the rows of a frame reduce to makes a sequence of tokens.
LEMMA GainsShape ==
  ASSUME NEW r \in Requests, NEW base, NEW d \in Seq(Tokens),
         NEW token \in [1 .. Len(d) + 1 -> Tokens], config \in ConfigType
  PROVE  /\ Gains(r, base, d, token) \in Seq(Tokens)
         /\ \A j \in 1 .. Len(Gains(r, base, d, token)) :
              /\ j \in 1 .. Len(d) + 1
              /\ Gains(r, base, d, token)[j] =
                   IF Relaxed(r, base, d, j, token[j]) THEN d[j] ELSE token[j]
              /\ SubSeq(Gains(r, base, d, token), 1, j - 1) = SubSeq(d, 1, j - 1)
<1> DEFINE verdict == [k \in 1 .. Len(d) + 1 |->
                         IF Relaxed(r, base, d, k, token[k]) THEN d[k] ELSE token[k]]
           A == Gains(r, base, d, token)
<1>1. Len(d) \in Nat
  BY LenProperties
<1>2. ASSUME NEW k \in 1 .. Len(d) + 1
      PROVE  (IF Relaxed(r, base, d, k, token[k]) THEN d[k] ELSE token[k]) \in Tokens
  <2>1. Relaxed(r, base, d, k, token[k]) => k \in 1 .. Len(d)
    BY <1>1 DEF Relaxed
  <2>2. Relaxed(r, base, d, k, token[k]) => d[k] \in Tokens
    BY <2>1, ElementOfSeq
  <2> QED
    BY <2>2
<1>3. verdict \in [1 .. Len(d) + 1 -> Tokens]
  BY <1>2
<1>4. A = Accepted(d, verdict)
  BY DEF Gains
<1> HIDE DEF A
<1>5. /\ A \in Seq(Tokens) /\ Len(A) \in 1 .. Len(d) + 1
      /\ \A j \in 1 .. Len(A) : A[j] = verdict[j] /\ SubSeq(A, 1, j - 1) = SubSeq(d, 1, j - 1)
  <2> HIDE DEF verdict
  <2>1. /\ Accepted(d, verdict) \in Seq(Tokens) /\ Len(Accepted(d, verdict)) \in 1 .. Len(d) + 1
        /\ \A j \in 1 .. Len(Accepted(d, verdict)) :
              /\ Accepted(d, verdict)[j] = verdict[j]
              /\ SubSeq(Accepted(d, verdict), 1, j - 1) = SubSeq(d, 1, j - 1)
    BY <1>3, AcceptedIs
  <2> QED
    BY <2>1, <1>4
<1>6. ASSUME NEW j \in 1 .. Len(A)
      PROVE  /\ j \in 1 .. Len(d) + 1
             /\ A[j] = IF Relaxed(r, base, d, j, token[j]) THEN d[j] ELSE token[j]
             /\ SubSeq(A, 1, j - 1) = SubSeq(d, 1, j - 1)
  <2>1. j \in 1 .. Len(d) + 1
    BY <1>1, <1>5
  <2> QED
    BY <2>1, <1>5
<1> QED
  BY <1>5, <1>6 DEF A

\* Token k of an output is the one greedy decoding puts there, or one that
\* approximate acceptance tolerates in its place.
MayFollow(r, w, k) ==
  LET before == SubSeq(w, 1, k - 1)
      values == TextValues(r, before)
      best   == NextToken(r, before)
  IN \/ w[k] = best
     \/ /\ config.margin >= 0
        /\ k > config.after
        /\ values[best] - values[w[k]] <= config.margin * penalty[r].num * penalty[r].den
        /\ {w[k], best} \cap config.protected = {}

\* When every row is verified against the request's own history and reduces
\* to the best token, each token gained may follow the ones before it.
LEMMA GrownFollows ==
  ASSUME TypeOK, NEW r \in Requests, NEW d \in Seq(Tokens),
         NEW token \in [1 .. Len(d) + 1 -> Tokens],
         \A k \in 1 .. Len(d) + 1 :
           token[k] = Decode!Best(RowValues(r, History(r), d, k), Tokens),
         NEW k \in Nat, k > Len(output[r]),
         k <= Len(Grown(r, Gains(r, History(r), d, token)))
  PROVE  MayFollow(r, Grown(r, Gains(r, History(r), d, token)), k)
<1> DEFINE out == output[r]
           A   == Gains(r, History(r), d, token)
           new == Grown(r, A)
           j   == k - Len(out)
           before == SubSeq(new, 1, k - 1)
           values == TextValues(r, before)
           best   == NextToken(r, before)
<1>1. config \in ConfigType /\ out \in Seq(Tokens) /\ Len(out) \in Nat /\ config.after \in Nat
  BY LenProperties DEF TypeOK, ConfigType
<1>2. /\ A \in Seq(Tokens)
      /\ \A i \in 1 .. Len(A) :
              /\ i \in 1 .. Len(d) + 1
              /\ A[i] = IF Relaxed(r, History(r), d, i, token[i]) THEN d[i] ELSE token[i]
              /\ SubSeq(A, 1, i - 1) = SubSeq(d, 1, i - 1)
  <2> DEFINE base == History(r)
  <2>1. config \in ConfigType
    BY <1>1
  <2> HIDE DEF base
  <2>2. /\ Gains(r, base, d, token) \in Seq(Tokens)
        /\ \A i \in 1 .. Len(Gains(r, base, d, token)) :
              /\ i \in 1 .. Len(d) + 1
              /\ Gains(r, base, d, token)[i] =
                   IF Relaxed(r, base, d, i, token[i]) THEN d[i] ELSE token[i]
              /\ SubSeq(Gains(r, base, d, token), 1, i - 1) = SubSeq(d, 1, i - 1)
    BY ONLY <2>1, GainsShape, r \in Requests, d \in Seq(Tokens), token \in [1 .. Len(d) + 1 -> Tokens]
  <2> QED
    BY <2>2 DEF base
<1> HIDE DEF A
<1>3. /\ new \in Seq(Tokens)
      /\ \A i \in 1 .. Len(new) - Len(out) :
              /\ i \in 1 .. Len(A)
              /\ new[Len(out) + i] = A[i]
              /\ SubSeq(new, 1, Len(out) + i - 1) = out \o SubSeq(A, 1, i - 1)
  BY <1>2, GrownShape
<1>4. j \in 1 .. Len(new) - Len(out) /\ Len(out) + j = k /\ Len(out) + j - 1 = k - 1
  <2>1. Len(new) \in Nat /\ k <= Len(new)
    BY <1>3, LenProperties DEF A
  <2> QED
    BY <1>1, <2>1
<1> HIDE DEF j
<1>5. j \in 1 .. Len(A) /\ new[k] = A[j] /\ before = out \o SubSeq(A, 1, j - 1)
  BY <1>3, <1>4
<1>6. /\ j \in 1 .. Len(d) + 1 /\ before = out \o SubSeq(d, 1, j - 1)
      /\ A[j] = IF Relaxed(r, History(r), d, j, token[j]) THEN d[j] ELSE token[j]
  BY <1>2, <1>5
<1> HIDE DEF new, out
<1>7. RowValues(r, History(r), d, j) = values
  BY <1>6, RowIsText DEF out
<1>8. token[j] = best
  BY <1>6, <1>7 DEF NextToken
<1> HIDE DEF values, best, before
<1>9. CASE Relaxed(r, History(r), d, j, token[j])
  <2>1. new[k] = d[j]
    BY <1>5, <1>6, <1>9
  <2>2. /\ config.margin >= 0 /\ Len(out) >= config.after
        /\ values[best] - values[d[j]] <= config.margin * penalty[r].num * penalty[r].den
        /\ {best, d[j]} \cap config.protected = {}
    BY <1>7, <1>8, <1>9 DEF Relaxed, out
  <2>3. k > config.after
    BY <1>1, <2>2, <1>4
  <2>4. {d[j], best} \cap config.protected = {}
    BY <2>2
  <2> QED
    BY <2>1, <2>2, <2>3, <2>4 DEF MayFollow, new, A, before, values, best
<1>10. CASE ~Relaxed(r, History(r), d, j, token[j])
  <2>1. new[k] = best
    BY <1>5, <1>6, <1>8, <1>10
  <2> QED
    BY <2>1 DEF MayFollow, new, A, before, best
<1> QED
  BY <1>9, <1>10
-----------------------------------------------------------------------------
(* The packed histories.                                                     *)

\* What update() puts into a row are tokens.
LEMMA RowMaskType ==
  ASSUME TypeOK, NEW p \in PackedType, NEW r \in Requests
  PROVE  RowMask(p, r, output[r]) \in SUBSET Tokens
<1> DEFINE out == output[r]
           tail == SubSeq(out, p.len[r] + 1, Len(out))
<1>1. out \in Seq(Tokens) /\ Prompt[r] \in Seq(Tokens) /\ p.len[r] \in Nat
      /\ p.slot[r] \in Slots \cup {NoSlot} /\ p.mask \in [Slots -> SUBSET Tokens]
  BY RepetitionAssumption DEF TypeOK, PackedType
<1> HIDE DEF out
<1>2. tail \in Seq(Tokens)
  <2>1. Len(out) \in Nat /\ p.len[r] + 1 \in Int
        /\ \A i \in p.len[r] + 1 .. Len(out) : i \in 1 .. Len(out)
    BY <1>1, LenProperties
  <2>2. \A i \in p.len[r] + 1 .. Len(out) : out[i] \in Tokens
    BY <1>1, <2>1, ElementOfSeq
  <2> QED
    BY <2>1, <2>2, SubSeqProperties
<1> HIDE DEF tail
<1>3. Range(tail) \subseteq Tokens /\ Range(out) \subseteq Tokens /\ Range(Prompt[r]) \subseteq Tokens
  BY <1>1, <1>2, RangeOfSeq
<1>4. RowMask(p, r, out) = IF Rebuilt(p, r, out) THEN Range(Prompt[r]) \cup Range(out)
                           ELSE p.mask[p.slot[r]] \cup Range(tail)
  BY DEF RowMask, tail
<1>5. ~Rebuilt(p, r, out) => p.slot[r] \in Slots
  BY <1>1 DEF Rebuilt
<1>6. ~Rebuilt(p, r, out) => p.mask[p.slot[r]] \subseteq Tokens
  BY <1>1, <1>5
<1>7. RowMask(p, r, out) \subseteq Tokens
  BY <1>3, <1>4, <1>6
<1> QED
  BY <1>7 DEF out

\* update() leaves every slot free or owned by one request, tracks exactly
\* the batch, and fills each request's row with the history it worked out.
LEMMA UpdatedShape ==
  ASSUME TypeOK, NEW p \in PackedType, SlotsOwnedIn(p),
         NEW batch \in SUBSET Requests, HasRoom(p, batch)
  PROVE  /\ Updated(p, batch, output) \in PackedType
         /\ SlotsOwnedIn(Updated(p, batch, output))
         /\ Tracked(Updated(p, batch, output)) = batch
         /\ \A r \in batch :
              /\ Updated(p, batch, output).len[r] = Len(output[r])
              /\ SeenBy(Updated(p, batch, output), r) = RowMask(p, r, output[r])
<1> DEFINE q == Updated(p, batch, output)
           f == CHOOSE f \in Placements(p, batch) : TRUE
           slotOf == [r \in Requests |->
                        IF r \notin batch THEN NoSlot
                        ELSE IF r \in Arrivals(p, batch) THEN f[r] ELSE p.slot[r]]
           maskOf == [s \in Slots |->
                        IF \E r \in batch : slotOf[r] = s
                          THEN LET r == CHOOSE r \in batch : slotOf[r] = s
                               IN RowMask(p, r, output[r])
                          ELSE p.mask[s]]
           lenOf == [r \in Requests |-> IF r \in batch THEN Len(output[r]) ELSE 0]
           lastOf == [r \in Requests |-> IF r \in batch THEN LastToken(output[r]) ELSE NoToken]
           freeOf == Available(p, batch) \ {f[r] : r \in Arrivals(p, batch)}
<1>1. q = [slot |-> slotOf, len |-> lenOf, last |-> lastOf, mask |-> maskOf, free |-> freeOf]
  BY DEF Updated
<1>2. f \in Placements(p, batch)
  BY DEF HasRoom
<1>3. /\ f \in [Arrivals(p, batch) -> Available(p, batch)]
      /\ \A r, u \in Arrivals(p, batch) : f[r] = f[u] => r = u
  BY <1>2 DEF Placements
<1> HIDE DEF f
<1>4. /\ p.slot \in [Requests -> Slots \cup {NoSlot}] /\ NoSlot \notin Slots
      /\ p.mask \in [Slots -> SUBSET Tokens] /\ p.free \subseteq Slots
  BY DEF PackedType, Slots, NoSlot
<1>5. /\ \A r, u \in Tracked(p) : p.slot[r] = p.slot[u] => r = u
      /\ p.free = Slots \ {p.slot[r] : r \in Tracked(p)}
  BY DEF SlotsOwnedIn
<1>6. \A r \in Requests : r \in Tracked(p) <=> p.slot[r] # NoSlot
  BY DEF Tracked
<1>7. Tracked(p) \subseteq Requests
  BY DEF Tracked
<1>8. \A r \in batch : r \in Arrivals(p, batch) <=> r \notin Tracked(p)
  BY DEF Arrivals
<1>9. Arrivals(p, batch) \subseteq batch
  BY DEF Arrivals
<1>10. Available(p, batch) = p.free \cup {p.slot[r] : r \in Tracked(p) \ batch}
  BY DEF Available, Released
<1>11. Available(p, batch) \subseteq Slots
  BY <1>4, <1>6, <1>7, <1>10
<1>12. \A r \in Tracked(p) \cap batch : p.slot[r] \in Slots /\ p.slot[r] \notin Available(p, batch)
  BY <1>4, <1>5, <1>6, <1>7, <1>10
<1>13. \A r \in Arrivals(p, batch) : f[r] \in Available(p, batch) /\ slotOf[r] = f[r]
  BY <1>3, <1>9
<1>14. \A r \in Tracked(p) \cap batch : slotOf[r] = p.slot[r]
  BY <1>7, <1>8
<1>15. \A r \in Requests \ batch : slotOf[r] = NoSlot
  OBVIOUS
<1>16. slotOf \in [Requests -> Slots \cup {NoSlot}]
  <2>1. ASSUME NEW r \in Requests PROVE slotOf[r] \in Slots \cup {NoSlot}
    BY <1>4, <1>8, <1>11, <1>12, <1>13, <1>14, <1>15
  <2> QED
    BY <2>1
<1> HIDE DEF slotOf
<1>17. \A r \in batch : slotOf[r] \in Slots
  BY <1>8, <1>11, <1>12, <1>13, <1>14
<1>18. \A r, u \in batch : slotOf[r] = slotOf[u] => r = u
  BY <1>3, <1>5, <1>8, <1>12, <1>13, <1>14
<1>19. Tracked(q) = batch
  <2>1. q.slot = slotOf
    BY <1>1
  <2>2. \A r \in Requests : slotOf[r] # NoSlot <=> r \in batch
    BY <1>4, <1>15, <1>17
  <2> QED
    BY <2>1, <2>2 DEF Tracked
<1>20. freeOf = Slots \ {slotOf[r] : r \in batch}
  <2>1. ASSUME NEW s \in freeOf PROVE s \in Slots \ {slotOf[r] : r \in batch}
    BY <2>1, <1>8, <1>9, <1>11, <1>12, <1>13, <1>14
  <2>2. ASSUME NEW s \in Slots \ {slotOf[r] : r \in batch} PROVE s \in freeOf
    <3>1. s \notin {f[r] : r \in Arrivals(p, batch)}
      BY <1>9, <1>13
    <3>2. s \in Available(p, batch)
      BY <1>5, <1>7, <1>10, <1>14
    <3> QED
      BY <3>1, <3>2
  <2> QED
    BY <2>1, <2>2
<1>21. ASSUME NEW r \in batch PROVE maskOf[slotOf[r]] = RowMask(p, r, output[r])
  <2> DEFINE u == CHOOSE u \in batch : slotOf[u] = slotOf[r]
  <2>1. u \in batch /\ slotOf[u] = slotOf[r]
    OBVIOUS
  <2>2. u = r
    BY <2>1, <1>18
  <2>3. maskOf[slotOf[r]] = RowMask(p, u, output[u])
    BY <1>17
  <2> QED
    BY <2>2, <2>3
<1>22. maskOf \in [Slots -> SUBSET Tokens]
  <2>1. ASSUME NEW s \in Slots PROVE maskOf[s] \in SUBSET Tokens
    <3>1. CASE \E r \in batch : slotOf[r] = s
      <4>1. PICK r \in batch : slotOf[r] = s
        BY <3>1
      <4>2. maskOf[s] = RowMask(p, r, output[r])
        BY <4>1, <1>21
      <4> QED
        BY <4>2, RowMaskType
    <3>2. CASE ~ \E r \in batch : slotOf[r] = s
      BY <3>2, <1>4
    <3> QED
      BY <3>1, <3>2
  <2> QED
    BY <2>1
<1>23. lenOf \in [Requests -> Nat] /\ lastOf \in [Requests -> Tokens \cup {NoToken}]
  <2>1. ASSUME NEW r \in Requests PROVE lenOf[r] \in Nat /\ lastOf[r] \in Tokens \cup {NoToken}
    <3>1. output[r] \in Seq(Tokens)
      BY DEF TypeOK
    <3>2. Len(output[r]) \in Nat
      BY <3>1, LenProperties
    <3>3. LastToken(output[r]) \in Tokens \cup {NoToken}
      <4>1. CASE output[r] = <<>>
        BY <4>1 DEF LastToken
      <4>2. CASE output[r] # <<>>
        <5>1. Len(output[r]) \in 1 .. Len(output[r])
          BY <3>1, <3>2, <4>2, EmptySeq
        <5> QED
          BY <3>1, <4>2, <5>1, ElementOfSeq DEF LastToken, Last
      <4> QED
        BY <4>1, <4>2
    <3> QED
      BY <3>2, <3>3
  <2> QED
    BY <2>1
<1>24. freeOf \in SUBSET Slots
  BY <1>20
<1> HIDE DEF maskOf, lenOf, lastOf, freeOf
<1>25. q \in PackedType
  BY <1>1, <1>16, <1>22, <1>23, <1>24 DEF PackedType
<1>26. SlotsOwnedIn(q)
  <2>1. q.slot = slotOf /\ q.free = freeOf
    BY <1>1
  <2> HIDE DEF q
  <2> QED
    BY <2>1, <1>18, <1>19, <1>20 DEF SlotsOwnedIn
<1>27. \A r \in batch : q.len[r] = Len(output[r]) /\ SeenBy(q, r) = RowMask(p, r, output[r])
  <2>1. q.slot = slotOf /\ q.mask = maskOf /\ q.len = lenOf
    BY <1>1
  <2> HIDE DEF q
  <2> QED
    BY <2>1, <1>21 DEF SeenBy, lenOf
<1> QED
  BY <1>19, <1>25, <1>26, <1>27
-----------------------------------------------------------------------------
(* Every path reduces a row to the best token, given the history it read.    *)

BestTokens(r, base, d) ==
  [k \in 1 .. Len(d) + 1 |-> Decode!Best(RowValues(r, base, d, k), Tokens)]

\* What a frame does that read the histories seen and reduced every row to
\* the best token.
FrameBest(rows, draft, seen) ==
  /\ output' = [r \in Requests |->
       IF r \in Range(rows)
         THEN Grown(r, Gains(r, seen[r], draft[r], BestTokens(r, seen[r], draft[r])))
         ELSE output[r]]
  /\ misread' = {r \in Range(rows) : seen[r] # History(r)}
  /\ UNCHANGED <<config, penalty, model, discards>>

\* The logits and values of a row are integers, whatever history it read.
LEMMA RowTyped ==
  ASSUME TypeOK, NEW r \in Requests, NEW d \in Seq(Tokens), NEW k \in 1 .. Len(d) + 1,
         NEW base
  PROVE  /\ Logits(r, d, k) \in Logit /\ penalty[r] \in Penalty
         /\ RowValues(r, base, d, k) \in [Tokens -> Int]
<1> DEFINE P == Prompt[r]
           o == output[r]
           b == SubSeq(d, 1, k - 1)
           t == P \o o \o b
<1>1. penalty[r] \in Penalty /\ P \in Seq(Tokens) /\ P # <<>> /\ o \in Seq(Tokens)
      /\ model \in [Tokens -> Logit]
  BY RepetitionAssumption DEF TypeOK, PenaltyType, ModelType, Penalty, Logit
<1>2. b \in Seq(Tokens)
  <2>1. k - 1 \in 0 .. Len(d)
    BY LenProperties
  <2> QED
    BY <2>1, Beginning
<1> HIDE DEF P, o, b
<1>3. P \o o \in Seq(Tokens) /\ Len(P \o o) = Len(P) + Len(o)
      /\ t \in Seq(Tokens) /\ Len(t) = Len(P \o o) + Len(b)
  BY <1>1, <1>2, ConcatProperties
<1>4. Len(P) \in Nat \ {0} /\ Len(o) \in Nat /\ Len(b) \in Nat
  BY <1>1, <1>2, EmptySeq, LenProperties
<1>5. Len(t) \in 1 .. Len(t)
  BY <1>3, <1>4
<1> HIDE DEF t
<1>6. Last(t) \in Tokens
  BY <1>3, <1>5, ElementOfSeq DEF Last
<1>7. Logits(r, d, k) \in Logit
  BY <1>1, <1>6 DEF Logits, t, P, o, b
<1> QED
  BY <1>1, <1>7, ValuesType DEF RowValues

\* The rows and drafts of a frame.
LEMMA BatchTyped ==
  ASSUME NEW rows \in Batches, NEW draft \in [Range(rows) -> Drafts]
  PROVE  /\ rows \in Seq(Requests) /\ Range(rows) \in SUBSET Requests
         /\ DOMAIN rows = 1 .. Len(rows) /\ Len(rows) \in 1 .. MaxBatch
         /\ \A r \in Range(rows) : draft[r] \in Seq(Tokens) /\ Len(draft[r]) \in Nat
<1>1. rows \in Seq(Requests) /\ Len(rows) \in 1 .. MaxBatch
  BY RepetitionAssumption
<1>2. Range(rows) \in SUBSET Requests /\ DOMAIN rows = 1 .. Len(rows)
  BY <1>1, RangeOfSeq, LenProperties
<1>3. \A r \in Range(rows) : draft[r] \in Seq(Tokens)
  BY RepetitionAssumption
<1> QED
  BY <1>1, <1>2, <1>3, LenProperties

\* Bare argmax reads the request's own history.
LEMMA BareBest ==
  ASSUME NEW rows \in Batches, NEW draft \in [Range(rows) -> Drafts], BareFrame(rows, draft)
  PROVE  FrameBest(rows, draft, [r \in Range(rows) |-> History(r)])
BY DEF BareFrame, Frame, FrameBest, BestTokens

\* So do the generic logits processors.
LEMMA FullBest ==
  ASSUME NEW rows \in Batches, NEW draft \in [Range(rows) -> Drafts], NEW low \in BOOLEAN,
         FullFrame(rows, draft, low)
  PROVE  FrameBest(rows, draft, [r \in Range(rows) |-> History(r)])
BY DEF FullFrame, Frame, FrameBest, BestTokens

\* What a path that keeps a packed history reads.
ReadFrom(p, rows) ==
  [r \in Range(rows) |-> SeenBy(Updated(p, Range(rows), output), r)]

\* The fused kernel's tiles and programs change nothing.
LEMMA FusedBest ==
  ASSUME TypeOK, NEW rows \in Batches, NEW draft \in [Range(rows) -> Drafts],
         NEW low \in BOOLEAN, FusedFrame(rows, draft, low)
  PROVE  FrameBest(rows, draft, ReadFrom(fused, rows))
<1> DEFINE base == ReadFrom(fused, rows)
<1>1. \A r \in Range(rows) : \A k \in 1 .. Len(draft[r]) + 1 :
        FusedToken(RowValues(r, base[r], draft[r], k))
          = Decode!Best(RowValues(r, base[r], draft[r], k), Tokens)
  <2>1. TAKE r \in Range(rows)
  <2>2. TAKE k \in 1 .. Len(draft[r]) + 1
  <2>3. RowValues(r, base[r], draft[r], k) \in [Tokens -> Int]
    BY BatchTyped, RowTyped
  <2> QED
    BY <2>3, FusedIsBest
<1>2. \A r \in Range(rows) :
        [k \in 1 .. Len(draft[r]) + 1 |-> FusedToken(RowValues(r, base[r], draft[r], k))]
          = BestTokens(r, base[r], draft[r])
  BY <1>1 DEF BestTokens
<1>3. /\ output' = [r \in Requests |->
           IF r \in Range(rows)
             THEN Grown(r, Gains(r, base[r], draft[r],
                    [k \in 1 .. Len(draft[r]) + 1 |->
                       FusedToken(RowValues(r, base[r], draft[r], k))]))
             ELSE output[r]]
      /\ misread' = {r \in Range(rows) : base[r] # History(r)}
      /\ UNCHANGED <<config, penalty, model, discards>>
  BY DEF FusedFrame, Frame, ReadFrom
<1> HIDE DEF base
<1>4. FrameBest(rows, draft, base)
  BY <1>2, <1>3 DEF FrameBest
<1> QED
  BY <1>4 DEF base

\* A frame the Top-K proof went through for reduces to the best token.
LEMMA TopKBest ==
  ASSUME TypeOK, NEW rows \in Batches, NEW draft \in [Range(rows) -> Drafts],
         NEW low \in BOOLEAN, TopKFrame(rows, draft, low)
  PROVE  FrameBest(rows, draft, ReadFrom(topk, rows))
<1> DEFINE base == ReadFrom(topk, rows)
<1>1. /\ \A r \in Range(rows) : penalty[r].num >= penalty[r].den
      /\ config.topk > 0 /\ config \in ConfigType
      /\ \A r \in Range(rows) : \A k \in 1 .. Len(draft[r]) + 1 :
           Proven(r, base[r], draft[r], k, low)
  BY DEF TopKFrame, Frame, TopKOn, RepetitionOnly, AllProven, ReadFrom, TypeOK
<1>2. /\ output' = [r \in Requests |->
           IF r \in Range(rows)
             THEN Grown(r, Gains(r, base[r], draft[r],
                    [k \in 1 .. Len(draft[r]) + 1 |->
                       TopKToken(r, base[r], draft[r], k, low)]))
             ELSE output[r]]
      /\ misread' = {r \in Range(rows) : base[r] # History(r)}
      /\ UNCHANGED <<config, penalty, model, discards>>
  BY DEF TopKFrame, Frame, ReadFrom
<1> HIDE DEF base
<1>3. \A r \in Range(rows) : \A k \in 1 .. Len(draft[r]) + 1 :
        TopKToken(r, base[r], draft[r], k, low)
          = Decode!Best(RowValues(r, base[r], draft[r], k), Tokens)
  <2>1. TAKE r \in Range(rows)
  <2>2. TAKE k \in 1 .. Len(draft[r]) + 1
  <2>3. r \in Requests /\ draft[r] \in Seq(Tokens)
    BY BatchTyped
  <2> DEFINE d == draft[r]
             seen == base[r]
  <2>4. Logits(r, d, k) \in Logit /\ penalty[r] \in Penalty
    BY <2>3, RowTyped
  <2>5. Proven(r, seen, d, k, low) /\ penalty[r].num >= penalty[r].den
    BY <1>1
  <2> HIDE DEF d, seen
  <2>6. TopKToken(r, seen, d, k, low) = Decode!Best(RowValues(r, seen, d, k), Tokens)
    BY <1>1, <2>3, <2>4, <2>5, ProvenIsBest
  <2> QED
    BY <2>6 DEF d, seen
<1>4. \A r \in Range(rows) :
        [k \in 1 .. Len(draft[r]) + 1 |-> TopKToken(r, base[r], draft[r], k, low)]
          = BestTokens(r, base[r], draft[r])
  BY <1>3 DEF BestTokens
<1>5. FrameBest(rows, draft, base)
  BY <1>2, <1>4 DEF FrameBest
<1> QED
  BY <1>5 DEF base
-----------------------------------------------------------------------------
(* The native history.                                                       *)

\* The end of an output consists of tokens.
LEMMA TailTyped ==
  ASSUME NEW out \in Seq(Tokens), NEW m \in Nat
  PROVE  Range(SubSeq(out, m + 1, Len(out))) \in SUBSET Tokens
<1>1. Len(out) \in Nat /\ m + 1 \in Int /\ \A i \in m + 1 .. Len(out) : i \in 1 .. Len(out)
  BY LenProperties
<1>2. \A i \in m + 1 .. Len(out) : out[i] \in Tokens
  BY <1>1, ElementOfSeq
<1>3. SubSeq(out, m + 1, Len(out)) \in Seq(Tokens)
  BY <1>1, <1>2, SubSeqProperties
<1> QED
  BY <1>3, RangeOfSeq

\* The host's unique tokens of a request are tokens.
LEMMA NativeTokensTyped ==
  ASSUME TypeOK, NEW r \in Requests
  PROVE  NativeTokens(native, r, output[r]) \in SUBSET Tokens
<1> DEFINE out == output[r]
           m == Len(native.output[r])
<1>1. out \in Seq(Tokens) /\ Prompt[r] \in Seq(Tokens) /\ native.output[r] \in Seq(Tokens)
      /\ native.tokens[r] \in SUBSET Tokens
  BY RepetitionAssumption DEF TypeOK, NativeType
<1>2. m \in Nat
  BY <1>1, LenProperties
<1> HIDE DEF out, m
<1>3. /\ Range(SubSeq(out, m + 1, Len(out))) \in SUBSET Tokens
      /\ Range(out) \in SUBSET Tokens /\ Range(Prompt[r]) \in SUBSET Tokens
  BY <1>1, <1>2, TailTyped, RangeOfSeq
<1>4. NativeTokens(native, r, out) =
        IF NativeRebuilt(native, r, out) THEN Range(Prompt[r]) \cup Range(out)
        ELSE native.tokens[r] \cup Range(SubSeq(out, m + 1, Len(out)))
  BY DEF NativeTokens, m
<1>5. NativeTokens(native, r, out) \in SUBSET Tokens
  BY <1>1, <1>3, <1>4
<1> QED
  BY <1>5 DEF out

\* update() gives up at a row of the batch, or at none.
LEMMA GivesUpAtRow ==
  ASSUME NEW rows \in Seq(Requests), ~(GivesUpAt(native, rows, output) > Len(rows))
  PROVE  GivesUpAt(native, rows, output) \in 1 .. Len(rows)
<1> DEFINE tooWide == {i \in DOMAIN rows :
             Cardinality(NativeTokens(native, rows[i], output[rows[i]])) > HistoryWidth}
<1>1. DOMAIN rows = 1 .. Len(rows) /\ Len(rows) \in Nat
  BY LenProperties
<1>2. tooWide \subseteq 1 .. Len(rows) /\ tooWide \subseteq Nat
  BY <1>1
<1>3. GivesUpAt(native, rows, output) =
        IF tooWide = {} THEN Len(rows) + 1
        ELSE CHOOSE i \in tooWide : \A j \in tooWide : i <= j
  BY DEF GivesUpAt
<1> HIDE DEF tooWide
<1>4. tooWide # {}
  BY <1>1, <1>3
<1>5. \E i \in tooWide : \A j \in tooWide : i <= j
  BY <1>2, <1>4, LeastNat
<1> QED
  BY <1>2, <1>3, <1>4, <1>5

\* The native history keeps its types, also when update() gives up.
LEMMA NativeUpdatedTyped ==
  ASSUME TypeOK, NEW rows \in Seq(Requests), Len(rows) \in 1 .. MaxBatch
  PROVE  NativeUpdated(native, rows, output) \in NativeType
<1> DEFINE stop    == GivesUpAt(native, rows, output)
           done    == stop > Len(rows)
           reached == {rows[i] : i \in 1 .. IF done THEN Len(rows) ELSE stop}
           grown   == native.known \cup reached
           knownOf == IF done /\ Cardinality(grown) > CacheLimit THEN reached ELSE grown
           tokensOf == [r \in Requests |->
                     IF r \in reached THEN NativeTokens(native, r, output[r])
                     ELSE IF r \in knownOf THEN native.tokens[r] ELSE {}]
           outputOf == [r \in Requests |->
                     IF r \in reached THEN output[r]
                     ELSE IF r \in knownOf THEN native.output[r] ELSE <<>>]
           ownerOf == [i \in 1 .. MaxBatch |->
                     IF i < stop /\ i <= Len(rows) THEN rows[i]
                     ELSE IF done THEN NoRequest ELSE native.owner[i]]
           historyOf == [i \in 1 .. MaxBatch |->
                     IF i < stop /\ i <= Len(rows)
                       THEN RowHistory(native, i, rows[i], output[rows[i]])
                       ELSE native.history[i]]
<1>1. NativeUpdated(native, rows, output) =
        [known |-> knownOf, tokens |-> tokensOf, output |-> outputOf,
         owner |-> ownerOf, history |-> historyOf]
  BY DEF NativeUpdated
<1>2. /\ native.known \subseteq Requests /\ native.tokens \in [Requests -> SUBSET Tokens]
      /\ native.output \in [Requests -> Seq(Tokens)]
      /\ native.owner \in [1 .. MaxBatch -> Requests \cup {NoRequest}]
      /\ native.history \in [1 .. MaxBatch -> SUBSET Tokens]
      /\ output \in [Requests -> Seq(Tokens)]
  BY DEF TypeOK, NativeType
<1>3. Len(rows) \in Nat /\ MaxBatch \in Nat /\ \A i \in 1 .. Len(rows) : rows[i] \in Requests
  BY RepetitionAssumption, LenProperties, ElementOfSeq
<1>4. reached \subseteq Requests
  <2>1. CASE done
    BY <2>1, <1>3
  <2>2. CASE ~done
    <3>1. stop \in 1 .. Len(rows)
      BY <2>2, GivesUpAtRow
    <3>2. \A i \in 1 .. stop : i \in 1 .. Len(rows)
      BY <3>1, <1>3
    <3> QED
      BY <2>2, <3>2, <1>3
  <2> QED
    BY <2>1, <2>2
<1> HIDE DEF reached, done, stop
<1>5. knownOf \in SUBSET Requests
  BY <1>2, <1>4
<1> HIDE DEF knownOf
<1>6. tokensOf \in [Requests -> SUBSET Tokens]
  <2>1. ASSUME NEW r \in Requests PROVE tokensOf[r] \in SUBSET Tokens
    <3>1. NativeTokens(native, r, output[r]) \in SUBSET Tokens /\ native.tokens[r] \in SUBSET Tokens
      BY <1>2, NativeTokensTyped
    <3> QED
      BY <3>1
  <2> QED
    BY <2>1
<1>7. outputOf \in [Requests -> Seq(Tokens)]
  <2>1. <<>> \in Seq(Tokens)
    BY EmptySeq
  <2> QED
    BY <1>2, <2>1
<1>8. ownerOf \in [1 .. MaxBatch -> Requests \cup {NoRequest}]
  <2>1. ASSUME NEW i \in 1 .. MaxBatch PROVE ownerOf[i] \in Requests \cup {NoRequest}
    <3>1. i <= Len(rows) => rows[i] \in Requests
      BY <1>3
    <3>2. native.owner[i] \in Requests \cup {NoRequest}
      BY <1>2
    <3> QED
      BY <3>1, <3>2
  <2> QED
    BY <2>1
<1>9. historyOf \in [1 .. MaxBatch -> SUBSET Tokens]
  <2>1. ASSUME NEW i \in 1 .. MaxBatch PROVE historyOf[i] \in SUBSET Tokens
    <3>1. native.history[i] \in SUBSET Tokens
      BY <1>2
    <3>2. ASSUME i <= Len(rows)
          PROVE  RowHistory(native, i, rows[i], output[rows[i]]) \in SUBSET Tokens
      <4>1. rows[i] \in Requests
        BY <1>3, <3>2
      <4>2. NativeTokens(native, rows[i], output[rows[i]]) \in SUBSET Tokens
        BY <4>1, NativeTokensTyped
      <4> QED
        BY <3>1, <4>2 DEF RowHistory
    <3> QED
      BY <3>1, <3>2
  <2> QED
    BY <2>1
<1> HIDE DEF tokensOf, outputOf, ownerOf, historyOf
<1> QED
  BY <1>1, <1>5, <1>6, <1>7, <1>8, <1>9 DEF NativeType

ReadNative(rows) ==
  [r \in Range(rows) |->
     NativeUpdated(native, rows, output).history[CHOOSE i \in DOMAIN rows : rows[i] = r]]

\* A native frame reduces to the best token, given the rows it read.
LEMMA NativeBest ==
  ASSUME TypeOK, NEW rows \in Batches, NEW draft \in [Range(rows) -> Drafts],
         NativeFrame(rows, draft)
  PROVE  FrameBest(rows, draft, ReadNative(rows))
<1> DEFINE base == ReadNative(rows)
<1>1. /\ output' = [r \in Requests |->
           IF r \in Range(rows)
             THEN Grown(r, Gains(r, base[r], draft[r],
                    [k \in 1 .. Len(draft[r]) + 1 |-> NativeToken(r, base[r], draft[r], k)]))
             ELSE output[r]]
      /\ misread' = {r \in Range(rows) : base[r] # History(r)}
      /\ UNCHANGED <<config, penalty, model, discards>>
  BY DEF NativeFrame, Frame, ReadNative
<1>2. \A r \in Range(rows) : base[r] \in SUBSET Tokens
  <2>1. TAKE r \in Range(rows)
  <2> DEFINE i == CHOOSE i \in DOMAIN rows : rows[i] = r
             after == NativeUpdated(native, rows, output)
  <2>2. i \in DOMAIN rows
    BY DEF Range
  <2>3. i \in 1 .. MaxBatch
    BY <2>2, BatchTyped, RepetitionAssumption
  <2>4. after \in NativeType
    BY BatchTyped, NativeUpdatedTyped
  <2>5. base[r] = after.history[i]
    BY DEF ReadNative
  <2> HIDE DEF after, i, base
  <2> QED
    BY <2>3, <2>4, <2>5 DEF NativeType
<1> HIDE DEF base
<1>3. \A r \in Range(rows) : \A k \in 1 .. Len(draft[r]) + 1 :
        NativeToken(r, base[r], draft[r], k)
          = Decode!Best(RowValues(r, base[r], draft[r], k), Tokens)
  <2>1. TAKE r \in Range(rows)
  <2>2. TAKE k \in 1 .. Len(draft[r]) + 1
  <2> DEFINE d == draft[r]
             values == RowValues(r, base[r], d, k)
             seen == SeenAt(base[r], d, k)
  <2>3. r \in Requests /\ d \in Seq(Tokens) /\ Len(d) \in Nat
    BY BatchTyped
  <2>4. values \in [Tokens -> Int]
    BY <2>3, RowTyped
  <2>5. seen \in SUBSET Tokens
    <3>1. \A i \in 1 .. k - 1 : i \in 1 .. Len(d)
      BY <2>3
    <3>2. \A i \in 1 .. k - 1 : d[i] \in Tokens
      BY <2>3, <3>1, ElementOfSeq
    <3> QED
      BY <1>2, <3>2 DEF SeenAt
  <2>6. NativeToken(r, base[r], d, k) =
          Decode!Best(values,
             (IF seen = {} THEN {} ELSE {Decode!Best(values, seen)}) \cup
             (IF Tokens \ seen = {} THEN {} ELSE {Decode!Best(values, Tokens \ seen)}))
    BY DEF NativeToken
  <2> HIDE DEF values, seen
  <2>7. NativeToken(r, base[r], d, k) = Decode!Best(values, Tokens)
    BY <2>4, <2>5, <2>6, NativeIsBest
  <2> QED
    BY <2>7 DEF values
<1>4. \A r \in Range(rows) :
        [k \in 1 .. Len(draft[r]) + 1 |-> NativeToken(r, base[r], draft[r], k)]
          = BestTokens(r, base[r], draft[r])
  BY <1>3 DEF BestTokens
<1>5. FrameBest(rows, draft, base)
  BY <1>1, <1>4 DEF FrameBest
<1> QED
  BY <1>5 DEF base
-----------------------------------------------------------------------------
(* A step of the verifier, whichever path it takes.                          *)

\* A packed history after a frame: as it was, or brought up to date.
Kept(p, after, rows) ==
  \/ after = p
  \/ HasRoom(p, Range(rows)) /\ after = Updated(p, Range(rows), output)

\* The histories a frame can have read.
Sources(rows) ==
  {[r \in Range(rows) |-> History(r)]}
    \cup (IF HasRoom(topk, Range(rows)) THEN {ReadFrom(topk, rows)} ELSE {})
    \cup (IF HasRoom(fused, Range(rows)) THEN {ReadFrom(fused, rows)} ELSE {})
    \cup (IF config.native THEN {ReadNative(rows)} ELSE {})

Step(rows, draft, seen) ==
  /\ FrameBest(rows, draft, seen)
  /\ seen \in Sources(rows)
  /\ Kept(topk, topk', rows) /\ Kept(fused, fused', rows)
  /\ native' = native \/ (config.native /\ native' = NativeUpdated(native, rows, output))

\* A frame that comes past the native path may have updated its history.
LEMMA PastNativeStep ==
  ASSUME NEW rows, PastNative(rows)
  PROVE  native' = native \/ (config.native /\ native' = NativeUpdated(native, rows, output))
BY DEF PastNative, NativeOn

\* A frame that comes past the Top-K path may have updated its history.
LEMMA PastTopKStep ==
  ASSUME NEW rows, NEW draft, NEW low, PastTopK(rows, draft, low)
  PROVE  Kept(topk, topk', rows) /\ PastNative(rows)
BY DEF PastTopK, Kept

\* Every frame is such a step.
LEMMA VerifyStep ==
  ASSUME TypeOK, Verify
  PROVE  \E rows \in Batches : \E draft \in [Range(rows) -> Drafts] : \E seen :
           Step(rows, draft, seen)
<1> DEFINE Taken(rows, draft, low) ==
             \/ BareFrame(rows, draft)
             \/ NativeFrame(rows, draft)
             \/ TopKFrame(rows, draft, low)
             \/ FusedFrame(rows, draft, low)
             \/ FullFrame(rows, draft, low)
<1>0. PICK rows \in Batches :
        \E draft \in [Range(rows) -> Drafts], low \in BOOLEAN : Taken(rows, draft, low)
  BY DEF Verify
<1>1. PICK draft \in [Range(rows) -> Drafts], low \in BOOLEAN : Taken(rows, draft, low)
  BY <1>0
<1>2. rows \in Batches /\ draft \in [Range(rows) -> Drafts] /\ low \in BOOLEAN
  OBVIOUS
<1>3. CASE BareFrame(rows, draft)
  <2>1. topk' = topk /\ fused' = fused /\ native' = native
    BY <1>3 DEF BareFrame, Frame
  <2>2. FrameBest(rows, draft, [r \in Range(rows) |-> History(r)])
    BY <1>2, <1>3, BareBest
  <2> QED
    BY <1>2, <2>1, <2>2 DEF Step, Kept, Sources
<1>4. CASE NativeFrame(rows, draft)
  <2>1. /\ topk' = topk /\ fused' = fused /\ config.native
        /\ native' = NativeUpdated(native, rows, output)
    BY <1>4 DEF NativeFrame, NativeOn, Frame
  <2>2. FrameBest(rows, draft, ReadNative(rows))
    BY <1>2, <1>4, NativeBest
  <2>3. ReadNative(rows) \in Sources(rows)
    BY <2>1 DEF Sources
  <2> QED
    BY <1>2, <2>1, <2>2, <2>3 DEF Step, Kept
<1>5. CASE TopKFrame(rows, draft, low)
  <2>1. /\ HasRoom(topk, Range(rows)) /\ topk' = Updated(topk, Range(rows), output)
        /\ fused' = fused /\ PastNative(rows)
    BY <1>5 DEF TopKFrame, Frame
  <2>2. FrameBest(rows, draft, ReadFrom(topk, rows))
    BY <1>2, <1>5, TopKBest
  <2>3. ReadFrom(topk, rows) \in Sources(rows)
    BY <2>1 DEF Sources
  <2> QED
    BY <1>2, <2>1, <2>2, <2>3, PastNativeStep DEF Step, Kept
<1>6. CASE FusedFrame(rows, draft, low)
  <2>1. /\ HasRoom(fused, Range(rows)) /\ fused' = Updated(fused, Range(rows), output)
        /\ PastTopK(rows, draft, low)
    BY <1>6 DEF FusedFrame, Frame
  <2>2. FrameBest(rows, draft, ReadFrom(fused, rows))
    BY <1>2, <1>6, FusedBest
  <2>3. ReadFrom(fused, rows) \in Sources(rows)
    BY <2>1 DEF Sources
  <2>4. Kept(topk, topk', rows) /\ PastNative(rows)
    BY <2>1, PastTopKStep
  <2> QED
    BY <1>2, <2>1, <2>2, <2>3, <2>4, PastNativeStep DEF Step, Kept
<1>7. CASE FullFrame(rows, draft, low)
  <2>1. fused' = fused /\ PastTopK(rows, draft, low)
    BY <1>7 DEF FullFrame, Frame
  <2>2. FrameBest(rows, draft, [r \in Range(rows) |-> History(r)])
    BY <1>2, <1>7, FullBest
  <2>3. [r \in Range(rows) |-> History(r)] \in Sources(rows)
    BY DEF Sources
  <2>4. Kept(topk, topk', rows) /\ PastNative(rows)
    BY <2>1, PastTopKStep
  <2>5. Kept(fused, fused', rows)
    BY <2>1 DEF Kept
  <2> QED
    BY <1>2, <2>2, <2>3, <2>4, <2>5, PastNativeStep DEF Step
<1> QED
  BY <1>1, <1>3, <1>4, <1>5, <1>6, <1>7

\* The best tokens of the rows are tokens.
LEMMA BestTokensTyped ==
  ASSUME TypeOK, NEW r \in Requests, NEW d \in Seq(Tokens), NEW base
  PROVE  BestTokens(r, base, d) \in [1 .. Len(d) + 1 -> Tokens]
<1>1. Tokens # {}
  BY RepetitionAssumption
<1>2. ASSUME NEW k \in 1 .. Len(d) + 1
      PROVE  Decode!Best(RowValues(r, base, d, k), Tokens) \in Tokens
  BY <1>1, RowTyped, BestIs
<1> QED
  BY <1>2 DEF BestTokens

\* A frame extends outputs by tokens, up to the limit.
LEMMA OutputGrows ==
  ASSUME TypeOK, NEW rows \in Batches, NEW draft \in [Range(rows) -> Drafts], NEW seen,
         FrameBest(rows, draft, seen)
  PROVE  /\ output' \in [Requests -> Seq(Tokens)]
         /\ \A r \in Requests : Len(output'[r]) <= MaxOutput /\ IsPrefix(output[r], output'[r])
<1>1. output \in [Requests -> Seq(Tokens)] /\ \A r \in Requests : Len(output[r]) <= MaxOutput
  BY DEF TypeOK
<1> DEFINE next(r) == Grown(r, Gains(r, seen[r], draft[r], BestTokens(r, seen[r], draft[r])))
<1>2. output' = [r \in Requests |-> IF r \in Range(rows) THEN next(r) ELSE output[r]]
  BY DEF FrameBest
<1>3. ASSUME NEW r \in Range(rows)
      PROVE  next(r) \in Seq(Tokens) /\ Len(next(r)) <= MaxOutput /\ IsPrefix(output[r], next(r))
  <2> DEFINE d == draft[r]
             base == seen[r]
             token == BestTokens(r, base, d)
             A == Gains(r, base, d, token)
  <2>1. r \in Requests /\ d \in Seq(Tokens) /\ config \in ConfigType
    BY BatchTyped DEF TypeOK
  <2> HIDE DEF d, base
  <2>2. token \in [1 .. Len(d) + 1 -> Tokens]
    BY <2>1, BestTokensTyped
  <2> HIDE DEF token
  <2>3. A \in Seq(Tokens)
    BY <2>1, <2>2, GainsShape
  <2>4. next(r) = Grown(r, A)
    BY DEF d, base, token
  <2> HIDE DEF A, next
  <2> QED
    BY <2>1, <2>3, <2>4, GrownShape
<1> HIDE DEF next
<1>4. ASSUME NEW r \in Requests
      PROVE  /\ output'[r] \in Seq(Tokens) /\ Len(output'[r]) <= MaxOutput
             /\ IsPrefix(output[r], output'[r])
  <2>1. CASE r \in Range(rows)
    BY <1>2, <1>3, <2>1
  <2>2. CASE r \notin Range(rows)
    <3>1. output'[r] = output[r]
      BY <1>2, <2>2
    <3>2. IsPrefix(output[r], output[r])
      <4>1. output[r] \in Seq(Tokens) /\ Len(output[r]) \in Nat
        BY <1>1, LenProperties
      <4> QED
        BY <4>1 DEF IsPrefix
    <3> QED
      BY <1>1, <3>1, <3>2
  <2> QED
    BY <2>1, <2>2
<1> QED
  BY <1>2, <1>4
-----------------------------------------------------------------------------
(* Types and slots, whatever is switched on.                                 *)

Shape == TypeOK /\ SlotsOwned

\* The first states have the types and all slots free.
LEMMA InitShape == Init => Shape
<1> SUFFICES ASSUME Init PROVE Shape
  OBVIOUS
<1>1. /\ config \in ConfigType /\ penalty \in PenaltyType /\ model \in ModelType
      /\ output = [r \in Requests |-> <<>>] /\ topk = Unused /\ fused = Unused
      /\ native = NativeEmpty /\ misread = {} /\ discards = 0
  BY RepetitionAssumption DEF Init
<1>2. <<>> \in Seq(Tokens) /\ Len(<<>>) = 0 /\ MaxOutput \in Nat /\ MaxDiscards \in Nat
  BY RepetitionAssumption, EmptySeq
<1>3. Unused \in PackedType
  BY DEF Unused, PackedType
<1>4. SlotsOwnedIn(Unused)
  <2>1. Tracked(Unused) = {}
    BY DEF Tracked, Unused
  <2>2. Unused.free = Slots
    BY DEF Unused
  <2> QED
    BY <2>1, <2>2 DEF SlotsOwnedIn
<1>5. NativeEmpty \in NativeType
  BY <1>2 DEF NativeEmpty, NativeType
<1>6. output \in [Requests -> Seq(Tokens)] /\ \A r \in Requests : Len(output[r]) <= MaxOutput
  BY <1>1, <1>2
<1>7. TypeOK
  BY <1>1, <1>2, <1>3, <1>5, <1>6 DEF TypeOK
<1>8. SlotsOwned
  BY <1>1, <1>4 DEF SlotsOwned
<1> QED
  BY <1>7, <1>8 DEF Shape

\* A packed history keeps its shape in a frame.
LEMMA KeptShape ==
  ASSUME TypeOK, NEW p \in PackedType, SlotsOwnedIn(p), NEW rows \in Batches,
         NEW draft \in [Range(rows) -> Drafts], NEW after, Kept(p, after, rows)
  PROVE  after \in PackedType /\ SlotsOwnedIn(after)
<1>1. Range(rows) \in SUBSET Requests
  BY BatchTyped
<1>2. HasRoom(p, Range(rows)) =>
        /\ Updated(p, Range(rows), output) \in PackedType
        /\ SlotsOwnedIn(Updated(p, Range(rows), output))
  BY <1>1, UpdatedShape
<1> QED
  BY <1>2 DEF Kept

\* What Discard leaves of an output.
LEMMA DiscardOutput ==
  ASSUME TypeOK, Discard
  PROVE  /\ output' \in [Requests -> Seq(Tokens)]
         /\ \A r \in Requests :
              /\ Len(output'[r]) \in Nat /\ Len(output'[r]) <= Len(output[r])
              /\ output'[r] = SubSeq(output[r], 1, Len(output'[r]))
<1>1. output \in [Requests -> Seq(Tokens)] /\ \A r \in Requests : Len(output[r]) \in Nat
  BY LenProperties DEF TypeOK
<1>2. PICK r \in Requests : \E n \in 0 .. Len(output[r]) - 1 :
        output' = [output EXCEPT ![r] = SubSeq(output[r], 1, n)]
  BY DEF Discard
<1>3. PICK n \in 0 .. Len(output[r]) - 1 :
        output' = [output EXCEPT ![r] = SubSeq(output[r], 1, n)]
  BY <1>2
<1>4. n \in 0 .. Len(output[r]) /\ n <= Len(output[r])
  BY <1>1
<1>5. SubSeq(output[r], 1, n) \in Seq(Tokens) /\ Len(SubSeq(output[r], 1, n)) = n
  BY <1>1, <1>4, Beginning
<1>6. ASSUME NEW u \in Requests
      PROVE  /\ output'[u] \in Seq(Tokens) /\ Len(output'[u]) \in Nat
             /\ Len(output'[u]) <= Len(output[u])
             /\ output'[u] = SubSeq(output[u], 1, Len(output'[u]))
  <2>1. CASE u = r
    <3>1. output'[u] = SubSeq(output[r], 1, n)
      BY <2>1, <1>1, <1>3
    <3> QED
      BY <2>1, <3>1, <1>4, <1>5
  <2>2. CASE u # r
    <3>1. output'[u] = output[u]
      BY <2>2, <1>1, <1>3
    <3>2. SubSeq(output[u], 1, Len(output[u])) = output[u]
      BY <1>1, SubSeqFull
    <3> QED
      BY <3>1, <3>2, <1>1
  <2> QED
    BY <2>1, <2>2
<1>7. output' \in [Requests -> Seq(Tokens)]
  BY <1>1, <1>3, <1>5
<1> QED
  BY <1>6, <1>7

\* Every step keeps the types and the slots.
LEMMA NextShape == Shape /\ [Next]_vars => Shape'
<1> SUFFICES ASSUME Shape, [Next]_vars PROVE Shape'
  OBVIOUS
<1>1. /\ TypeOK /\ topk \in PackedType /\ fused \in PackedType /\ native \in NativeType
      /\ SlotsOwnedIn(topk) /\ SlotsOwnedIn(fused)
      /\ config \in ConfigType /\ penalty \in PenaltyType /\ model \in ModelType
      /\ discards \in 0 .. MaxDiscards /\ MaxDiscards \in Nat
  BY RepetitionAssumption DEF Shape, TypeOK, SlotsOwned
<1>2. CASE Verify
  <2>1. PICK rows \in Batches : \E draft \in [Range(rows) -> Drafts] : \E seen :
          Step(rows, draft, seen)
    BY <1>1, <1>2, VerifyStep
  <2> PICK draft \in [Range(rows) -> Drafts] : \E seen : Step(rows, draft, seen)
    BY <2>1
  <2>2. PICK seen : Step(rows, draft, seen)
    OBVIOUS
  <2>3. /\ FrameBest(rows, draft, seen) /\ Kept(topk, topk', rows) /\ Kept(fused, fused', rows)
        /\ native' = native \/ native' = NativeUpdated(native, rows, output)
    BY <2>2 DEF Step
  <2>4. /\ config' = config /\ penalty' = penalty /\ model' = model /\ discards' = discards
        /\ misread' \subseteq Range(rows)
    BY <2>3 DEF FrameBest
  <2>5. /\ rows \in Seq(Requests) /\ Len(rows) \in 1 .. MaxBatch /\ Range(rows) \in SUBSET Requests
    BY BatchTyped
  <2>6. native' \in NativeType
    BY <1>1, <2>3, <2>5, NativeUpdatedTyped
  <2>7. topk' \in PackedType /\ SlotsOwnedIn(topk')
    BY <1>1, <2>3, KeptShape
  <2>8. fused' \in PackedType /\ SlotsOwnedIn(fused')
    BY <1>1, <2>3, KeptShape
  <2>9. /\ output' \in [Requests -> Seq(Tokens)]
        /\ \A r \in Requests : Len(output'[r]) <= MaxOutput
    BY <1>1, <2>3, OutputGrows
  <2>10. TypeOK'
    BY <1>1, <2>4, <2>5, <2>6, <2>7, <2>8, <2>9 DEF TypeOK
  <2>11. SlotsOwned'
    BY <2>7, <2>8 DEF SlotsOwned
  <2> QED
    BY <2>10, <2>11 DEF Shape
<1>3. CASE Discard
  <2>1. /\ config' = config /\ penalty' = penalty /\ model' = model /\ topk' = topk
        /\ fused' = fused /\ native' = native /\ misread' = {}
        /\ discards < MaxDiscards /\ discards' = discards + 1
    BY <1>3 DEF Discard
  <2>2. output' \in [Requests -> Seq(Tokens)] /\ \A r \in Requests : Len(output'[r]) <= MaxOutput
    <3>1. /\ output' \in [Requests -> Seq(Tokens)]
          /\ \A r \in Requests : Len(output'[r]) \in Nat /\ Len(output'[r]) <= Len(output[r])
      BY <1>1, <1>3, DiscardOutput
    <3>2. \A r \in Requests : Len(output[r]) <= MaxOutput /\ Len(output[r]) \in Nat
      BY <1>1, LenProperties DEF TypeOK
    <3> QED
      BY <3>1, <3>2, RepetitionAssumption
  <2>3. discards' \in 0 .. MaxDiscards
    BY <1>1, <2>1
  <2>4. TypeOK'
    BY <1>1, <2>1, <2>2, <2>3 DEF TypeOK
  <2>5. SlotsOwned'
    BY <1>1, <2>1 DEF SlotsOwned
  <2> QED
    BY <2>4, <2>5 DEF Shape
<1>4. CASE UNCHANGED vars
  <2>1. /\ config' = config /\ penalty' = penalty /\ model' = model /\ output' = output
        /\ topk' = topk /\ fused' = fused /\ native' = native /\ misread' = misread
        /\ discards' = discards
    BY <1>4 DEF vars
  <2>2. TypeOK'
    BY <1>1, <2>1 DEF TypeOK
  <2>3. SlotsOwned'
    BY <1>1, <2>1 DEF SlotsOwned
  <2> QED
    BY <2>2, <2>3 DEF Shape
<1> QED
  BY <1>2, <1>3, <1>4 DEF Next

(* The verifier's state keeps its types: every path reduces every row to a   *)
(* token of the vocabulary, whatever history it read, and no update of the   *)
(* packed or native histories leaves its tables.                             *)
THEOREM VerifierTyped == Spec => []TypeOK
<1>1. Shape => TypeOK
  BY DEF Shape
<1> QED
  BY InitShape, NextShape, <1>1, PTL DEF Spec

(* However requests come and go, every slot of a packed history is free or   *)
(* owned by exactly one request, so that a freed slot is never lost or given *)
(* to two.                                                                   *)
THEOREM SlotsHold == Spec => []SlotsOwned
<1>1. Shape => SlotsOwned
  BY DEF Shape
<1> QED
  BY InitShape, NextShape, <1>1, PTL DEF Spec
-----------------------------------------------------------------------------
(* The packed histories are served right.                                    *)

\* The output H that a packed row was built from: a beginning of the output
\* under approximate acceptance, and an exact output of the request, perhaps
\* a longer one, otherwise.
ReachedBy(r, H, out) ==
  IF config.margin >= 0 THEN IsPrefix(H, out) ELSE ExactWord(r, H)

ServedAt(p, outputs) ==
  \A r \in Tracked(p) : \E H \in Seq(Tokens) :
    /\ Len(H) = p.len[r]
    /\ SeenBy(p, r) = Range(Prompt[r]) \cup Range(H)
    /\ ReachedBy(r, H, outputs[r])

AllExact == config.margin < 0 => \A r \in Requests : ExactWord(r, output[r])

\* A row brought up to date holds the request's history: the row is rebuilt,
\* or what it was built from is a beginning of the output.
LEMMA RowServed ==
  ASSUME TypeOK, AllExact, NEW p \in PackedType, ServedAt(p, output), NEW r \in Requests
  PROVE  RowMask(p, r, output[r]) = History(r)
<1> DEFINE out == output[r]
           P == Range(Prompt[r])
<1>1. out \in Seq(Tokens) /\ Len(out) \in Nat /\ p.len[r] \in Nat /\ config.margin \in Int
  BY LenProperties DEF TypeOK, PackedType, ConfigType
<1>2. CASE Rebuilt(p, r, out)
  BY <1>2 DEF RowMask, History
<1>3. CASE ~Rebuilt(p, r, out)
  <2>1. r \in Tracked(p) /\ p.len[r] <= Len(out)
    BY <1>1, <1>3 DEF Rebuilt, Tracked
  <2>2. PICK H \in Seq(Tokens) : /\ Len(H) = p.len[r]
                                 /\ SeenBy(p, r) = P \cup Range(H)
                                 /\ ReachedBy(r, H, out)
    BY <2>1 DEF ServedAt
  <2>3. H = SubSeq(out, 1, Len(H))
    <3>1. CASE config.margin >= 0
      BY <1>1, <2>2, <3>1, PrefixIsBeginning DEF ReachedBy
    <3>2. CASE ~(config.margin >= 0)
      <4>1. ExactWord(r, H) /\ ExactWord(r, out)
        BY <1>1, <2>2, <3>2 DEF ReachedBy, AllExact
      <4> QED
        BY <4>1, <1>1, <2>1, <2>2, Comparable
    <3> QED
      BY <3>1, <3>2
  <2> DEFINE n == Len(H)
             tail == SubSeq(out, n + 1, Len(out))
  <2>4. n \in 0 .. Len(out) /\ n \in Nat
    BY <1>1, <2>1, <2>2
  <2> HIDE DEF out, n
  <2>5. SubSeq(out, 1, n) \o tail = out
    <3>1. 1 \in 1 .. Len(out) + 1 /\ n \in 1 - 1 .. Len(out) /\ Len(out) \in n .. Len(out)
      BY <1>1, <2>4
    <3>2. SubSeq(out, 1, n) \o SubSeq(out, n + 1, Len(out)) = SubSeq(out, 1, Len(out))
      BY <1>1, <3>1, ConcatAdjacentSubSeq
    <3> QED
      BY <1>1, <3>2, SubSeqFull
  <2>6. tail \in Seq(Tokens)
    <3>1. n + 1 \in Int /\ \A i \in n + 1 .. Len(out) : i \in 1 .. Len(out)
      BY <1>1, <2>4
    <3>2. \A i \in n + 1 .. Len(out) : out[i] \in Tokens
      BY <1>1, <3>1, ElementOfSeq
    <3> QED
      BY <1>1, <3>1, <3>2, SubSeqProperties
  <2> HIDE DEF tail
  <2>7. Range(out) = Range(H) \cup Range(tail)
    <3>1. H \o tail = out
      BY <2>3, <2>5 DEF n
    <3>2. Range(H \o tail) = Range(H) \cup Range(tail)
      BY <2>2, <2>6, RangeConcatenation
    <3> QED
      BY <3>1, <3>2
  <2>8. RowMask(p, r, out) = SeenBy(p, r) \cup Range(tail)
    BY <1>3, <2>2 DEF RowMask, SeenBy, tail, n
  <2>9. RowMask(p, r, out) = P \cup Range(out)
    BY <2>2, <2>7, <2>8
  <2> QED
    BY <2>9 DEF History, out
<1> QED
  BY <1>2, <1>3 DEF out

\* What a path reads from a packed history is the request's history.
LEMMA ReadFromServed ==
  ASSUME TypeOK, AllExact, NEW p \in PackedType, SlotsOwnedIn(p), ServedAt(p, output),
         NEW rows, Range(rows) \in SUBSET Requests, HasRoom(p, Range(rows)),
         NEW r \in Range(rows)
  PROVE  ReadFrom(p, rows)[r] = History(r)
<1>1. SeenBy(Updated(p, Range(rows), output), r) = RowMask(p, r, output[r])
  BY UpdatedShape
<1>2. RowMask(p, r, output[r]) = History(r)
  BY RowServed
<1> QED
  BY <1>1, <1>2 DEF ReadFrom

\* A packed history goes on being served, however the outputs then grow.
LEMMA KeptServed ==
  ASSUME TypeOK, AllExact, NEW p \in PackedType, SlotsOwnedIn(p), ServedAt(p, output),
         NEW rows, Range(rows) \in SUBSET Requests, NEW after, Kept(p, after, rows),
         NEW next \in [Requests -> Seq(Tokens)],
         \A r \in Requests : IsPrefix(output[r], next[r])
  PROVE  ServedAt(after, next)
<1>1. output \in [Requests -> Seq(Tokens)] /\ config.margin \in Int
  BY DEF TypeOK, ConfigType
<1>2. CASE after = p
  <2>1. ASSUME NEW r \in Tracked(p)
        PROVE  \E H \in Seq(Tokens) :
                 /\ Len(H) = p.len[r]
                 /\ SeenBy(p, r) = Range(Prompt[r]) \cup Range(H)
                 /\ ReachedBy(r, H, next[r])
    <3>1. PICK H \in Seq(Tokens) : /\ Len(H) = p.len[r]
                                   /\ SeenBy(p, r) = Range(Prompt[r]) \cup Range(H)
                                   /\ ReachedBy(r, H, output[r])
      BY DEF ServedAt
    <3>2. r \in Requests /\ output[r] \in Seq(Tokens) /\ next[r] \in Seq(Tokens)
          /\ IsPrefix(output[r], next[r])
      BY <1>1 DEF Tracked
    <3>3. IsPrefix(H, output[r]) => IsPrefix(H, next[r])
      BY <3>2, PrefixTrans
    <3>4. ReachedBy(r, H, next[r])
      BY <3>1, <3>3 DEF ReachedBy
    <3> QED
      BY <3>1, <3>4
  <2> QED
    BY <1>2, <2>1 DEF ServedAt
<1>3. CASE HasRoom(p, Range(rows)) /\ after = Updated(p, Range(rows), output)
  <2>1. /\ Tracked(after) = Range(rows)
        /\ \A r \in Range(rows) :
             after.len[r] = Len(output[r]) /\ SeenBy(after, r) = RowMask(p, r, output[r])
    BY <1>3, UpdatedShape
  <2>2. ASSUME NEW r \in Tracked(after)
        PROVE  \E H \in Seq(Tokens) :
                 /\ Len(H) = after.len[r]
                 /\ SeenBy(after, r) = Range(Prompt[r]) \cup Range(H)
                 /\ ReachedBy(r, H, next[r])
    <3>1. r \in Requests /\ output[r] \in Seq(Tokens)
      BY <1>1, <2>1
    <3>2. SeenBy(after, r) = Range(Prompt[r]) \cup Range(output[r])
      BY <2>1, <3>1, RowServed DEF History
    <3>3. ReachedBy(r, output[r], next[r])
      BY <1>1, <3>1 DEF ReachedBy, AllExact
    <3> QED
      BY <2>1, <3>1, <3>2, <3>3
  <2> QED
    BY <2>2 DEF ServedAt
<1> QED
  BY <1>2, <1>3 DEF Kept
-----------------------------------------------------------------------------
(* The native history is served right when no request outgrows a row.        *)

\* Every history a request can come to have fits a row of the native history.
HistoriesFit ==
  \A r \in Requests : \A w \in Seq(Tokens) :
    Len(w) <= MaxOutput => Cardinality(Range(Prompt[r]) \cup Range(w)) <= HistoryWidth

NativeServed(n) ==
  /\ \A r \in n.known : n.tokens[r] = Range(Prompt[r]) \cup Range(n.output[r])
  /\ \A i \in 1 .. MaxBatch : n.owner[i] # NoRequest =>
       n.owner[i] \in n.known /\ n.history[i] = n.tokens[n.owner[i]]

\* The host's side of a request is its history.
LEMMA NativeTokensServed ==
  ASSUME TypeOK, NativeServed(native), NEW r \in Requests
  PROVE  NativeTokens(native, r, output[r]) = History(r)
<1> DEFINE out == output[r]
           H == native.output[r]
           n == Len(H)
           tail == SubSeq(out, n + 1, Len(out))
<1>1. out \in Seq(Tokens) /\ Len(out) \in Nat /\ H \in Seq(Tokens)
  BY LenProperties DEF TypeOK, NativeType
<1>2. n \in Nat
  BY <1>1, LenProperties
<1> HIDE DEF out, H
<1>3. CASE NativeRebuilt(native, r, out)
  BY <1>3 DEF NativeTokens, History, out
<1>4. CASE ~NativeRebuilt(native, r, out)
  <2>1. r \in native.known /\ IsPrefix(H, out)
    BY <1>4 DEF NativeRebuilt, H
  <2>2. n <= Len(out) /\ H = SubSeq(out, 1, n)
    BY <1>1, <2>1, PrefixIsBeginning
  <2> HIDE DEF n
  <2>3. SubSeq(out, 1, n) \o tail = out
    <3>1. 1 \in 1 .. Len(out) + 1 /\ n \in 1 - 1 .. Len(out) /\ Len(out) \in n .. Len(out)
      BY <1>1, <1>2, <2>2
    <3>2. SubSeq(out, 1, n) \o SubSeq(out, n + 1, Len(out)) = SubSeq(out, 1, Len(out))
      BY <1>1, <3>1, ConcatAdjacentSubSeq
    <3> QED
      BY <1>1, <3>2, SubSeqFull
  <2>4. tail \in Seq(Tokens)
    <3>1. n + 1 \in Int /\ \A i \in n + 1 .. Len(out) : i \in 1 .. Len(out)
      BY <1>1, <1>2
    <3>2. \A i \in n + 1 .. Len(out) : out[i] \in Tokens
      BY <1>1, <3>1, ElementOfSeq
    <3> QED
      BY <1>1, <3>1, <3>2, SubSeqProperties
  <2>5. NativeTokens(native, r, out) = native.tokens[r] \cup Range(tail)
    BY <1>4 DEF NativeTokens, tail, n, H
  <2> HIDE DEF tail
  <2>6. Range(out) = Range(H) \cup Range(tail)
    <3>1. H \o tail = out
      BY <2>2, <2>3
    <3>2. Range(H \o tail) = Range(H) \cup Range(tail)
      BY <1>1, <2>4, RangeConcatenation
    <3> QED
      BY <3>1, <3>2
  <2>7. native.tokens[r] = Range(Prompt[r]) \cup Range(H)
    BY <2>1 DEF NativeServed, H
  <2> QED
    BY <2>5, <2>6, <2>7 DEF History, out
<1> QED
  BY <1>3, <1>4 DEF out

\* update() succeeds, and every row of the batch has its request's history.
LEMMA NativeUpdatedServed ==
  ASSUME TypeOK, NativeServed(native), HistoriesFit, NEW rows \in Batches
  PROVE  /\ NativeServed(NativeUpdated(native, rows, output))
         /\ \A i \in 1 .. Len(rows) :
              NativeUpdated(native, rows, output).history[i] = History(rows[i])
<1> DEFINE stop    == GivesUpAt(native, rows, output)
           done    == stop > Len(rows)
           reached == {rows[i] : i \in 1 .. IF done THEN Len(rows) ELSE stop}
           grown   == native.known \cup reached
           knownOf == IF done /\ Cardinality(grown) > CacheLimit THEN reached ELSE grown
           tokensOf == [r \in Requests |->
                     IF r \in reached THEN NativeTokens(native, r, output[r])
                     ELSE IF r \in knownOf THEN native.tokens[r] ELSE {}]
           outputOf == [r \in Requests |->
                     IF r \in reached THEN output[r]
                     ELSE IF r \in knownOf THEN native.output[r] ELSE <<>>]
           ownerOf == [i \in 1 .. MaxBatch |->
                     IF i < stop /\ i <= Len(rows) THEN rows[i]
                     ELSE IF done THEN NoRequest ELSE native.owner[i]]
           historyOf == [i \in 1 .. MaxBatch |->
                     IF i < stop /\ i <= Len(rows)
                       THEN RowHistory(native, i, rows[i], output[rows[i]])
                       ELSE native.history[i]]
           after == NativeUpdated(native, rows, output)
<1>1. after = [known |-> knownOf, tokens |-> tokensOf, output |-> outputOf,
               owner |-> ownerOf, history |-> historyOf]
  BY DEF NativeUpdated
<1>2. /\ rows \in Seq(Requests) /\ Len(rows) \in 1 .. MaxBatch /\ DOMAIN rows = 1 .. Len(rows)
      /\ \A i \in 1 .. Len(rows) : rows[i] \in Requests
      /\ Len(rows) \in Nat /\ MaxBatch \in Nat /\ NoRequest \notin Requests
  BY RepetitionAssumption, LenProperties, ElementOfSeq
<1>3. \A r \in Requests : NativeTokens(native, r, output[r]) = History(r)
  BY NativeTokensServed
<1>4. ASSUME NEW r \in Requests PROVE ~(Cardinality(History(r)) > HistoryWidth)
  <2>1. Cardinality(History(r)) <= HistoryWidth
    BY DEF HistoriesFit, History, TypeOK
  <2>2. History(r) \subseteq Tokens
    <3>1. Prompt[r] \in Seq(Tokens) /\ output[r] \in Seq(Tokens)
      BY RepetitionAssumption DEF TypeOK
    <3> QED
      BY <3>1, RangeOfSeq DEF History
  <2>3. Cardinality(History(r)) \in Nat /\ HistoryWidth \in Nat
    BY <2>2, RepetitionAssumption, FS_Subset, FS_CardinalityType
  <2> QED
    BY <2>1, <2>3
<1>5. stop = Len(rows) + 1
  <2>1. \A i \in DOMAIN rows :
          ~(Cardinality(NativeTokens(native, rows[i], output[rows[i]])) > HistoryWidth)
    BY <1>2, <1>3, <1>4
  <2>2. {i \in DOMAIN rows :
           Cardinality(NativeTokens(native, rows[i], output[rows[i]])) > HistoryWidth} = {}
    <3>1. ASSUME NEW i \in DOMAIN rows,
                 Cardinality(NativeTokens(native, rows[i], output[rows[i]])) > HistoryWidth
          PROVE  FALSE
      BY <2>1, <3>1
    <3> QED
      BY <3>1
  <2> QED
    BY <2>2 DEF GivesUpAt
<1>6. done /\ reached = {rows[i] : i \in 1 .. Len(rows)}
  BY <1>2, <1>5
<1>7. reached \subseteq Requests /\ reached \subseteq knownOf
      /\ \A r \in knownOf : r \in reached \/ r \in native.known
  BY <1>2, <1>6
<1>8. native.known \subseteq Requests
  BY DEF TypeOK, NativeType
<1> HIDE DEF reached, knownOf
<1>9. ASSUME NEW r \in knownOf
      PROVE  tokensOf[r] = Range(Prompt[r]) \cup Range(outputOf[r])
  <2>1. r \in Requests
    BY <1>7, <1>8
  <2>2. CASE r \in reached
    BY <2>1, <2>2, <1>3 DEF History
  <2>3. CASE r \notin reached
    BY <2>1, <2>3, <1>7 DEF NativeServed
  <2> QED
    BY <2>2, <2>3
<1>10. ASSUME NEW i \in 1 .. Len(rows)
       PROVE  /\ ownerOf[i] = rows[i] /\ rows[i] \in reached
              /\ historyOf[i] = History(rows[i]) /\ tokensOf[rows[i]] = History(rows[i])
  <2> DEFINE r == rows[i]
             new == NativeTokens(native, r, output[r])
  <2>1. /\ i \in 1 .. MaxBatch /\ i < stop /\ i <= Len(rows) /\ r \in Requests /\ r \in reached
    BY <1>2, <1>5, <1>6
  <2>2. ownerOf[i] = r /\ historyOf[i] = RowHistory(native, i, r, output[r]) /\ tokensOf[r] = new
    BY <2>1
  <2>3. new = History(r)
    BY <2>1, <1>3
  <2>4. RowHistory(native, i, r, output[r]) = new
    <3>1. CASE NativeRebuilt(native, r, output[r]) \/ native.owner[i] # r
      BY <3>1 DEF RowHistory
    <3>2. CASE ~(NativeRebuilt(native, r, output[r]) \/ native.owner[i] # r)
      <4>1. RowHistory(native, i, r, output[r]) = native.history[i] \cup (new \ native.tokens[r])
        BY <3>2 DEF RowHistory
      <4>2. native.history[i] = native.tokens[r]
        <5>1. native.owner[i] = r /\ r # NoRequest
          BY <3>2, <2>1, <1>2
        <5> QED
          BY <5>1, <2>1 DEF NativeServed
      <4>3. native.tokens[r] \subseteq new
        BY <3>2 DEF NativeTokens
      <4> QED
        BY <4>1, <4>2, <4>3
    <3> QED
      BY <3>1, <3>2
  <2> QED
    BY <2>1, <2>2, <2>3, <2>4
<1>11. ASSUME NEW i \in 1 .. MaxBatch, ownerOf[i] # NoRequest
       PROVE  ownerOf[i] \in knownOf /\ historyOf[i] = tokensOf[ownerOf[i]]
  <2>1. i \in 1 .. Len(rows)
    <3>1. i < stop /\ i <= Len(rows)
      BY <1>6, <1>11
    <3> QED
      BY <3>1, <1>2
  <2> QED
    BY <2>1, <1>7, <1>10
<1> HIDE DEF tokensOf, outputOf, ownerOf, historyOf
<1>12. /\ after.known = knownOf /\ after.tokens = tokensOf /\ after.output = outputOf
       /\ after.owner = ownerOf /\ after.history = historyOf
  BY <1>1
<1> HIDE DEF after
<1>13. NativeServed(after)
  BY <1>9, <1>11, <1>12 DEF NativeServed
<1>14. \A i \in 1 .. Len(rows) : after.history[i] = History(rows[i])
  BY <1>10, <1>12
<1> QED
  BY <1>13, <1>14 DEF after

\* What the native path reads is the request's history.
LEMMA ReadNativeServed ==
  ASSUME TypeOK, NativeServed(native), HistoriesFit, NEW rows \in Batches,
         NEW r \in Range(rows)
  PROVE  ReadNative(rows)[r] = History(r)
<1> DEFINE i == CHOOSE i \in DOMAIN rows : rows[i] = r
<1>1. i \in DOMAIN rows /\ rows[i] = r
  BY DEF Range
<1>2. DOMAIN rows = 1 .. Len(rows)
  BY RepetitionAssumption, LenProperties
<1>3. ReadNative(rows)[r] = NativeUpdated(native, rows, output).history[i]
  BY DEF ReadNative
<1> HIDE DEF i
<1> QED
  BY <1>1, <1>2, <1>3, NativeUpdatedServed
-----------------------------------------------------------------------------
(* The histories are served right and the outputs are exact.                 *)

\* The native path is off, or its rows hold every history of the run.
NativeSafe == config.native => HistoriesFit

Right ==
  /\ NativeSafe /\ (config.native => NativeServed(native))
  /\ ServedAt(topk, output) /\ ServedAt(fused, output)
  /\ AllExact /\ HistoryServed

IInv == Shape /\ Right

\* Whatever a frame read was the request's history.
LEMMA SourcesServed ==
  ASSUME IInv, NEW rows \in Batches, NEW seen \in Sources(rows), NEW r \in Range(rows)
  PROVE  seen[r] = History(r)
<1>1. /\ TypeOK /\ AllExact /\ topk \in PackedType /\ fused \in PackedType
      /\ SlotsOwnedIn(topk) /\ SlotsOwnedIn(fused)
      /\ ServedAt(topk, output) /\ ServedAt(fused, output)
      /\ config.native => HistoriesFit /\ NativeServed(native)
  BY DEF IInv, Shape, Right, TypeOK, SlotsOwned, NativeSafe
<1>2. Range(rows) \in SUBSET Requests
  BY RepetitionAssumption, RangeOfSeq
<1>3. HasRoom(topk, Range(rows)) => ReadFrom(topk, rows)[r] = History(r)
  BY <1>1, <1>2, ReadFromServed
<1>4. HasRoom(fused, Range(rows)) => ReadFrom(fused, rows)[r] = History(r)
  BY <1>1, <1>2, ReadFromServed
<1>5. config.native => ReadNative(rows)[r] = History(r)
  BY <1>1, ReadNativeServed
<1> QED
  BY <1>3, <1>4, <1>5 DEF Sources

\* Each token that a frame adds may follow the ones before it.
LEMMA FrameFollows ==
  ASSUME IInv, NEW rows \in Batches, NEW draft \in [Range(rows) -> Drafts], NEW seen,
         Step(rows, draft, seen),
         NEW r \in Requests, NEW k \in Nat, k > Len(output[r]), k <= Len(output'[r])
  PROVE  MayFollow(r, output'[r], k)
<1>1. TypeOK /\ FrameBest(rows, draft, seen) /\ seen \in Sources(rows)
  BY DEF IInv, Shape, Step
<1>2. CASE r \notin Range(rows)
  <2>1. output'[r] = output[r]
    BY <1>1, <1>2 DEF FrameBest
  <2>2. Len(output[r]) \in Nat
    BY <1>1, LenProperties DEF TypeOK
  <2> QED
    BY <2>1, <2>2
<1>3. CASE r \in Range(rows)
  <2> DEFINE d == draft[r]
             token == BestTokens(r, History(r), d)
  <2>1. seen[r] = History(r)
    BY <1>1, <1>3, SourcesServed
  <2>2. output'[r] = Grown(r, Gains(r, History(r), d, token))
    BY <1>1, <1>3, <2>1 DEF FrameBest
  <2>3. d \in Seq(Tokens)
    BY <1>3, BatchTyped
  <2> HIDE DEF d
  <2>4. /\ token \in [1 .. Len(d) + 1 -> Tokens]
        /\ \A i \in 1 .. Len(d) + 1 :
             token[i] = Decode!Best(RowValues(r, History(r), d, i), Tokens)
    BY <1>1, <2>3, BestTokensTyped DEF BestTokens
  <2> HIDE DEF token
  <2>5. k <= Len(Grown(r, Gains(r, History(r), d, token)))
    BY <2>2
  <2>6. MayFollow(r, Grown(r, Gains(r, History(r), d, token)), k)
    BY <1>1, <2>3, <2>4, <2>5, GrownFollows
  <2> QED
    BY <2>2, <2>6
<1> QED
  BY <1>2, <1>3

\* Tokens that may follow make an exact output of one, when nothing but the
\* best token may.
LEMMA FollowsExact ==
  ASSUME config.margin < 0, config \in ConfigType, NEW r,
         NEW w \in Seq(Tokens), NEW v \in Seq(Tokens),
         ExactWord(r, w), IsPrefix(w, v),
         \A k \in Nat : k > Len(w) /\ k <= Len(v) => MayFollow(r, v, k)
  PROVE  ExactWord(r, v)
<1>1. /\ Len(w) \in Nat /\ Len(v) \in Nat /\ Len(w) <= Len(v) /\ w = SubSeq(v, 1, Len(w))
      /\ config.margin \in Int
  BY LenProperties, PrefixIsBeginning DEF ConfigType
<1> DEFINE n == Len(w)
<1>2. n \in 0 .. Len(v)
  BY <1>1
<1>3. ASSUME NEW k \in 1 .. Len(v) PROVE v[k] = NextToken(r, SubSeq(v, 1, k - 1))
  <2>1. CASE k > n
    <3>1. MayFollow(r, v, k)
      BY <2>1
    <3> QED
      BY <3>1, <1>1 DEF MayFollow
  <2>2. CASE ~(k > n)
    <3>1. k \in 1 .. n /\ k - 1 \in 0 .. n
      BY <1>1, <2>2
    <3>2. SubSeq(v, 1, n)[k] = v[k] /\ SubSeq(SubSeq(v, 1, n), 1, k - 1) = SubSeq(v, 1, k - 1)
      BY <1>2, <3>1, Beginning, BeginningOfBeginning
    <3>3. w[k] = NextToken(r, SubSeq(w, 1, k - 1))
      BY <3>1 DEF ExactWord
    <3> QED
      BY <1>1, <3>2, <3>3
  <2> QED
    BY <2>1, <2>2
<1> QED
  BY <1>3 DEF ExactWord

\* What is exact or served stays so when the run's configuration does.
LEMMA Rigid ==
  ASSUME config' = config, penalty' = penalty, model' = model
  PROVE  /\ ServedAt(topk', output') => ServedAt(topk, output)'
         /\ ServedAt(fused', output') => ServedAt(fused, output)'
         /\ (config.margin < 0 => \A r \in Requests : ExactWord(r, output'[r])) => AllExact'
<1>1. ServedAt(topk', output') => ServedAt(topk, output)'
  BY DEF ServedAt, ReachedBy, ExactWord, NextToken, TextValues
<1>2. ServedAt(fused', output') => ServedAt(fused, output)'
  BY DEF ServedAt, ReachedBy, ExactWord, NextToken, TextValues
<1>3. (config.margin < 0 => \A r \in Requests : ExactWord(r, output'[r])) => AllExact'
  BY DEF AllExact, ExactWord, NextToken, TextValues
<1> QED
  BY <1>1, <1>2, <1>3

\* The invariant holds at first.
LEMMA InitRight == Init /\ NativeSafe => IInv
<1> SUFFICES ASSUME Init, NativeSafe PROVE IInv
  OBVIOUS
<1>1. Shape
  BY InitShape
<1>2. /\ topk = Unused /\ fused = Unused /\ native = NativeEmpty /\ misread = {}
      /\ output = [r \in Requests |-> <<>>]
  BY DEF Init
<1>3. ServedAt(topk, output) /\ ServedAt(fused, output)
  <2>1. Tracked(Unused) = {}
    BY DEF Tracked, Unused
  <2> QED
    BY <1>2, <2>1 DEF ServedAt
<1>4. NativeServed(native)
  BY <1>2 DEF NativeServed, NativeEmpty
<1>5. AllExact
  <2>1. ASSUME NEW r \in Requests PROVE ExactWord(r, output[r])
    <3>1. output[r] = <<>> /\ Len(<<>>) = 0
      BY <1>2, EmptySeq
    <3>2. 1 .. 0 = {}
      OBVIOUS
    <3> QED
      BY <3>1, <3>2 DEF ExactWord
  <2> QED
    BY <2>1 DEF AllExact
<1> QED
  BY <1>1, <1>2, <1>3, <1>4, <1>5 DEF IInv, Right, HistoryServed

\* Every step keeps the invariant.
LEMMA NextRight == IInv /\ [Next]_vars => IInv'
<1> SUFFICES ASSUME IInv, [Next]_vars PROVE IInv'
  OBVIOUS
<1>1. Shape'
  BY NextShape DEF IInv
<1>2. /\ TypeOK /\ AllExact /\ topk \in PackedType /\ fused \in PackedType
      /\ SlotsOwnedIn(topk) /\ SlotsOwnedIn(fused)
      /\ ServedAt(topk, output) /\ ServedAt(fused, output) /\ misread = {}
      /\ config.native => HistoriesFit /\ NativeServed(native)
      /\ output \in [Requests -> Seq(Tokens)] /\ config \in ConfigType
  BY DEF IInv, Shape, Right, TypeOK, SlotsOwned, NativeSafe, HistoryServed
<1>3. CASE Verify
  <2>1. PICK rows \in Batches : \E draft \in [Range(rows) -> Drafts] : \E seen :
          Step(rows, draft, seen)
    BY <1>2, <1>3, VerifyStep
  <2> PICK draft \in [Range(rows) -> Drafts] : \E seen : Step(rows, draft, seen)
    BY <2>1
  <2>2. PICK seen : Step(rows, draft, seen)
    OBVIOUS
  <2>3. /\ FrameBest(rows, draft, seen) /\ seen \in Sources(rows)
        /\ Kept(topk, topk', rows) /\ Kept(fused, fused', rows)
        /\ native' = native \/ (config.native /\ native' = NativeUpdated(native, rows, output))
    BY <2>2 DEF Step
  <2>4. /\ config' = config /\ penalty' = penalty /\ model' = model
        /\ misread' = {r \in Range(rows) : seen[r] # History(r)}
    BY <2>3 DEF FrameBest
  <2>5. misread' = {}
    BY <2>3, <2>4, SourcesServed
  <2>6. /\ output' \in [Requests -> Seq(Tokens)]
        /\ \A r \in Requests : IsPrefix(output[r], output'[r])
    BY <1>2, <2>3, OutputGrows
  <2>7. Range(rows) \in SUBSET Requests
    BY BatchTyped
  <2>8. ServedAt(topk', output')
    BY <1>2, <2>3, <2>6, <2>7, KeptServed
  <2>9. ServedAt(fused', output')
    BY <1>2, <2>3, <2>6, <2>7, KeptServed
  <2>10. config.native => NativeServed(native')
    BY <1>2, <2>3, NativeUpdatedServed
  <2>11. ASSUME config.margin < 0, NEW r \in Requests PROVE ExactWord(r, output'[r])
    <3>1. \A k \in Nat : k > Len(output[r]) /\ k <= Len(output'[r]) => MayFollow(r, output'[r], k)
      BY <2>2, FrameFollows
    <3>2. ExactWord(r, output[r])
      BY <1>2, <2>11 DEF AllExact
    <3> QED
      BY <1>2, <2>6, <2>11, <3>1, <3>2, FollowsExact
  <2>12. AllExact' /\ ServedAt(topk, output)' /\ ServedAt(fused, output)'
    BY <2>4, <2>8, <2>9, <2>11, Rigid
  <2>13. NativeSafe' /\ (config.native => NativeServed(native))'
    BY <1>2, <2>4, <2>10 DEF NativeSafe, NativeServed, HistoriesFit
  <2> QED
    BY <1>1, <2>5, <2>12, <2>13 DEF IInv, Right, HistoryServed
<1>4. CASE Discard
  <2>1. /\ config' = config /\ penalty' = penalty /\ model' = model /\ topk' = topk
        /\ fused' = fused /\ native' = native /\ misread' = {} /\ config.margin < 0
        /\ config.margin \in Int
    BY <1>2, <1>4 DEF Discard, ConfigType
  <2>2. \A r \in Requests : Len(output'[r]) \in 0 .. Len(output[r])
          /\ output'[r] = SubSeq(output[r], 1, Len(output'[r]))
    <3>1. \A r \in Requests : Len(output[r]) \in Nat
      BY <1>2, LenProperties
    <3> QED
      BY <3>1, <1>2, <1>4, DiscardOutput
  <2>3. ASSUME NEW r \in Requests PROVE ExactWord(r, output'[r])
    <3>1. ExactWord(r, output[r]) /\ output[r] \in Seq(Tokens)
      BY <1>2, <2>1 DEF AllExact
    <3> DEFINE n == Len(output'[r])
    <3>2. n \in 0 .. Len(output[r]) /\ output'[r] = SubSeq(output[r], 1, n)
      BY <2>2
    <3> HIDE DEF n
    <3>3. ExactWord(r, SubSeq(output[r], 1, n))
      BY <3>1, <3>2, ExactBeginning
    <3> QED
      BY <3>2, <3>3
  <2>4. \A r, H : ReachedBy(r, H, output'[r]) <=> ReachedBy(r, H, output[r])
    BY <2>1 DEF ReachedBy
  <2>5. ServedAt(topk', output') /\ ServedAt(fused', output')
    BY <1>2, <2>1, <2>4 DEF ServedAt
  <2>6. AllExact' /\ ServedAt(topk, output)' /\ ServedAt(fused, output)'
    BY <2>1, <2>3, <2>5, Rigid
  <2>7. NativeSafe' /\ (config.native => NativeServed(native))'
    BY <1>2, <2>1 DEF NativeSafe, NativeServed, HistoriesFit
  <2> QED
    BY <1>1, <2>1, <2>6, <2>7 DEF IInv, Right, HistoryServed
<1>5. CASE UNCHANGED vars
  <2>1. /\ config' = config /\ penalty' = penalty /\ model' = model /\ output' = output
        /\ topk' = topk /\ fused' = fused /\ native' = native /\ misread' = misread
    BY <1>5 DEF vars
  <2>2. ServedAt(topk', output') /\ ServedAt(fused', output')
    BY <1>2, <2>1
  <2>3. config.margin < 0 => \A r \in Requests : ExactWord(r, output'[r])
    BY <1>2, <2>1 DEF AllExact
  <2>4. AllExact' /\ ServedAt(topk, output)' /\ ServedAt(fused, output)'
    BY <2>1, <2>2, <2>3, Rigid
  <2>5. NativeSafe' /\ (config.native => NativeServed(native))'
    BY <1>2, <2>1 DEF NativeSafe, NativeServed, HistoriesFit
  <2> QED
    BY <1>1, <1>2, <2>1, <2>4, <2>5 DEF IInv, Right, HistoryServed
<1> QED
  BY <1>3, <1>4, <1>5 DEF Next

(* Every frame reads exactly the tokens of its requests' prompts and outputs: *)
(* with the native path off, or with native rows that hold every history of   *)
(* the run.                                                                   *)
THEOREM HistoryHolds == Spec /\ NativeSafe => []HistoryServed
<1>1. IInv => HistoryServed
  BY DEF IInv, Right
<1> QED
  BY InitRight, NextRight, <1>1, PTL DEF Spec
-----------------------------------------------------------------------------
(* The frames implement plain greedy decoding.                               *)

\* A prefix stays one behind the same prompt.
LEMMA PrefixBehind ==
  ASSUME NEW S, NEW p \in Seq(S), NEW w \in Seq(S), NEW v \in Seq(S), IsPrefix(w, v)
  PROVE  IsPrefix(p \o w, p \o v) /\ IsPrefix(p, p \o v)
<1>1. /\ Len(w) \in Nat /\ Len(v) \in Nat /\ Len(p) \in Nat
      /\ Len(w) <= Len(v) /\ w = SubSeq(v, 1, Len(w))
  BY LenProperties, PrefixIsBeginning
<1>2. /\ p \o w \in Seq(S) /\ Len(p \o w) = Len(p) + Len(w)
      /\ p \o v \in Seq(S) /\ Len(p \o v) = Len(p) + Len(v)
  BY ConcatProperties
<1>3. Len(w) \in 0 .. Len(v)
  BY <1>1
<1>4. SubSeq(p \o v, 1, Len(p) + Len(w)) = p \o SubSeq(v, 1, Len(w))
      /\ SubSeq(p \o v, 1, Len(p)) = p
  BY <1>3, BeginningOfConcat
<1>5. SubSeq(p \o v, 1, Len(p \o w)) = p \o w /\ Len(p \o w) <= Len(p \o v)
      /\ Len(p) <= Len(p \o v)
  BY <1>1, <1>2, <1>4
<1> QED
  BY <1>2, <1>4, <1>5, PrefixIsBeginning

\* Both specifications use the same operators on sequences.
LEMMA SameWords ==
  /\ \A s : Decode!Last(s) = Last(s)
  /\ \A s : Decode!Range(s) = Range(s)
  /\ \A s, t : Decode!IsPrefix(s, t) <=> IsPrefix(s, t)
BY DEF Decode!Last, Last, Decode!Range, Range, Decode!IsPrefix, IsPrefix

\* What may follow in the output is allowed in the text.
LEMMA FollowsAllowed ==
  ASSUME TypeOK, NEW r \in Requests, NEW w \in Seq(Tokens), NEW k \in 1 .. Len(w),
         MayFollow(r, w, k)
  PROVE  Decode!Allowed(r, Prompt[r] \o w, Len(Prompt[r]) + k)
<1> DEFINE P == Prompt[r]
           word == P \o w
           n == Len(P) + k
           before == SubSeq(w, 1, k - 1)
           values == TextValues(r, before)
           best == NextToken(r, before)
<1>1. P \in Seq(Tokens) /\ Len(P) \in Nat /\ Len(w) \in Nat /\ config.after \in Nat
  BY RepetitionAssumption, LenProperties DEF TypeOK, ConfigType
<1> HIDE DEF P
<1>2. k - 1 \in 0 .. Len(w) /\ n - 1 = Len(P) + (k - 1) /\ n \in 1 .. Len(P) + Len(w)
      /\ ~(n <= Len(P)) /\ n - Len(P) = k
  BY <1>1
<1>3. SubSeq(word, 1, n - 1) = P \o before
  <2>1. SubSeq(P \o w, 1, Len(P) + (k - 1)) = P \o SubSeq(w, 1, k - 1)
    BY <1>1, <1>2, BeginningOfConcat
  <2> QED
    BY <2>1, <1>2
<1>4. word[n] = w[k]
  <2>1. word[n] = IF n <= Len(P) THEN P[n] ELSE w[n - Len(P)]
    BY <1>1, <1>2, ConcatProperties
  <2> QED
    BY <2>1, <1>2
<1>5. Decode!Values(penalty[r], model[Decode!Last(P \o before)],
                     Decode!Range(P \o before)) = values
  <2> DEFINE t == P \o before
  <2>1. values = Decode!Values(penalty[r], model[Last(t)], Range(t))
    BY DEF TextValues, P
  <2> HIDE DEF t, values
  <2>2. Decode!Last(t) = Last(t) /\ Decode!Range(t) = Range(t)
    BY SameWords
  <2>3. Decode!Values(penalty[r], model[Decode!Last(t)], Decode!Range(t)) = values
    BY <2>1, <2>2
  <2> QED
    BY <2>3 DEF t
<1>6. Decode!Best(values, Tokens) = best
  BY DEF NextToken
<1> HIDE DEF word, n, before, values, best
<1>7. ASSUME w[k] = best PROVE Decode!Allowed(r, word, n)
  BY <1>3, <1>4, <1>5, <1>6, <1>7 DEF Decode!Allowed
<1>8. ASSUME w[k] # best PROVE Decode!Allowed(r, word, n)
  <2>1. /\ config.margin >= 0 /\ k > config.after
        /\ values[best] - values[w[k]] <= config.margin * penalty[r].num * penalty[r].den
        /\ {w[k], best} \cap config.protected = {}
    BY <1>8 DEF MayFollow, values, best, before
  <2>2. n > Len(P) + config.after
    BY <1>1, <2>1 DEF n
  <2>3. Decode!Tolerated(penalty[r], values, best, w[k])
    BY <2>1 DEF Decode!Tolerated
  <2> QED
    BY <1>3, <1>4, <1>5, <1>6, <2>1, <2>2, <2>3 DEF Decode!Allowed, P
<1>9. Decode!Allowed(r, word, n)
  BY <1>7, <1>8
<1> QED
  BY <1>9 DEF word, n, P

\* A run starts with the prompts as texts.
LEMMA InitDecodes == Init => Decode!Init
<1> SUFFICES ASSUME Init PROVE Decode!Init
  OBVIOUS
<1>1. \A r \in Requests : output[r] = <<>> /\ Prompt[r] \in Seq(Tokens)
  BY RepetitionAssumption DEF Init
<1>2. \A r \in Requests : Prompt[r] \o output[r] = Prompt[r]
  BY <1>1, ConcatEmptySeq
<1>3. [r \in Requests |-> Prompt[r] \o output[r]] = [r \in Requests |-> Prompt[r]]
  BY <1>2
<1>4. Prompt = [r \in Requests |-> Prompt[r]]
  BY RepetitionAssumption
<1> QED
  BY <1>3, <1>4 DEF Decode!Init

\* Every step extends texts as greedy decoding would, or takes their end back.
LEMMA NextDecodes == IInv /\ [Next]_vars => [Decode!Next]_(Decode!vars)
<1> SUFFICES ASSUME IInv, [Next]_vars PROVE [Decode!Next]_(Decode!vars)
  OBVIOUS
<1>1. /\ TypeOK /\ output \in [Requests -> Seq(Tokens)] /\ Prompt \in [Requests -> Seq(Tokens)]
      /\ Shape'
  BY RepetitionAssumption, NextShape DEF IInv, Shape, TypeOK
<1>2. output' \in [Requests -> Seq(Tokens)]
  BY <1>1 DEF Shape, TypeOK
<1> DEFINE text == [r \in Requests |-> Prompt[r] \o output[r]]
           text1 == [r \in Requests |-> Prompt[r] \o output'[r]]
<1>3. CASE Verify
  <2>1. PICK rows \in Batches : \E draft \in [Range(rows) -> Drafts] : \E seen :
          Step(rows, draft, seen)
    BY <1>1, <1>3, VerifyStep
  <2> PICK draft \in [Range(rows) -> Drafts] : \E seen : Step(rows, draft, seen)
    BY <2>1
  <2>2. PICK seen : Step(rows, draft, seen)
    OBVIOUS
  <2>3. FrameBest(rows, draft, seen)
    BY <2>2 DEF Step
  <2>4. config' = config /\ penalty' = penalty /\ model' = model
    BY <2>3 DEF FrameBest
  <2>5. ASSUME NEW r \in Requests PROVE Decode!Extended(r, Prompt[r] \o output'[r])
    <3> DEFINE p == Prompt[r]
               w == output[r]
               v == output'[r]
    <3>1. IsPrefix(w, v)
      BY <1>1, <2>3, OutputGrows
    <3>2. p \in Seq(Tokens) /\ w \in Seq(Tokens) /\ v \in Seq(Tokens)
          /\ Len(p) \in Nat /\ Len(w) \in Nat /\ Len(v) \in Nat
      BY <1>1, <1>2, LenProperties
    <3>3. \A k \in Nat : k > Len(w) /\ k <= Len(v) => MayFollow(r, v, k)
      BY <2>2, FrameFollows
    <3> HIDE DEF p, w, v
    <3>4. IsPrefix(p \o w, p \o v) /\ Len(p \o w) = Len(p) + Len(w)
          /\ Len(p \o v) = Len(p) + Len(v)
      BY <3>1, <3>2, PrefixBehind, ConcatProperties
    <3>5. ASSUME NEW n \in Len(p \o w) + 1 .. Len(p \o v)
          PROVE  Decode!Allowed(r, p \o v, n)
      <4> DEFINE k == n - Len(p)
      <4>1. k \in Nat /\ k > Len(w) /\ k <= Len(v) /\ k \in 1 .. Len(v) /\ n = Len(p) + k
        BY <3>2, <3>4
      <4> HIDE DEF k
      <4>2. MayFollow(r, v, k)
        BY <3>3, <4>1
      <4>3. Decode!Allowed(r, p \o v, Len(p) + k)
        BY <1>1, <3>2, <4>1, <4>2, FollowsAllowed DEF p
      <4> QED
        BY <4>1, <4>3
    <3>6. text[r] = p \o w
      BY DEF p, w
    <3>7. Decode!Extended(r, p \o v)
      BY <3>4, <3>5, <3>6, SameWords DEF Decode!Extended
    <3> QED
      BY <3>7 DEF p, v
  <2>6. \A r \in Requests : Decode!Extended(r, text1[r])
    BY <2>5
  <2>7. Decode!Next
    BY <2>4, <2>6 DEF Decode!Next
  <2> QED
    BY <2>7
<1>4. CASE Discard
  <2>1. config' = config /\ penalty' = penalty /\ model' = model
    BY <1>4 DEF Discard
  <2>2. ASSUME NEW r \in Requests PROVE Decode!Shortened(r, Prompt[r] \o output'[r])
    <3> DEFINE p == Prompt[r]
               w == output[r]
               v == output'[r]
    <3>1. Len(v) \in Nat /\ Len(v) <= Len(w) /\ v = SubSeq(w, 1, Len(v))
      BY <1>1, <1>4, DiscardOutput
    <3>2. p \in Seq(Tokens) /\ w \in Seq(Tokens) /\ v \in Seq(Tokens)
      BY <1>1, <1>2
    <3> HIDE DEF p, w, v
    <3>3. IsPrefix(v, w)
      BY <3>1, <3>2, PrefixIsBeginning
    <3>4. IsPrefix(v, v)
      BY <3>1, <3>2 DEF IsPrefix
    <3>5. IsPrefix(p \o v, p \o w)
      BY <3>2, <3>3, PrefixBehind
    <3>6. IsPrefix(p, p \o v)
      BY <3>2, <3>4, PrefixBehind
    <3>7. text[r] = p \o w
      BY DEF p, w
    <3>8. Decode!Shortened(r, p \o v)
      BY <3>5, <3>6, <3>7, SameWords DEF Decode!Shortened, p
    <3> QED
      BY <3>8 DEF p, v
  <2>3. Decode!Next
    BY <2>1, <2>2 DEF Decode!Next
  <2> QED
    BY <2>3
<1>5. CASE UNCHANGED vars
  BY <1>5 DEF vars, Decode!vars
<1> QED
  BY <1>3, <1>4, <1>5 DEF Next

(* Under the same condition the frames emit what plain greedy decoding with   *)
(* repetition penalties would, or what approximate acceptance allows,         *)
(* whatever is drafted, batched, discarded and switched on, for any target    *)
(* model, vocabulary and penalties.                                           *)
THEOREM VerifierDecodes == Spec /\ NativeSafe => ImplementsDecode
<1>1. ImplementsDecode <=> Decode!Init /\ [][Decode!Next]_(Decode!vars)
  BY DEF ImplementsDecode, Decode!Spec
<1> QED
  BY InitRight, NextRight, InitDecodes, NextDecodes, <1>1, PTL DEF Spec
=============================================================================
