---------------------------- MODULE CardFormProofs ----------------------------
(***************************************************************************)
(* Theorems about CardForm, for any digits, lengths of card numbers and     *)
(* calendar: what the fields show, what the customer can mistype, and what  *)
(* the two sides make of a card.                                            *)
(***************************************************************************)
EXTENDS CardForm, SequenceTheorems, FiniteSetTheorems, WellFoundedInduction, TLAPS

--------------------------------------------------------------------------------
(* Folds over sequences.  FoldLeft is a recursive function on the sets of     *)
(* indices of a sequence.  That there is one, and that it goes through the    *)
(* sequence element by element, is shown once for the folds of a function     *)
(* op, and used for each fold of CardForm with what it does as op.            *)

\* A set that has 0, and with each number the next, has every number.
LEMMA NatSetInduction ==
  ASSUME NEW G, 0 \in G, \A n \in Nat : n \in G => n + 1 \in G
  PROVE  \A n \in Nat : n \in G
<1> DEFINE Bad == Nat \ G
<1> SUFFICES ASSUME Bad # {} PROVE FALSE
  OBVIOUS
<1>1. PICK n \in Bad : \A m \in Bad : <<m, n>> \notin OpToRel(<, Nat)
  <2> HIDE DEF Bad
  <2>1. Bad \subseteq Nat
    BY DEF Bad
  <2> QED
    BY <2>1, NatLessThanWellFounded, WFMin
<1>2. \A m \in Bad : ~ (m < n)
  BY <1>1 DEF OpToRel
<1>3. n \in Nat /\ n # 0 /\ n \notin G
  BY <1>1
<1>4. n - 1 \in Nat /\ n - 1 < n /\ (n - 1) + 1 = n
  BY <1>3
<1> QED
  BY <1>2, <1>3, <1>4

\* The greatest of the first numbers,
LEMMA MaxOfFirst ==
  ASSUME NEW n \in Nat \ {0}, NEW S \in SUBSET (1..n), n \in S
  PROVE  Max(S) = n
<1>1. \A x \in S : x \in 1..n
  OBVIOUS
<1>2. \A x \in S : (\A y \in S : x >= y) => x = n
  BY <1>1
<1>3. \A y \in S : n >= y
  BY <1>1
<1> QED
  BY <1>2, <1>3 DEF Max

\* and the first numbers without it.
LEMMA FirstButLast == \A n \in Nat \ {0} : (1..n) \ {n} = 1..(n - 1)
  OBVIOUS

\* f folds op over the elements of s with indices in each of the sets in dom.
Folds(f, dom, op, base, s) ==
  f = [S \in dom |-> IF S = {} THEN base ELSE op[<<f[S \ {Max(S)}], s[Max(S)]>>]]

\* There is such a function for the indices up to any number: a set with the next
\* index is folded like the set without it, and that index last.
LEMMA FoldsExist ==
  ASSUME NEW X, NEW Y, NEW base \in X, NEW op \in [X \X Y -> X], NEW s \in Seq(Y)
  PROVE  \E f \in [SUBSET DOMAIN s -> X] :
           /\ Folds(f, SUBSET DOMAIN s, op, base, s)
           /\ \A S \in SUBSET DOMAIN s : S # {} => Max(S) \in S
<1> DEFINE Good(n) ==
             \E f \in [SUBSET (1..n) -> X] :
               /\ Folds(f, SUBSET (1..n), op, base, s)
               /\ \A S \in SUBSET (1..n) : S # {} => Max(S) \in S
           G == {n \in Nat : n <= Len(s) => Good(n)}
<1>1. 0 \in G
  <2> DEFINE f == [S \in SUBSET (1..0) |-> base]
  <2>1. 1..0 = {}
    OBVIOUS
  <2>2. \A S \in SUBSET (1..0) : S = {}
    BY <2>1
  <2>3. f \in [SUBSET (1..0) -> X] /\ Folds(f, SUBSET (1..0), op, base, s)
    BY <2>2 DEF Folds
  <2> QED
    BY <2>2, <2>3
<1>2. ASSUME NEW n \in Nat, n + 1 <= Len(s), Good(n) PROVE Good(n + 1)
  <2>1. PICK f \in [SUBSET (1..n) -> X] :
          /\ Folds(f, SUBSET (1..n), op, base, s)
          /\ \A S \in SUBSET (1..n) : S # {} => Max(S) \in S
    BY <1>2
  <2> DEFINE g == [S \in SUBSET (1..(n + 1)) |->
                     IF n + 1 \in S THEN op[<<f[S \ {n + 1}], s[n + 1]>>] ELSE f[S]]
  <2>2. \A S \in SUBSET (1..(n + 1)) : n + 1 \in S =>
          S \ {n + 1} \in SUBSET (1..n) /\ Max(S) = n + 1
    BY MaxOfFirst
  <2>3. \A S \in SUBSET (1..(n + 1)) : n + 1 \notin S => S \in SUBSET (1..n)
    OBVIOUS
  <2>4. s[n + 1] \in Y
    BY <1>2
  <2>5. g \in [SUBSET (1..(n + 1)) -> X]
    BY <2>2, <2>3, <2>4
  <2>6. \A S \in SUBSET (1..(n + 1)) : S # {} => Max(S) \in S
    BY <2>1, <2>2, <2>3
  <2>7. ASSUME NEW S \in SUBSET (1..(n + 1))
        PROVE  g[S] = IF S = {} THEN base ELSE op[<<g[S \ {Max(S)}], s[Max(S)]>>]
    <3>1. CASE n + 1 \in S
      <4>1. n + 1 \notin S \ {n + 1} /\ S \ {n + 1} \in SUBSET (1..(n + 1))
        OBVIOUS
      <4>2. g[S \ {n + 1}] = f[S \ {n + 1}]
        BY <4>1
      <4> QED
        BY <2>2, <3>1, <4>2
    <3>2. CASE n + 1 \notin S
      <4>1. S \in SUBSET (1..n) /\ g[S] = f[S]
        BY <2>3, <3>2
      <4>2. f[S] = IF S = {} THEN base ELSE op[<<f[S \ {Max(S)}], s[Max(S)]>>]
        BY <2>1, <4>1 DEF Folds
      <4>3. n + 1 \notin S \ {Max(S)} /\ S \ {Max(S)} \in SUBSET (1..(n + 1))
        BY <3>2
      <4>4. g[S \ {Max(S)}] = f[S \ {Max(S)}]
        BY <4>3
      <4> QED
        BY <4>1, <4>2, <4>4
    <3> QED
      BY <3>1, <3>2
  <2>8. Folds(g, SUBSET (1..(n + 1)), op, base, s)
    <3>1. g = [S \in SUBSET (1..(n + 1)) |-> g[S]]
      OBVIOUS
    <3> HIDE DEF g
    <3> QED
      BY <2>7, <3>1 DEF Folds
  <2> HIDE DEF g
  <2> QED
    BY <2>5, <2>6, <2>8
<1>3. Len(s) \in Nat /\ DOMAIN s = 1..Len(s)
  OBVIOUS
<1>4. Good(Len(s))
  <2> HIDE DEF Good
  <2>1. \A n \in Nat : n \in G => n + 1 \in G
    BY <1>2, <1>3
  <2>2. \A n \in Nat : n \in G
    <3> HIDE DEF G
    <3> QED
      BY <1>1, <2>1, NatSetInduction
  <2> QED
    BY <1>3, <2>2
<1> QED
  BY <1>3, <1>4

\* p has what is folded of the first elements of s, for every number of them.
Through(p, X, op, base, s) ==
  /\ p \in [0..Len(s) -> X] /\ p[0] = base
  /\ \A i \in 1..Len(s) : p[i] = op[<<p[i - 1], s[i]>>]

\* f is folded like op, wherever that gives an element of X.
FoldsLike(f, X, op, s) ==
  \A S \in SUBSET DOMAIN s :
    S # {} /\ Max(S) \in S /\ f[S \ {Max(S)}] \in X =>
      f[S] = op[<<f[S \ {Max(S)}], s[Max(S)]>>]

\* Such a function goes through s.
LEMMA FoldsThrough ==
  ASSUME NEW X, NEW Y, NEW base \in X, NEW op \in [X \X Y -> X], NEW s \in Seq(Y),
         NEW g, g[{}] = base, FoldsLike(g, X, op, s),
         NEW p, p = [i \in 0..Len(s) |-> g[1..i]]
  PROVE  Through(p, X, op, base, s)
<1> DEFINE G == {i \in Nat : i <= Len(s) => p[i] \in X}
<1>0. 1..0 = {} /\ Len(s) \in Nat /\ DOMAIN s = 1..Len(s)
  OBVIOUS
<1>1. ASSUME NEW i \in 1..Len(s), p[i - 1] \in X PROVE p[i] = op[<<p[i - 1], s[i]>>]
  <2>1. 1..i \in SUBSET (1..Len(s)) /\ i \in 1..i /\ i \in Nat \ {0} /\ i - 1 \in 0..Len(s)
    BY <1>0
  <2>2. Max(1..i) = i /\ (1..i) \ {i} = 1..(i - 1)
    BY <2>1, MaxOfFirst, FirstButLast
  <2>3. p[i - 1] = g[1..(i - 1)] /\ p[i] = g[1..i]
    BY <2>1
  <2>4. 1..i \in SUBSET DOMAIN s /\ 1..i # {} /\ Max(1..i) \in 1..i
    BY <1>0, <2>1, <2>2
  <2>5. g[(1..i) \ {Max(1..i)}] = p[i - 1]
    BY <2>2, <2>3
  <2>6. g[1..i] = op[<<g[(1..i) \ {Max(1..i)}], s[Max(1..i)]>>]
    BY <1>1, <2>4, <2>5 DEF FoldsLike
  <2> QED
    BY <2>2, <2>3, <2>5, <2>6
<1>2. 0 \in G
  BY <1>0
<1>3. ASSUME NEW i \in Nat, i \in G PROVE i + 1 \in G
  <2> SUFFICES ASSUME i + 1 <= Len(s) PROVE p[i + 1] \in X
    OBVIOUS
  <2>1. p[i] \in X /\ i + 1 \in 1..Len(s) /\ (i + 1) - 1 = i /\ s[i + 1] \in Y
    BY <1>3
  <2> QED
    BY <1>1, <2>1
<1>4. \A i \in 0..Len(s) : p[i] \in X
  <2>1. \A i \in Nat : i \in G
    <3> HIDE DEF G
    <3> QED
      BY <1>2, <1>3, NatSetInduction
  <2> QED
    BY <1>0, <2>1
<1>5. p[0] = base
  BY <1>0
<1>6. \A i \in 1..Len(s) : p[i] = op[<<p[i - 1], s[i]>>]
  <2>1. \A i \in 1..Len(s) : i - 1 \in 0..Len(s)
    OBVIOUS
  <2> QED
    BY <1>1, <1>4, <2>1
<1>7. p \in [0..Len(s) -> X]
  BY <1>4
<1> QED
  BY <1>5, <1>6, <1>7 DEF Through

--------------------------------------------------------------------------------
(* What the folds of CardForm do with one element                             *)

Ten      == 0..9
Symbols  == Digits \union {Separator}
KeepOp   == [x \in Seq(Digits) \X Symbols |->
               IF x[2] \in Digits THEN Append(x[1], x[2]) ELSE x[1]]
ShiftOp  == [x \in Nat \X Ten |-> 10 * x[1] + x[2]]
AddOp    == [x \in Int \X Int |-> x[1] + x[2]]

\* OnlyDigits keeps one digit after the other,
LEMMA KeptThrough ==
  ASSUME NEW s \in Seq(Symbols)
  PROVE  \E p : Through(p, Seq(Digits), KeepOp, << >>, s) /\ OnlyDigits(s) = p[Len(s)]
<1> DEFINE After(f, S) == IF s[Max(S)] \in Digits THEN Append(f[S \ {Max(S)}], s[Max(S)])
                                    ELSE f[S \ {Max(S)}]
           Is(f) == f = [S \in SUBSET DOMAIN s |-> IF S = {} THEN << >> ELSE After(f, S)]
           g == CHOOSE f : Is(f)
           p == [i \in 0..Len(s) |-> g[1..i]]
<1>1. OnlyDigits(s) = g[DOMAIN s]
  BY DEF OnlyDigits, FoldLeft, MapThenFoldSet
<1>2. /\ << >> \in Seq(Digits) /\ KeepOp \in [Seq(Digits) \X Symbols -> Seq(Digits)]
      /\ Len(s) \in Nat /\ DOMAIN s = 1..Len(s)
      /\ \A i \in 1..Len(s) : s[i] \in Symbols
  BY DEF KeepOp
<1>3. ASSUME NEW f, NEW S \in SUBSET DOMAIN s, S # {},
             f[S \ {Max(S)}] \in Seq(Digits), Max(S) \in S
      PROVE  After(f, S) = KeepOp[<<f[S \ {Max(S)}], s[Max(S)]>>]
  BY <1>2, <1>3 DEF KeepOp
<1> HIDE DEF After
<1>4. PICK f \in [SUBSET DOMAIN s -> Seq(Digits)] :
        /\ Folds(f, SUBSET DOMAIN s, KeepOp, << >>, s)
        /\ \A S \in SUBSET DOMAIN s : S # {} => Max(S) \in S
  BY <1>2, FoldsExist
<1>5. Is(f)
  <2>1. \A S \in SUBSET DOMAIN s : f[S] = IF S = {} THEN << >> ELSE After(f, S)
    BY <1>3, <1>4 DEF Folds
  <2> QED
    BY <1>4, <2>1
<1>6. Is(g)
  <2> HIDE DEF Is
  <2> QED
    BY <1>5
<1> HIDE DEF g
<1>7. /\ g[{}] = << >>
      /\ \A S \in SUBSET DOMAIN s : S # {} => g[S] = After(g, S)
  BY <1>6
<1>8. Through(p, Seq(Digits), KeepOp, << >>, s)
  <2>1. FoldsLike(g, Seq(Digits), KeepOp, s)
    BY <1>3, <1>7 DEF FoldsLike
  <2>2. p = [i \in 0..Len(s) |-> g[1..i]]
    OBVIOUS
  <2> HIDE DEF p
  <2> QED
    BY <1>2, <1>7, <2>1, <2>2, FoldsThrough
<1>9. OnlyDigits(s) = p[Len(s)]
  BY <1>1, <1>2
<1> QED
  BY <1>8, <1>9

\* Numeral takes one digit after the other,
LEMMA NumeralThrough ==
  ASSUME NEW s \in Seq(Ten)
  PROVE  \E p : Through(p, Nat, ShiftOp, 0, s) /\ Numeral(s) = p[Len(s)]
<1> DEFINE After(f, S) == 10 * f[S \ {Max(S)}] + s[Max(S)]
           Is(f) == f = [S \in SUBSET DOMAIN s |-> IF S = {} THEN 0 ELSE After(f, S)]
           g == CHOOSE f : Is(f)
           p == [i \in 0..Len(s) |-> g[1..i]]
<1>1. Numeral(s) = g[DOMAIN s]
  BY DEF Numeral, FoldLeft, MapThenFoldSet
<1>2. /\ 0 \in Nat /\ ShiftOp \in [Nat \X Ten -> Nat]
      /\ Len(s) \in Nat /\ DOMAIN s = 1..Len(s)
      /\ \A i \in 1..Len(s) : s[i] \in Ten
  BY DEF ShiftOp, Ten
<1>3. ASSUME NEW f, NEW S \in SUBSET DOMAIN s, S # {}, f[S \ {Max(S)}] \in Nat, Max(S) \in S
      PROVE  After(f, S) = ShiftOp[<<f[S \ {Max(S)}], s[Max(S)]>>]
  BY <1>2, <1>3 DEF ShiftOp
<1> HIDE DEF After
<1>4. PICK f \in [SUBSET DOMAIN s -> Nat] :
        /\ Folds(f, SUBSET DOMAIN s, ShiftOp, 0, s)
        /\ \A S \in SUBSET DOMAIN s : S # {} => Max(S) \in S
  BY <1>2, FoldsExist
<1>5. Is(f)
  <2>1. \A S \in SUBSET DOMAIN s : f[S] = IF S = {} THEN 0 ELSE After(f, S)
    BY <1>3, <1>4 DEF Folds
  <2> QED
    BY <1>4, <2>1
<1>6. Is(g)
  <2> HIDE DEF Is
  <2> QED
    BY <1>5
<1> HIDE DEF g
<1>7. /\ g[{}] = 0
      /\ \A S \in SUBSET DOMAIN s : S # {} => g[S] = After(g, S)
  BY <1>6
<1>8. Through(p, Nat, ShiftOp, 0, s)
  <2>1. FoldsLike(g, Nat, ShiftOp, s)
    BY <1>3, <1>7 DEF FoldsLike
  <2>2. p = [i \in 0..Len(s) |-> g[1..i]]
    OBVIOUS
  <2> HIDE DEF p
  <2> QED
    BY <1>2, <1>7, <2>1, <2>2, FoldsThrough
<1>9. Numeral(s) = p[Len(s)]
  BY <1>1, <1>2
<1> QED
  BY <1>8, <1>9

Total(w) == FoldLeft(LAMBDA sum, d : sum + d, 0, w)

\* and LuhnSum adds one weighted digit after the other.
LEMMA TotalThrough ==
  ASSUME NEW w \in Seq(Int)
  PROVE  \E p : Through(p, Int, AddOp, 0, w) /\ Total(w) = p[Len(w)]
<1> DEFINE After(f, S) == f[S \ {Max(S)}] + w[Max(S)]
           Is(f) == f = [S \in SUBSET DOMAIN w |-> IF S = {} THEN 0 ELSE After(f, S)]
           g == CHOOSE f : Is(f)
           p == [i \in 0..Len(w) |-> g[1..i]]
<1>1. Total(w) = g[DOMAIN w]
  BY DEF Total, FoldLeft, MapThenFoldSet
<1>2. /\ 0 \in Int /\ AddOp \in [Int \X Int -> Int]
      /\ Len(w) \in Nat /\ DOMAIN w = 1..Len(w)
      /\ \A i \in 1..Len(w) : w[i] \in Int
  BY DEF AddOp
<1>3. ASSUME NEW f, NEW S \in SUBSET DOMAIN w, S # {}, f[S \ {Max(S)}] \in Int, Max(S) \in S
      PROVE  After(f, S) = AddOp[<<f[S \ {Max(S)}], w[Max(S)]>>]
  BY <1>2, <1>3 DEF AddOp
<1> HIDE DEF After
<1>4. PICK f \in [SUBSET DOMAIN w -> Int] :
        /\ Folds(f, SUBSET DOMAIN w, AddOp, 0, w)
        /\ \A S \in SUBSET DOMAIN w : S # {} => Max(S) \in S
  BY <1>2, FoldsExist
<1>5. Is(f)
  <2>1. \A S \in SUBSET DOMAIN w : f[S] = IF S = {} THEN 0 ELSE After(f, S)
    BY <1>3, <1>4 DEF Folds
  <2> QED
    BY <1>4, <2>1
<1>6. Is(g)
  <2> HIDE DEF Is
  <2> QED
    BY <1>5
<1> HIDE DEF g
<1>7. /\ g[{}] = 0
      /\ \A S \in SUBSET DOMAIN w : S # {} => g[S] = After(g, S)
  BY <1>6
<1>8. Through(p, Int, AddOp, 0, w)
  <2>1. FoldsLike(g, Int, AddOp, w)
    BY <1>3, <1>7 DEF FoldsLike
  <2>2. p = [i \in 0..Len(w) |-> g[1..i]]
    OBVIOUS
  <2> HIDE DEF p
  <2> QED
    BY <1>2, <1>7, <2>1, <2>2, FoldsThrough
<1>9. Total(w) = p[Len(w)]
  BY <1>1, <1>2
<1> QED
  BY <1>8, <1>9

--------------------------------------------------------------------------------
(* What is kept of a text                                                     *)

\* A fold goes through a sequence in one way.
LEMMA ThroughOnce ==
  ASSUME NEW X, NEW base, NEW op, NEW s, Len(s) \in Nat,
         NEW p, NEW q, Through(p, X, op, base, s), Through(q, X, op, base, s)
  PROVE  p[Len(s)] = q[Len(s)]
<1> DEFINE G == {i \in Nat : i <= Len(s) => p[i] = q[i]}
<1>1. 0 \in G
  BY DEF Through
<1>2. ASSUME NEW i \in Nat, i \in G PROVE i + 1 \in G
  <2> SUFFICES ASSUME i + 1 <= Len(s) PROVE p[i + 1] = q[i + 1]
    OBVIOUS
  <2>1. i + 1 \in 1..Len(s) /\ (i + 1) - 1 = i /\ p[i] = q[i]
    BY <1>2
  <2>2. /\ p[i + 1] = op[<<p[(i + 1) - 1], s[i + 1]>>]
        /\ q[i + 1] = op[<<q[(i + 1) - 1], s[i + 1]>>]
    BY <2>1 DEF Through
  <2> QED
    BY <2>1, <2>2
<1>3. Len(s) \in G
  <2> HIDE DEF G
  <2> QED
    BY <1>1, <1>2, NatSetInduction
<1> QED
  BY <1>3

\* Digits are numerals, and no separator is one.
LEMMA DigitsAre == Digits \subseteq Ten /\ Separator \notin Digits /\ {0, 2} \subseteq Digits
  BY FormAssumption DEF Ten, Separator

\* The first n elements are the first n - 1 and the next.
LEMMA OneMore ==
  ASSUME NEW S, NEW s \in Seq(S), NEW n \in 1..Len(s)
  PROVE  Append(SubSeq(s, 1, n - 1), s[n]) = SubSeq(s, 1, n)
<1>1. SubSeq(s, 1, n) = SubSeq(s, 1, n - 1) \o <<s[n]>>
  BY SubSeqRecursiveSecond
<1>2. SubSeq(s, 1, n - 1) \in Seq(S) /\ s[n] \in S
  BY SubSeqProperties
<1> QED
  BY <1>1, <1>2, AppendIsConcat

\* Only digits are kept, and no more than the text has.
LEMMA KeptType ==
  ASSUME NEW s \in Seq(Symbols)
  PROVE  OnlyDigits(s) \in Seq(Digits) /\ Len(OnlyDigits(s)) <= Len(s)
<1>1. PICK p : Through(p, Seq(Digits), KeepOp, << >>, s) /\ OnlyDigits(s) = p[Len(s)]
  BY KeptThrough
<1> DEFINE G == {i \in Nat : i <= Len(s) => Len(p[i]) <= i}
<1>2. 0 \in G
  BY <1>1 DEF Through
<1>3. ASSUME NEW i \in Nat, i \in G PROVE i + 1 \in G
  <2> SUFFICES ASSUME i + 1 <= Len(s) PROVE Len(p[i + 1]) <= i + 1
    OBVIOUS
  <2>1. i + 1 \in 1..Len(s) /\ (i + 1) - 1 = i /\ Len(p[i]) <= i /\ s[i + 1] \in Symbols
    BY <1>3
  <2>2. p[i + 1] = KeepOp[<<p[(i + 1) - 1], s[i + 1]>>] /\ i \in 0..Len(s)
    BY <1>1, <2>1 DEF Through
  <2>3. p[i] \in Seq(Digits)
    BY <1>1, <2>2 DEF Through
  <2>4. p[i + 1] = IF s[i + 1] \in Digits THEN Append(p[i], s[i + 1]) ELSE p[i]
    BY <2>1, <2>2, <2>3 DEF KeepOp
  <2>5. Len(Append(p[i], s[i + 1])) = Len(p[i]) + 1 /\ Len(p[i]) \in Nat
    BY <2>3
  <2> QED
    BY <2>1, <2>4, <2>5
<1>4. Len(s) \in G
  <2> HIDE DEF G
  <2> QED
    BY <1>2, <1>3, NatSetInduction
<1> QED
  BY <1>1, <1>4 DEF Through

\* To know what is kept of a text it is enough to say what is kept of its
\* beginnings.
LEMMA KeptIs ==
  ASSUME NEW s \in Seq(Symbols), NEW k \in [0..Len(s) -> Seq(Digits)], k[0] = << >>,
         \A i \in 1..Len(s) :
           k[i] = IF s[i] \in Digits THEN Append(k[i - 1], s[i]) ELSE k[i - 1]
  PROVE  OnlyDigits(s) = k[Len(s)]
<1>1. \A i \in 1..Len(s) : k[i - 1] \in Seq(Digits) /\ s[i] \in Symbols
  OBVIOUS
<1>2. Through(k, Seq(Digits), KeepOp, << >>, s)
  BY <1>1 DEF Through, KeepOp
<1>3. Len(s) \in Nat
  OBVIOUS
<1> QED
  BY <1>2, <1>3, KeptThrough, ThroughOnce

\* Of a card number in groups of four all digits are kept.
LEMMA CardNumberKept ==
  ASSUME NEW s \in Seq(Digits)
  PROVE  formatCardNumber(s) \in Seq(Symbols) /\ OnlyDigits(formatCardNumber(s)) = s
<1> DEFINE n == Len(s)
           m == n + (n - 1) \div 4
           t == formatCardNumber(s)
           k == [i \in 0..m |-> SubSeq(s, 1, i - i \div 5)]
<1>0. n \in Nat /\ \A i \in 1..n : s[i] \in Digits
  OBVIOUS
<1>1. CASE n = 0
  <2>1. 1..m = {} /\ s = << >>
    <3>1. s = << >>
      BY <1>1, EmptySeq
    <3>2. (0 - 1) \div 4 \in Int /\ (0 - 1) \div 4 <= 0
      OBVIOUS
    <3>3. m = (0 - 1) \div 4
      BY <1>1, <3>2
    <3> HIDE DEF m
    <3> QED
      BY <3>1, <3>2, <3>3
  <2>2. t = << >>
    <3>1. t = [i \in 1..m |-> IF i % 5 = 0 THEN Separator ELSE s[i - i \div 5]]
      BY DEF formatCardNumber
    <3> HIDE DEF t, m
    <3> QED
      BY <2>1, <3>1
  <2>3. OnlyDigits(<< >>) = << >>
    <3> DEFINE none == [i \in 0..0 |-> << >>]
    <3>1. << >> \in Seq(Symbols) /\ Len(<< >>) = 0 /\ none \in [0..0 -> Seq(Digits)]
      OBVIOUS
    <3>2. none[0] = << >> /\ 1..0 = {} /\ 0..Len(<< >>) = 0..0
      BY <3>1
    <3> HIDE DEF none
    <3>3. OnlyDigits(<< >>) = none[Len(<< >>)]
      BY <3>1, <3>2, KeptIs
    <3> QED
      BY <3>1, <3>2, <3>3
  <2>4. << >> \in Seq(Symbols)
    OBVIOUS
  <2> HIDE DEF t, m, n
  <2> QED
    BY <2>1, <2>2, <2>3, <2>4 DEF t
<1>2. CASE n > 0
  <2>1. m \in Nat /\ m - m \div 5 = n
    BY <1>0, <1>2
  <2>2. \A i \in 1..m : i % 5 # 0 =>
          /\ i - i \div 5 \in 1..n
          /\ (i - 1) - (i - 1) \div 5 = (i - i \div 5) - 1
    BY <1>0, <1>2
  <2>3. \A i \in 1..m : i % 5 = 0 => (i - 1) - (i - 1) \div 5 = i - i \div 5
    BY <2>1
  <2>4. \A i \in 0..m : i - i \div 5 \in 0..n
    BY <1>0, <1>2
  <2>5. t = [i \in 1..m |-> IF i % 5 = 0 THEN Separator ELSE s[i - i \div 5]]
    BY DEF formatCardNumber
  <2>6. t \in Seq(Symbols) /\ Len(t) = m
    <3>1. \A i \in 1..m : (IF i % 5 = 0 THEN Separator ELSE s[i - i \div 5]) \in Symbols
      BY <1>0, <2>2 DEF Symbols
    <3> HIDE DEF t, m
    <3> QED
      BY <2>1, <2>5, <3>1, IsASeq
  <2>7. k \in [0..m -> Seq(Digits)] /\ k[0] = << >>
    <3>1. \A j \in 0..n : SubSeq(s, 1, j) \in Seq(Digits)
      BY <1>0, SubSeqProperties
    <3>2. SubSeq(s, 1, 0) = << >>
      BY SubSeqEmpty
    <3>3. 0 - 0 \div 5 = 0
      OBVIOUS
    <3> HIDE DEF m, n
    <3> QED
      BY <2>1, <2>4, <3>1, <3>2, <3>3
  <2>8. ASSUME NEW i \in 1..m
        PROVE  k[i] = IF t[i] \in Digits THEN Append(k[i - 1], t[i]) ELSE k[i - 1]
    <3>0. i \in 0..m /\ i - 1 \in 0..m
      BY <2>1
    <3>1. k[i] = SubSeq(s, 1, i - i \div 5) /\ k[i - 1] = SubSeq(s, 1, (i - 1) - (i - 1) \div 5)
      BY <3>0
    <3> HIDE DEF k, t, m, n
    <3>2. CASE i % 5 = 0
      BY <2>3, <2>5, <3>1, <3>2, DigitsAre
    <3>3. CASE i % 5 # 0
      <4> DEFINE j == i - i \div 5
      <4>1. j \in 1..n /\ t[i] = s[j] /\ t[i] \in Digits
        BY <1>0, <2>2, <2>5, <3>3
      <4>2. k[i] = SubSeq(s, 1, j) /\ k[i - 1] = SubSeq(s, 1, j - 1)
        BY <2>2, <3>1, <3>3
      <4> HIDE DEF j
      <4>3. Append(SubSeq(s, 1, j - 1), s[j]) = SubSeq(s, 1, j)
        BY <4>1, OneMore DEF n
      <4> QED
        BY <4>1, <4>2, <4>3
    <3> QED
      BY <3>2, <3>3
  <2>9. k[m] = s
    <3>1. k[m] = SubSeq(s, 1, n)
      BY <2>1
    <3> QED
      BY <3>1, SubSeqFull
  <2> HIDE DEF k, t, m
  <2>10. OnlyDigits(t) = k[Len(t)]
    BY <2>6, <2>7, <2>8, KeptIs
  <2> QED
    BY <2>6, <2>9, <2>10 DEF t
<1> QED
  BY <1>0, <1>1, <1>2

\* Of a text of digits all are kept,
LEMMA DigitsKept ==
  ASSUME NEW s \in Seq(Digits)
  PROVE  s \in Seq(Symbols) /\ OnlyDigits(s) = s
<1> DEFINE n == Len(s)
           k == [i \in 0..n |-> SubSeq(s, 1, i)]
<1>1. n \in Nat /\ (\A i \in 1..n : s[i] \in Digits) /\ Digits \subseteq Symbols
  BY DEF Symbols
<1>2. s \in Seq(Symbols)
  BY <1>1
<1>3. \A i \in 0..n : SubSeq(s, 1, i) \in Seq(Digits)
  BY <1>1, SubSeqProperties
<1>4. k \in [0..n -> Seq(Digits)] /\ k[0] = << >>
  <2>1. SubSeq(s, 1, 0) = << >>
    BY SubSeqEmpty
  <2> QED
    BY <1>1, <1>3, <2>1
<1>5. ASSUME NEW i \in 1..n
      PROVE  k[i] = IF s[i] \in Digits THEN Append(k[i - 1], s[i]) ELSE k[i - 1]
  <2>1. Append(SubSeq(s, 1, i - 1), s[i]) = SubSeq(s, 1, i)
    BY OneMore
  <2>2. i \in 0..n /\ i - 1 \in 0..n
    BY <1>1
  <2> QED
    BY <1>1, <2>1, <2>2
<1>6. k[n] = s
  BY <1>1, SubSeqFull
<1> HIDE DEF k
<1>7. OnlyDigits(s) = k[n]
  BY <1>2, <1>4, <1>5, KeptIs
<1> QED
  BY <1>2, <1>6, <1>7

\* and of an expiry with its separator, too.
LEMMA ExpirationKept ==
  ASSUME NEW s \in Seq(Digits)
  PROVE  formatExpiration(s) \in Seq(Symbols) /\ OnlyDigits(formatExpiration(s)) = s
<1> DEFINE n == Len(s)
           t == formatExpiration(s)
           k == [i \in 0..(n + 1) |-> SubSeq(s, 1, IF i <= 2 THEN i ELSE i - 1)]
<1>0. n \in Nat /\ \A i \in 1..n : s[i] \in Digits
  OBVIOUS
<1>1. CASE n <= 2
  BY <1>1, DigitsKept DEF formatExpiration
<1>2. CASE ~ (n <= 2)
  <2>1. t = SubSeq(s, 1, 2) \o <<Separator>> \o SubSeq(s, 3, n)
    <3>1. (IF Len(s) < 2 THEN Len(s) ELSE 2) = 2 /\ 2 + 1 = 3
      BY <1>0, <1>2
    <3>2. Take(s, 2) = SubSeq(s, 1, 2)
      BY <3>1 DEF Take
    <3>3. Drop(s, 2) = SubSeq(s, 3, n)
      BY <3>1 DEF Drop
    <3> QED
      BY <1>2, <3>2, <3>3 DEF formatExpiration
  <2>2. /\ SubSeq(s, 1, 2) \in Seq(Symbols) /\ Len(SubSeq(s, 1, 2)) = 2
        /\ \A i \in 1..2 : SubSeq(s, 1, 2)[i] = s[i]
    BY <1>0, <1>2, DigitsKept, SubSeqProperties
  <2>3. /\ SubSeq(s, 3, n) \in Seq(Symbols) /\ Len(SubSeq(s, 3, n)) = n - 2
        /\ \A i \in 1..(n - 2) : SubSeq(s, 3, n)[i] = s[i + 2]
    BY <1>0, <1>2, DigitsKept, SubSeqProperties
  <2>4. <<Separator>> \in Seq(Symbols)
    BY DEF Symbols
  <2>5. /\ t \in Seq(Symbols) /\ Len(t) = n + 1
        /\ t[3] = Separator
        /\ \A i \in 1..2 : t[i] = s[i]
        /\ \A i \in 4..(n + 1) : t[i] = s[i - 1]
    <3> DEFINE a == SubSeq(s, 1, 2)
               b == a \o <<Separator>>
               c == SubSeq(s, 3, n)
    <3>1. /\ b \in Seq(Symbols) /\ Len(b) = 3 /\ b[3] = Separator
          /\ \A i \in 1..2 : b[i] = s[i]
      <4> HIDE DEF a
      <4> QED
        BY <2>2, <2>4 DEF a
    <3> HIDE DEF b, c, t
    <3>2. t = b \o c
      BY <2>1 DEF b, c
    <3>3. c \in Seq(Symbols) /\ Len(c) = n - 2 /\ \A i \in 1..(n - 2) : c[i] = s[i + 2]
      BY <2>3 DEF c
    <3> HIDE DEF n
    <3>4. /\ t \in Seq(Symbols) /\ Len(t) = n + 1
          /\ \A i \in 1..3 : t[i] = b[i]
          /\ \A i \in 4..(n + 1) : t[i] = c[i - 3]
      <4>1. t \in Seq(Symbols) /\ Len(t) = Len(b) + Len(c)
        BY <3>1, <3>2, <3>3, ConcatProperties
      <4>2. \A i \in 1..(Len(b) + Len(c)) : t[i] = IF i <= Len(b) THEN b[i] ELSE c[i - Len(b)]
        BY <3>1, <3>2, <3>3, ConcatProperties
      <4>3. 3 + (n - 2) = n + 1
        BY <1>0
      <4>4. \A i \in 1..(n + 1) : t[i] = IF i <= 3 THEN b[i] ELSE c[i - 3]
        BY <3>1, <3>3, <4>2, <4>3
      <4> QED
        BY <1>0, <1>2, <3>1, <3>3, <4>1, <4>3, <4>4
    <3>5. \A i \in 4..(n + 1) : i - 3 \in 1..(n - 2) /\ (i - 3) + 2 = i - 1
      BY <1>0
    <3> QED
      BY <3>1, <3>3, <3>4, <3>5
  <2>6. k \in [0..(n + 1) -> Seq(Digits)] /\ k[0] = << >>
    <3>1. \A i \in 0..(n + 1) : (IF i <= 2 THEN i ELSE i - 1) \in 0..n
      BY <1>0, <1>2
    <3>2. \A j \in 0..n : SubSeq(s, 1, j) \in Seq(Digits)
      BY <1>0, SubSeqProperties
    <3>3. SubSeq(s, 1, 0) = << >>
      BY SubSeqEmpty
    <3> QED
      BY <1>0, <3>1, <3>2, <3>3
  <2>7. ASSUME NEW i \in 1..(n + 1)
        PROVE  k[i] = IF t[i] \in Digits THEN Append(k[i - 1], t[i]) ELSE k[i - 1]
    <3>1. /\ i \in 0..(n + 1) /\ i - 1 \in 0..(n + 1)
          /\ k[i] = SubSeq(s, 1, IF i <= 2 THEN i ELSE i - 1)
          /\ k[i - 1] = SubSeq(s, 1, IF i - 1 <= 2 THEN i - 1 ELSE (i - 1) - 1)
      BY <1>0
    <3> HIDE DEF k, t, n
    <3>2. CASE i = 3
      <4>1. k[i] = SubSeq(s, 1, 2) /\ k[i - 1] = SubSeq(s, 1, 2)
        BY <3>1, <3>2
      <4> QED
        BY <2>5, <3>2, <4>1, DigitsAre
    <3>3. CASE i <= 2
      <4>1. k[i] = SubSeq(s, 1, i) /\ k[i - 1] = SubSeq(s, 1, i - 1)
        BY <3>1, <3>3
      <4>2. i \in 1..Len(s) /\ t[i] = s[i] /\ t[i] \in Digits
        BY <1>0, <1>2, <2>5, <3>3 DEF n
      <4> QED
        BY <4>1, <4>2, OneMore
    <3>4. CASE i > 3
      <4> DEFINE j == i - 1
      <4>1. j \in 1..Len(s) /\ t[i] = s[j] /\ t[i] \in Digits
        BY <1>0, <2>5, <3>4 DEF n
      <4>2. k[i] = SubSeq(s, 1, j) /\ k[i - 1] = SubSeq(s, 1, j - 1)
        BY <3>1, <3>4
      <4> HIDE DEF j
      <4> QED
        BY <4>1, <4>2, OneMore
    <3> QED
      BY <1>0, <3>2, <3>3, <3>4
  <2>8. k[n + 1] = s
    <3>1. k[n + 1] = SubSeq(s, 1, n)
      BY <1>0, <1>2
    <3> QED
      BY <3>1, SubSeqFull
  <2> HIDE DEF k, t
  <2>9. OnlyDigits(t) = k[Len(t)]
    BY <2>5, <2>6, <2>7, KeptIs
  <2> QED
    BY <2>5, <2>8, <2>9 DEF t
<1> QED
  BY <1>0, <1>1, <1>2

\* The beginning and the rest of a sequence.
LEMMA TakeAndDrop ==
  ASSUME NEW S, NEW s \in Seq(S), NEW n \in Nat
  PROVE  /\ Take(s, n) \in Seq(S) /\ Len(Take(s, n)) = (IF Len(s) < n THEN Len(s) ELSE n)
         /\ Drop(s, n) \in Seq(S)
         /\ Len(Drop(s, n)) = (IF Len(s) < n THEN 0 ELSE Len(s) - n)
         /\ \A i \in 1..Len(Drop(s, n)) : Drop(s, n)[i] = s[n + i]
         /\ \A i \in 1..Len(Take(s, n)) : Take(s, n)[i] = s[i]
<1> DEFINE m == IF Len(s) < n THEN Len(s) ELSE n
<1>0. Len(s) \in Nat
  OBVIOUS
<1>1. /\ SubSeq(s, 1, m) \in Seq(S) /\ Len(SubSeq(s, 1, m)) = m
      /\ \A i \in 1..m : SubSeq(s, 1, m)[i] = s[i]
  <2>1. m \in 0..Len(s)
    BY <1>0
  <2> HIDE DEF m
  <2> QED
    BY <1>0, <2>1, SubSeqProperties
<1>2. CASE Len(s) <= n
  <2>1. SubSeq(s, n + 1, Len(s)) = << >>
    BY <1>0, <1>2, SubSeqEmpty
  <2> QED
    BY <1>0, <1>1, <1>2, <2>1 DEF Take, Drop
<1>3. CASE ~ (Len(s) <= n)
  <2>1. n + 1 \in 1..(Len(s) + 1) /\ Len(s) \in n..Len(s)
    BY <1>0, <1>3
  <2>2. /\ SubSeq(s, n + 1, Len(s)) \in Seq(S)
        /\ Len(SubSeq(s, n + 1, Len(s))) = Len(s) - n
        /\ \A i \in 1..(Len(s) - n) : SubSeq(s, n + 1, Len(s))[i] = s[n + i]
    BY <1>0, <1>3, <2>1, SubSeqProperties
  <2> QED
    BY <1>0, <1>1, <1>3, <2>2 DEF Take, Drop
<1> QED
  BY <1>0, <1>2, <1>3

\* A keystroke leaves a text.
LEMMA KeystrokesAreTexts ==
  ASSUME NEW shown \in Seq(Symbols), NEW text \in Keystrokes(shown)
  PROVE  text \in Seq(Symbols)
<1>0. Len(shown) \in Nat
  OBVIOUS
<1>1. ASSUME NEW i \in 1..(Len(shown) + 1)
      PROVE  SubSeq(shown, 1, i - 1) \in Seq(Symbols)
  BY <1>0, SubSeqProperties
<1>2. ASSUME NEW i \in 1..(Len(shown) + 1)
      PROVE  SubSeq(shown, i, Len(shown)) \in Seq(Symbols)
  <2>1. CASE i = Len(shown) + 1
    BY <1>0, <2>1, SubSeqEmpty
  <2>2. CASE i # Len(shown) + 1
    BY <1>0, <2>2, SubSeqProperties
  <2> QED
    BY <2>1, <2>2
<1>3. ASSUME NEW i \in 1..(Len(shown) + 1), NEW d \in Symbols, text = InsertAt(shown, i, d)
      PROVE  text \in Seq(Symbols)
  <2>1. text = SubSeq(shown, 1, i - 1) \o <<d>> \o SubSeq(shown, i, Len(shown))
    BY <1>3 DEF InsertAt
  <2>2. <<d>> \in Seq(Symbols)
    OBVIOUS
  <2> QED
    BY <1>1, <1>2, <2>1, <2>2
<1>4. ASSUME NEW i \in 1..Len(shown), text = RemoveAt(shown, i)
      PROVE  text \in Seq(Symbols)
  <2>1. text = SubSeq(shown, 1, i - 1) \o SubSeq(shown, i + 1, Len(shown))
    BY <1>4 DEF RemoveAt
  <2>2. i \in 1..(Len(shown) + 1) /\ i + 1 \in 1..(Len(shown) + 1)
    BY <1>0
  <2> QED
    BY <1>1, <1>2, <2>1, <2>2
<1>5. DOMAIN shown = 1..Len(shown)
  OBVIOUS
<1> QED
  BY <1>3, <1>4, <1>5 DEF Keystrokes, Symbols
--------------------------------------------------------------------------------
(* The draft is what was typed                                                *)

\* What is typed in the three fields of digits, before it is cut.
LEMMA TypedDigits ==
  ASSUME NEW shown \in Seq(Symbols), NEW text \in Keystrokes(shown), NEW n \in Nat
  PROVE  /\ OnlyDigits(text) \in Seq(Digits) /\ Len(OnlyDigits(text)) <= Len(text)
         /\ Take(OnlyDigits(text), n) \in Seq(Digits)
         /\ Len(Take(OnlyDigits(text), n)) <= n
<1>1. text \in Seq(Symbols)
  BY KeystrokesAreTexts
<1>2. OnlyDigits(text) \in Seq(Digits) /\ Len(OnlyDigits(text)) <= Len(text)
  BY <1>1, KeptType
<1>3. /\ Take(OnlyDigits(text), n) \in Seq(Digits)
      /\ Len(Take(OnlyDigits(text), n)) =
           (IF Len(OnlyDigits(text)) < n THEN Len(OnlyDigits(text)) ELSE n)
  BY <1>2, TakeAndDrop
<1>4. Len(OnlyDigits(text)) \in Nat
  BY <1>2
<1> QED
  BY <1>2, <1>3, <1>4

\* The digits of the expiry are digits.
LEMMA ExpiryDigitsType ==
  ASSUME TypeOK
  PROVE  ExpiryDigits \in Seq(Digits)
<1>1. card.month \in Seq(Digits) /\ card.year \in Seq(Digits)
  BY DEF TypeOK
<1>2. Drop(card.year, 2) \in Seq(Digits)
  BY <1>1, TakeAndDrop
<1> QED
  BY <1>1, <1>2 DEF ExpiryDigits

\* What the fields show of a draft is the draft.
LEMMA ShownIsKept ==
  ASSUME TypeOK
  PROVE  /\ NumberShown \in Seq(Symbols) /\ OnlyDigits(NumberShown) = card.number
         /\ ExpiryShown \in Seq(Symbols) /\ OnlyDigits(ExpiryShown) = ExpiryDigits
<1>1. card.number \in Seq(Digits)
  BY DEF TypeOK
<1> QED
  BY <1>1, ExpiryDigitsType, CardNumberKept, ExpirationKept DEF NumberShown, ExpiryShown

\* The empty form (initialState) is what was typed: nothing.
LEMMA FormInit == Init => FormInv
<1> SUFFICES ASSUME Init PROVE FormInv
  OBVIOUS
<1>1. << >> \in Seq(Digits) /\ Len(<< >>) = 0 /\ << >> \o << >> = << >>
  OBVIOUS
<1>2. TypeOK
  <2>1. MaxDigits \in Nat /\ 1 \in 1..MaxInstallments
    BY FormAssumption
  <2>2. 1 \in DOMAIN Calendar
    BY FormAssumption
  <2>3. /\ card.number = << >> /\ card.month = << >> /\ card.year = << >> /\ card.cvc = << >>
        /\ card \in [number: Seq(Digits), month: Seq(Digits), year: Seq(Digits),
                    cvc: Seq(Digits), holder: BOOLEAN, installments: 1..MaxInstallments]
    BY <1>1, <2>1 DEF Init
  <2>4. Len(card.number) <= MaxDigits /\ Len(card.month) <= 2 /\ Len(card.cvc) <= 4
    BY <1>1, <2>1, <2>3
  <2>5. Len(card.year) \in {0, 1, 4} /\ email \in BOOLEAN /\ now \in DOMAIN Calendar
    BY <1>1, <2>2, <2>3 DEF Init
  <2>6. typed \in [number: Seq(Digits), expiry: Seq(Digits)]
    BY <1>1 DEF Init
  <2> QED
    BY <2>3, <2>4, <2>5, <2>6 DEF TypeOK
<1>3. ExpiryDigits = << >>
  BY <1>1 DEF Init, ExpiryDigits
<1> QED
  BY <1>1, <1>2, <1>3 DEF Init, FormInv

\* A keystroke in the number's field stores the digits of the text, cut.
LEMMA NumberStep ==
  ASSUME FormInv, TypeNumber
  PROVE  FormInv'
<1>1. PICK text \in Keystrokes(NumberShown) :
        /\ card' = [card EXCEPT !.number = Take(OnlyDigits(text), MaxDigits)]
        /\ typed' = [typed EXCEPT !.number = Take(OnlyDigits(text), MaxDigits)]
        /\ UNCHANGED <<email, now>>
  BY DEF TypeNumber
<1> DEFINE number == Take(OnlyDigits(text), MaxDigits)
<1>2. number \in Seq(Digits) /\ Len(number) <= MaxDigits
  <2>1. NumberShown \in Seq(Symbols)
    BY ShownIsKept DEF FormInv
  <2>2. MaxDigits \in Nat
    BY FormAssumption
  <2> QED
    BY <2>1, <2>2, TypedDigits
<1> HIDE DEF number
<1>3. TypeOK'
  BY <1>1, <1>2 DEF FormInv, TypeOK, number
<1>4. /\ typed'.number = card'.number /\ typed'.expiry = typed.expiry
      /\ card'.month = card.month /\ card'.year = card.year
  BY <1>1 DEF FormInv, TypeOK
<1>5. ExpiryDigits' = ExpiryDigits
  BY <1>4 DEF ExpiryDigits
<1> QED
  BY <1>3, <1>4, <1>5 DEF FormInv

\* Of four digits the first two are the month and the others the year.
LEMMA ExpiryStep ==
  ASSUME FormInv, TypeExpiry
  PROVE  FormInv'
<1>1. PICK text \in Keystrokes(ExpiryShown) :
        LET digits == Take(OnlyDigits(text), 4) IN
        /\ Len(text) <= 5
        /\ card' = [card EXCEPT !.month = Take(digits, 2),
                                !.year = IF Len(digits) = 4
                                         THEN expandTwoDigitYear(Drop(digits, 2))
                                         ELSE Drop(digits, 2)]
        /\ typed' = [typed EXCEPT !.expiry = digits]
        /\ UNCHANGED <<email, now>>
  BY DEF TypeExpiry
<1> DEFINE digits == Take(OnlyDigits(text), 4)
           month  == Take(digits, 2)
           rest   == Drop(digits, 2)
           year   == IF Len(digits) = 4 THEN expandTwoDigitYear(rest) ELSE rest
<1>2. digits \in Seq(Digits) /\ Len(digits) <= 4 /\ Len(digits) \in Nat
  <2>1. digits \in Seq(Digits) /\ Len(digits) <= 4
    BY ShownIsKept, TypedDigits DEF FormInv
  <2> QED
    BY <2>1
<1> HIDE DEF digits
<1>3. /\ month \in Seq(Digits) /\ Len(month) = (IF Len(digits) < 2 THEN Len(digits) ELSE 2)
      /\ rest \in Seq(Digits) /\ Len(rest) = (IF Len(digits) < 2 THEN 0 ELSE Len(digits) - 2)
  <2>1. 2 \in Nat
    OBVIOUS
  <2>2. month \in Seq(Digits) /\ Len(month) = (IF Len(digits) < 2 THEN Len(digits) ELSE 2)
    BY <1>2, <2>1, TakeAndDrop
  <2>3. rest \in Seq(Digits) /\ Len(rest) = (IF Len(digits) < 2 THEN 0 ELSE Len(digits) - 2)
    BY <1>2, <2>1, TakeAndDrop
  <2> QED
    BY <2>2, <2>3
<1>4. month \o rest = digits
  <2>1. CASE Len(digits) < 2
    <3>1. month = digits /\ rest = << >>
      <4>1. month = SubSeq(digits, 1, Len(digits)) /\ rest = SubSeq(digits, 2 + 1, Len(digits))
        BY <2>1 DEF Take, Drop
      <4> QED
        BY <1>2, <2>1, <4>1, SubSeqFull, SubSeqEmpty
    <3> QED
      BY <1>2, <3>1, ConcatEmptySeq
  <2>2. CASE ~ (Len(digits) < 2)
    <3>1. month = SubSeq(digits, 1, 2) /\ rest = SubSeq(digits, 2 + 1, Len(digits))
      BY <2>2 DEF Take, Drop
    <3>2. /\ 1 \in 1..(Len(digits) + 1) /\ 2 \in (1 - 1)..Len(digits)
          /\ Len(digits) \in 2..Len(digits)
      BY <1>2, <2>2
    <3>3. SubSeq(digits, 1, 2) \o SubSeq(digits, 2 + 1, Len(digits))
            = SubSeq(digits, 1, Len(digits))
      BY <1>2, <3>2, ConcatAdjacentSubSeq
    <3> QED
      BY <1>2, <3>1, <3>3, SubSeqFull
  <2> QED
    BY <2>1, <2>2
<1> HIDE DEF month, rest
<1>5. ASSUME Len(digits) = 4
      PROVE  \E a, b \in Digits :
               rest = <<a, b>> /\ expandTwoDigitYear(rest) = <<2, 0, a, b>>
  <2>1. Len(rest) = 2 /\ rest[1] \in Digits /\ rest[2] \in Digits
    <3>1. rest \in Seq(Digits) /\ Len(rest) = 2
      BY <1>3, <1>5
    <3> QED
      BY <3>1
  <2>2. rest = <<rest[1], rest[2]>>
    <3>1. rest \in Seq(Digits) /\ Len(rest) = 2
      BY <1>3, <2>1
    <3> QED
      BY <3>1
  <2>3. <<2, 0>> \o <<rest[1], rest[2]>> = <<2, 0, rest[1], rest[2]>>
    <3> DEFINE c == rest[1]
               d == rest[2]
    <3> HIDE DEF c, d
    <3>1. <<2, 0>> \o <<c, d>> = <<2, 0, c, d>>
      <4> DEFINE S == {0, 2, c, d}
                 t == <<2, 0>> \o <<c, d>>
      <4>1. /\ <<2, 0>> \in Seq(S) /\ <<c, d>> \in Seq(S) /\ <<2, 0, c, d>> \in Seq(S)
            /\ Len(<<2, 0>>) = 2 /\ Len(<<c, d>>) = 2 /\ Len(<<2, 0, c, d>>) = 4
        OBVIOUS
      <4>2. /\ t \in Seq(S) /\ Len(t) = 4
            /\ \A i \in 1..4 : t[i] = IF i <= 2 THEN <<2, 0>>[i] ELSE <<c, d>>[i - 2]
        <5> HIDE DEF S
        <5> QED
          BY <4>1, ConcatProperties
      <4> HIDE DEF S, t
      <4>3. \A i \in 1..4 : t[i] = <<2, 0, c, d>>[i]
        BY <4>2
      <4> QED
        BY <4>1, <4>2, <4>3, SeqEqual DEF t
    <3> QED
      BY <3>1 DEF c, d
  <2>4. expandTwoDigitYear(rest) = <<2, 0, rest[1], rest[2]>>
    BY <2>2, <2>3 DEF expandTwoDigitYear
  <2> QED
    BY <2>1, <2>2, <2>4
<1>6. /\ year \in Seq(Digits) /\ Len(year) \in {0, 1, 4}
      /\ Len(year) = 4 => \E a, b \in Digits : year = <<2, 0, a, b>>
      /\ rest = (IF Len(year) = 4 THEN Drop(year, 2) ELSE year)
  <2>1. CASE Len(digits) = 4
    <3>1. PICK a, b \in Digits : rest = <<a, b>> /\ expandTwoDigitYear(rest) = <<2, 0, a, b>>
      BY <1>5, <2>1
    <3>2. <<2, 0, a, b>> \in Seq(Digits) /\ Len(<<2, 0, a, b>>) = 4
      BY DigitsAre
    <3>3. Drop(<<2, 0, a, b>>, 2) = <<a, b>>
      <4>1. Drop(<<2, 0, a, b>>, 2) = SubSeq(<<2, 0, a, b>>, 2 + 1, 4)
        BY <3>2 DEF Drop
      <4> QED
        BY <4>1
    <3> QED
      BY <2>1, <3>1, <3>2, <3>3
  <2>2. CASE Len(digits) # 4
    <3>1. Len(rest) \in {0, 1}
      <4> DEFINE n == Len(digits)
                 m == Len(rest)
      <4>1. n \in Nat /\ n <= 4 /\ n # 4 /\ m = (IF n < 2 THEN 0 ELSE n - 2)
        <5>1. n \in Nat /\ n <= 4
          BY <1>2
        <5>2. m = (IF n < 2 THEN 0 ELSE n - 2)
          BY <1>3
        <5> QED
          BY <2>2, <5>1, <5>2
      <4> HIDE DEF n, m
      <4>2. m = 0 \/ m = 1
        BY <4>1
      <4> QED
        BY <4>2 DEF m
    <3>2. year = rest
      BY <2>2
    <3> HIDE DEF year
    <3>3. Len(year) # 4 /\ Len(year) \in {0, 1, 4}
      BY <3>1, <3>2
    <3> QED
      BY <1>3, <3>2, <3>3
  <2> QED
    BY <2>1, <2>2
<1> HIDE DEF year
<1>7. /\ card' = [card EXCEPT !.month = month, !.year = year]
      /\ typed' = [typed EXCEPT !.expiry = digits] /\ UNCHANGED <<email, now>>
  BY <1>1 DEF digits, month, rest, year
<1>8. Len(month) <= 2
  BY <1>2, <1>3
<1>9. TypeOK'
  BY <1>2, <1>3, <1>6, <1>7, <1>8 DEF FormInv, TypeOK
<1>10. /\ typed'.number = card'.number /\ typed'.expiry = digits
       /\ card'.month = month /\ card'.year = year
  BY <1>7 DEF FormInv, TypeOK
<1>11. ExpiryDigits' = digits
  BY <1>4, <1>6, <1>10 DEF ExpiryDigits
<1> QED
  BY <1>6, <1>9, <1>10, <1>11 DEF FormInv

\* maxLength keeps the code short, and of its text only digits are stored.
LEMMA CvcStep ==
  ASSUME FormInv, TypeCvc
  PROVE  FormInv'
<1>1. PICK text \in Keystrokes(card.cvc) :
        /\ Len(text) <= 4
        /\ card' = [card EXCEPT !.cvc = OnlyDigits(text)]
        /\ UNCHANGED <<email, now, typed>>
  BY DEF TypeCvc
<1>2. card.cvc \in Seq(Symbols)
  BY DigitsKept DEF FormInv, TypeOK
<1>3. OnlyDigits(text) \in Seq(Digits) /\ Len(OnlyDigits(text)) <= Len(text)
  BY <1>2, TypedDigits
<1>4. text \in Seq(Symbols)
  BY <1>2, KeystrokesAreTexts
<1>5. Len(OnlyDigits(text)) <= 4
  BY <1>1, <1>3, <1>4
<1>6. TypeOK'
  BY <1>1, <1>3, <1>5 DEF FormInv, TypeOK
<1>7. /\ card'.number = card.number /\ card'.month = card.month /\ card'.year = card.year
      /\ typed' = typed
  BY <1>1 DEF FormInv, TypeOK
<1>8. ExpiryDigits' = ExpiryDigits
  BY <1>7 DEF ExpiryDigits
<1> QED
  BY <1>6, <1>7, <1>8 DEF FormInv

\* The rest of the form and the clock leave number and expiry alone.
LEMMA OtherStep ==
  ASSUME FormInv, TypeHolder \/ TypeEmail \/ Step \/ Midnight \/ UNCHANGED formVars
  PROVE  FormInv'
<1>1. TypeOK'
  <2>1. CASE TypeHolder
    BY <2>1 DEF FormInv, TypeOK, TypeHolder
  <2>2. CASE TypeEmail
    BY <2>2 DEF FormInv, TypeOK, TypeEmail
  <2>3. CASE Step
    BY <2>3 DEF FormInv, TypeOK, Step
  <2>4. CASE Midnight
    <3>1. now' \in DOMAIN Calendar
      BY <2>4, FormAssumption DEF FormInv, TypeOK, Midnight
    <3> QED
      BY <2>4, <3>1 DEF FormInv, TypeOK, Midnight
  <2>5. CASE UNCHANGED formVars
    BY <2>5 DEF FormInv, TypeOK, formVars
  <2> QED
    BY <2>1, <2>2, <2>3, <2>4, <2>5
<1>2. /\ card'.number = card.number /\ card'.month = card.month /\ card'.year = card.year
      /\ typed' = typed
  BY DEF FormInv, TypeOK, TypeHolder, TypeEmail, Step, Midnight, formVars
<1>3. ExpiryDigits' = ExpiryDigits
  BY <1>2 DEF ExpiryDigits
<1> QED
  BY <1>1, <1>2, <1>3 DEF FormInv

\* FormInv is inductive.
THEOREM FormInvariance == Spec => []FormInv
<1>1. FormInv /\ [Next]_formVars => FormInv'
  BY NumberStep, ExpiryStep, CvcStep, OtherStep DEF Next
<1> QED
  BY FormInit, <1>1, PTL DEF Spec

\* Whatever is typed, the draft has the lengths validateCard and the DTO expect.
THEOREM FormTypes == Spec => []TypeOK
<1>1. FormInv => TypeOK
  BY DEF FormInv
<1> QED
  BY <1>1, FormInvariance, PTL

\* The fields show exactly the digits that were typed (CardInfoForm).
THEOREM FieldsShowWhatIsTyped == Spec => []ShownIsTyped
<1>1. FormInv => ShownIsTyped
  BY ShownIsKept DEF FormInv, ShownIsTyped
<1> QED
  BY <1>1, FormInvariance, PTL

\* The PSP is sent the MM/YY the customer sees (expandTwoDigitYear, slice(-2)).
THEOREM PspSeesTheSameExpiry == Spec => []PspGetsWhatIsShown
<1>1. FormInv => PspGetsWhatIsShown
  <2> SUFFICES ASSUME FormInv, Len(card.year) = 4
               PROVE  OnlyDigits(ExpiryShown) = card.month \o PspYear(card.year)
    BY DEF PspGetsWhatIsShown
  <2>1. OnlyDigits(ExpiryShown) = card.month \o Drop(card.year, 2)
    BY ShownIsKept DEF FormInv, ExpiryDigits
  <2>2. PspYear(card.year) = Drop(card.year, 2)
    BY DEF PspYear
  <2> QED
    BY <2>1, <2>2
<1> QED
  BY <1>1, FormInvariance, PTL

\* What Continue lets through the backend's DTO accepts (luhn.ts).
THEOREM ServerAcceptsWhatContinueDoes == Spec => []AcceptedByServer
<1>1. FormInv => AcceptedByServer
  <2> SUFFICES ASSUME FormInv, CanContinue PROVE PayAccepts(card)
    BY DEF AcceptedByServer
  <2>1. card.installments \in 1..36
    <3>1. card.installments \in 1..MaxInstallments
      BY DEF FormInv, TypeOK
    <3>2. MaxInstallments \in 1..36
      BY FormAssumption
    <3> QED
      BY <3>1, <3>2
  <2>2. luhnCheck(card.number) /\ card.holder
    BY DEF CanContinue, isValidCardNumber, luhnCheck
  <2>3. IsMonth(card.month) /\ IsYear(card.year)
    BY DEF CanContinue, isFutureExpiration
  <2>4. Len(card.cvc) \in 3..4
    BY DEF CanContinue, isValidCvc
  <2> QED
    BY <2>1, <2>2, <2>3, <2>4 DEF PayAccepts
<1> QED
  BY <1>1, FormInvariance, PTL

--------------------------------------------------------------------------------
(* The brand                                                                  *)

\* One more digit.
LEMMA ShiftOnce ==
  \A n \in Nat : \A d \in Ten : ShiftOp[<<n, d>>] = 10 * n + d /\ 10 * n + d \in Nat
<1> SUFFICES ASSUME NEW n \in Nat, NEW d \in Ten
             PROVE  ShiftOp[<<n, d>>] = 10 * n + d /\ 10 * n + d \in Nat
  OBVIOUS
<1>1. 10 * n + d \in Nat
  BY DEF Ten
<1> QED
  BY <1>1 DEF ShiftOp

\* A number of four digits.
LEMMA NumeralOfFour ==
  ASSUME NEW a \in Ten, NEW b \in Ten, NEW c \in Ten, NEW d \in Ten
  PROVE  Numeral(<<a, b, c, d>>) = 1000 * a + 100 * b + 10 * c + d
<1> DEFINE s == <<a, b, c, d>>
<1>1. s \in Seq(Ten) /\ Len(s) = 4 /\ s[1] = a /\ s[2] = b /\ s[3] = c /\ s[4] = d
  OBVIOUS
<1> HIDE DEF s
<1>2. PICK p : Through(p, Nat, ShiftOp, 0, s) /\ Numeral(s) = p[Len(s)]
  BY <1>1, NumeralThrough
<1>3. p[0] = 0 /\ \A i \in 1..4 : p[i] = ShiftOp[<<p[i - 1], s[i]>>]
  BY <1>1, <1>2 DEF Through
<1>4. /\ 1 \in 1..4 /\ 2 \in 1..4 /\ 3 \in 1..4 /\ 4 \in 1..4
      /\ 1 - 1 = 0 /\ 2 - 1 = 1 /\ 3 - 1 = 2 /\ 4 - 1 = 3
  OBVIOUS
<1>5. p[1] = 10 * 0 + a /\ p[1] \in Nat
  BY <1>1, <1>3, <1>4, ShiftOnce
<1>6. p[2] = 10 * p[1] + b /\ p[2] \in Nat
  BY <1>1, <1>3, <1>4, <1>5, ShiftOnce
<1>7. p[3] = 10 * p[2] + c /\ p[3] \in Nat
  BY <1>1, <1>3, <1>4, <1>6, ShiftOnce
<1>8. p[4] = 10 * p[3] + d
  BY <1>1, <1>3, <1>4, <1>7, ShiftOnce
<1>9. /\ a \in Int /\ b \in Int /\ c \in Int /\ d \in Int
      /\ Numeral(s) = p[4]
  BY <1>1, <1>2 DEF Ten
<1>10. p[4] = 1000 * a + 100 * b + 10 * c + d
  BY <1>5, <1>6, <1>7, <1>8, <1>9
<1> QED
  BY <1>9, <1>10 DEF s

\* A longer number has the brand of its beginning, if that has one.
LEMMA BrandOfLonger ==
  ASSUME NEW s \in Seq(Digits), NEW t \in Seq(Digits), Lengthened(s, t),
         detectCardBrand(s) # "unknown"
  PROVE  detectCardBrand(t) = detectCardBrand(s)
<1>1. Len(s) \in Nat /\ Len(t) \in Nat /\ Len(t) > Len(s)
  BY DEF Lengthened
<1>2. \A i \in 1..Len(s) : t[i] = s[i]
  <2>1. Take(t, Len(s)) = s /\ Len(s) \in Nat
    BY <1>1 DEF Lengthened
  <2>2. \A i \in 1..Len(Take(t, Len(s))) : Take(t, Len(s))[i] = t[i]
    BY <2>1, TakeAndDrop
  <2> QED
    BY <2>1, <2>2
<1>3. s # << >>
  BY DEF detectCardBrand
<1>4. Len(s) >= 1 /\ t # << >> /\ t[1] = s[1]
  BY <1>1, <1>2, <1>3, EmptySeq
<1>5. Len(s) >= 2 => t[2] = s[2] /\ Len(t) >= 2
  BY <1>1, <1>2
<1>6. ASSUME Len(s) >= 4 PROVE Take(t, 4) = Take(s, 4)
  <2>0. 4 \in Nat /\ ~ (Len(s) < 4) /\ ~ (Len(t) < 4)
    BY <1>1, <1>6
  <2>1. /\ Take(s, 4) \in Seq(Digits) /\ Len(Take(s, 4)) = 4
        /\ \A i \in 1..4 : Take(s, 4)[i] = s[i]
    <3>1. /\ Take(s, 4) \in Seq(Digits)
          /\ Len(Take(s, 4)) = (IF Len(s) < 4 THEN Len(s) ELSE 4)
          /\ \A i \in 1..Len(Take(s, 4)) : Take(s, 4)[i] = s[i]
      BY <2>0, TakeAndDrop
    <3> QED
      BY <2>0, <3>1
  <2>2. /\ Take(t, 4) \in Seq(Digits) /\ Len(Take(t, 4)) = 4
        /\ \A i \in 1..4 : Take(t, 4)[i] = t[i]
    <3>1. /\ Take(t, 4) \in Seq(Digits)
          /\ Len(Take(t, 4)) = (IF Len(t) < 4 THEN Len(t) ELSE 4)
          /\ \A i \in 1..Len(Take(t, 4)) : Take(t, 4)[i] = t[i]
      BY <2>0, TakeAndDrop
    <3> QED
      BY <2>0, <3>1
  <2>3. \A i \in 1..4 : Take(t, 4)[i] = Take(s, 4)[i]
    BY <1>1, <1>2, <1>6, <2>1, <2>2
  <2> QED
    <3> DEFINE u == Take(s, 4)
               v == Take(t, 4)
    <3>1. /\ u \in Seq(Digits) /\ Len(u) = 4 /\ v \in Seq(Digits) /\ Len(v) = 4
          /\ \A i \in 1..4 : v[i] = u[i]
      BY <2>1, <2>2, <2>3
    <3> HIDE DEF u, v
    <3>2. v = u
      BY <3>1, SeqEqual
    <3> QED
      BY <3>2 DEF u, v
<1>7. CASE s[1] = 4
  BY <1>3, <1>4, <1>7 DEF detectCardBrand
<1>8. CASE s[1] # 4
  <2>1. detectCardBrand(s) = "mastercard"
    BY <1>8 DEF detectCardBrand
  <2>2. \/ Len(s) >= 2 /\ s[1] = 5 /\ s[2] \in 1..5
        \/ Len(s) >= 4 /\ Numeral(Take(s, 4)) \in 2221..2720
    BY <1>8 DEF detectCardBrand
  <2>3. \/ Len(t) >= 2 /\ t[1] = 5 /\ t[2] \in 1..5
        \/ Len(t) >= 4 /\ Numeral(Take(t, 4)) \in 2221..2720
    <3>1. CASE Len(s) >= 2 /\ s[1] = 5 /\ s[2] \in 1..5
      BY <1>4, <1>5, <3>1
    <3>2. CASE Len(s) >= 4 /\ Numeral(Take(s, 4)) \in 2221..2720
      BY <1>1, <1>6, <3>2
    <3> QED
      BY <2>2, <3>1, <3>2
  <2> QED
    BY <1>4, <1>8, <2>1, <2>3 DEF detectCardBrand
<1> QED
  BY <1>7, <1>8

\* A brand, once shown, stays while digits are added at the end (brand.ts).
THEOREM BrandStays == Spec => BrandIsKept
<1>1. FormInv /\ FormInv' =>
        (Lengthened(card.number, card.number') /\ detectCardBrand(card.number) # "unknown" =>
           detectCardBrand(card.number') = detectCardBrand(card.number))
  BY BrandOfLonger DEF FormInv, TypeOK
<1> QED
  BY <1>1, FormInvariance, PTL DEF BrandIsKept

--------------------------------------------------------------------------------
(* The expiry                                                                 *)

\* The day before New Year's Day of a year.
NewYear(y) == 365 * y + (y - 1) \div 4 - 15

\* The years of this century, the months from the one before January, the days from the
\* one before the first.
Century   == 2000..2099
MonthsEnd == 0..12
DaysEnd   == 0..31

\* The calendar of this century: every fourth year is a leap year.
LEMMA LeapYears ==
  ASSUME NEW y \in Century
  PROVE  /\ IsLeap(y) <=> y % 4 = 0
         /\ NewYear(y + 1) = NewYear(y) + 365 + (IF IsLeap(y) THEN 1 ELSE 0)
         /\ NewYear(y) \in Int
<1> USE DEF Century
<1>1. y % 4 = 0 => y % 100 # 0 \/ y % 400 = 0
  OBVIOUS
<1>2. IsLeap(y) <=> y % 4 = 0
  BY <1>1 DEF IsLeap
<1>3. ((y + 1) - 1) \div 4 = (y - 1) \div 4 + (IF y % 4 = 0 THEN 1 ELSE 0)
  OBVIOUS
<1> QED
  BY <1>2, <1>3 DEF NewYear

\* The days of a year before one of its months.
Before(y, m) ==
  IF m = 12 THEN 365 + (IF IsLeap(y) THEN 1 ELSE 0)
            ELSE DaysBefore[m + 1] + (IF IsLeap(y) /\ m >= 2 THEN 1 ELSE 0)

\* Later months of a year have more days before them, and the year has 365 or 366.
LEMMA MonthsInOrder ==
  ASSUME NEW y, NEW m \in MonthsEnd, NEW n \in MonthsEnd, m <= n
  PROVE  /\ Before(y, m) \in Nat /\ Before(y, m) <= Before(y, n)
         /\ Before(y, 0) = 0 /\ Before(y, 12) = 365 + (IF IsLeap(y) THEN 1 ELSE 0)
<1> USE DEF MonthsEnd
<1> DEFINE leap == IsLeap(y)
<1>1. /\ \A k \in 0..12 : Before(y, k) =
           IF k = 12 THEN 365 + (IF leap THEN 1 ELSE 0)
                     ELSE DaysBefore[k + 1] + (IF leap /\ k >= 2 THEN 1 ELSE 0)
  BY DEF Before
<1> HIDE DEF leap
<1>2. /\ Before(y, 0) = 0 /\ Before(y, 1) = 31
      /\ Before(y, 2) = 59 + (IF leap THEN 1 ELSE 0)
      /\ Before(y, 3) = 90 + (IF leap THEN 1 ELSE 0)
      /\ Before(y, 4) = 120 + (IF leap THEN 1 ELSE 0)
      /\ Before(y, 5) = 151 + (IF leap THEN 1 ELSE 0)
      /\ Before(y, 6) = 181 + (IF leap THEN 1 ELSE 0)
      /\ Before(y, 7) = 212 + (IF leap THEN 1 ELSE 0)
      /\ Before(y, 8) = 243 + (IF leap THEN 1 ELSE 0)
      /\ Before(y, 9) = 273 + (IF leap THEN 1 ELSE 0)
      /\ Before(y, 10) = 304 + (IF leap THEN 1 ELSE 0)
      /\ Before(y, 11) = 334 + (IF leap THEN 1 ELSE 0)
      /\ Before(y, 12) = 365 + (IF leap THEN 1 ELSE 0)
  BY <1>1 DEF DaysBefore
<1> QED
  BY <1>2 DEF leap

\* Date counts the days before the year, before the month, and in the month.
LEMMA DateIs ==
  ASSUME NEW y \in Century, NEW m \in MonthsEnd, NEW d \in DaysEnd
  PROVE  Date(y, m, d) = NewYear(y) + Before(y, m) + d
<1> USE DEF Century, MonthsEnd, DaysEnd
<1>1. CASE m \in 0..11
  <2>1. y + m \div 12 = y /\ m % 12 = m
    BY <1>1
  <2>2. (y - 1) \div 400 - (y - 1) \div 100 = 0 - 15
    OBVIOUS
  <2>3. DaysBefore[m + 1] \in Int
    BY <1>1 DEF DaysBefore
  <2>4. Before(y, m) = DaysBefore[m + 1] + (IF IsLeap(y) /\ m >= 2 THEN 1 ELSE 0)
    BY <1>1 DEF Before
  <2>5. Date(y, m, d) =
          365 * y + (y - 1) \div 4 - (y - 1) \div 100 + (y - 1) \div 400
            + DaysBefore[m + 1] + (IF IsLeap(y) /\ m >= 2 THEN 1 ELSE 0) + d
    BY <2>1 DEF Date
  <2> DEFINE q4   == (y - 1) \div 4
             q100 == (y - 1) \div 100
             q400 == (y - 1) \div 400
             b    == DaysBefore[m + 1]
             leap == IF IsLeap(y) /\ m >= 2 THEN 1 ELSE 0
  <2>6. q4 \in Int /\ q100 \in Int /\ q400 \in Int /\ leap \in Int
    OBVIOUS
  <2> HIDE DEF q4, q100, q400, b, leap
  <2> QED
    BY <2>2, <2>3, <2>4, <2>5, <2>6 DEF NewYear, q4, q100, q400, b, leap
<1>2. CASE m = 12
  <2>1. y + m \div 12 = y + 1 /\ m % 12 = 0
    BY <1>2
  <2>2. ((y + 1) - 1) \div 400 - ((y + 1) - 1) \div 100 = 0 - 15
    OBVIOUS
  <2>3. DaysBefore[0 + 1] = 0
    BY DEF DaysBefore
  <2>4. NewYear(y + 1) = NewYear(y) + Before(y, m)
    BY <1>2, LeapYears, MonthsInOrder
  <2> DEFINE q4   == ((y + 1) - 1) \div 4
             q100 == ((y + 1) - 1) \div 100
             q400 == ((y + 1) - 1) \div 400
  <2>5. Date(y, m, d) = 365 * (y + 1) + q4 - q100 + q400 + 0 + 0 + d
    BY <2>1, <2>3 DEF Date
  <2>6. q4 \in Int /\ q100 \in Int /\ q400 \in Int
    OBVIOUS
  <2>7. q400 - q100 = 0 - 15 /\ NewYear(y + 1) = 365 * (y + 1) + q4 - 15
    BY <2>2 DEF NewYear
  <2> HIDE DEF q4, q100, q400
  <2>8. Date(y, m, d) = NewYear(y + 1) + d
    BY <2>5, <2>6, <2>7
  <2> QED
    BY <2>4, <2>8
<1> QED
  BY <1>1, <1>2

\* Month m of year y is not after month n of year z.
UpTo(y, m, z, n) == 12 * y + m <= 12 * z + n

\* The day before a month begins, and the numbers it is the sum of.
LEMMA MonthBegins ==
  ASSUME NEW y \in Century, NEW m \in MonthsEnd
  PROVE  /\ Date(y, m, 0) = NewYear(y) + Before(y, m)
         /\ NewYear(y) \in Int /\ Before(y, m) \in Nat /\ Date(y, m, 0) \in Int
<1>1. 0 \in DaysEnd /\ m <= m
  BY DEF DaysEnd, MonthsEnd
<1>2. Date(y, m, 0) = NewYear(y) + Before(y, m) + 0
  BY <1>1, DateIs
<1>3. NewYear(y) \in Int /\ Before(y, m) \in Nat
  BY <1>1, LeapYears, MonthsInOrder
<1> QED
  BY <1>2, <1>3

\* Later months begin later.
LEMMA MonthsFollow ==
  ASSUME NEW y \in Century, NEW m \in MonthsEnd, NEW z \in Century, NEW n \in MonthsEnd,
         UpTo(y, m, z, n)
  PROVE  Date(y, m, 0) <= Date(z, n, 0)
<1>0. /\ y \in 2000..2099 /\ z \in 2000..2099 /\ m \in 0..12 /\ n \in 0..12
      /\ 12 * y + m <= 12 * z + n
      /\ 0 \in MonthsEnd /\ 12 \in MonthsEnd
  BY DEF Century, MonthsEnd, UpTo
<1>1. /\ Date(y, m, 0) = NewYear(y) + Before(y, m) /\ Date(z, n, 0) = NewYear(z) + Before(z, n)
      /\ NewYear(y) \in Int /\ NewYear(z) \in Int
      /\ Before(y, m) \in Nat /\ Before(z, n) \in Nat
  BY MonthBegins
<1>2. CASE y = z
  <2>1. m <= n
    BY <1>0, <1>2
  <2> QED
    BY <1>1, <1>2, <2>1, MonthsInOrder
<1>3. CASE y < z
  <2>1. Before(y, m) <= Before(y, 12)
    BY <1>0, MonthsInOrder
  <2>2. NewYear(y + 1) = NewYear(y) + Before(y, 12) /\ Before(y, 12) \in Int
    BY <1>0, LeapYears, MonthsInOrder
  <2>3. NewYear(y + 1) <= NewYear(z) /\ NewYear(y + 1) \in Int
    BY <1>0, <1>3 DEF NewYear
  <2> QED
    BY <1>0, <1>1, <2>1, <2>2, <2>3
<1>4. CASE y > z
  <2>1. y = z + 1 /\ m = 0 /\ n = 12
    BY <1>0, <1>4
  <2>2. Before(y, 0) = 0
    BY <1>0, MonthsInOrder
  <2>3. NewYear(z + 1) = NewYear(z) + Before(z, 12)
    BY <1>0, LeapYears, MonthsInOrder
  <2> QED
    BY <1>0, <1>1, <2>1, <2>2, <2>3
<1> QED
  BY <1>0, <1>2, <1>3, <1>4

\* A day is in its month: after the end of every month before and not after the end
\* of this one or of a later one.
LEMMA DayInMonth ==
  ASSUME NEW y \in Century, NEW m \in 1..12, NEW z \in Century, NEW n \in 1..12,
         NEW d \in 1..31, Date(z, n - 1, d) <= Date(z, n, 0)
  PROVE  Date(y, m, 0) >= Date(z, n - 1, d) <=> UpTo(z, n, y, m)
<1>0. y \in 2000..2099 /\ z \in 2000..2099 /\ n - 1 \in MonthsEnd /\ m \in MonthsEnd /\ n \in MonthsEnd
  BY DEF Century, MonthsEnd
<1>1. /\ Date(y, m, 0) \in Int /\ Date(z, n, 0) \in Int
      /\ Date(z, n - 1, 0) = NewYear(z) + Before(z, n - 1)
      /\ NewYear(z) \in Int /\ Before(z, n - 1) \in Nat /\ Date(z, n - 1, 0) \in Int
  BY <1>0, MonthBegins
<1>2. Date(z, n - 1, d) = Date(z, n - 1, 0) + d
  <2>1. d \in DaysEnd
    BY DEF DaysEnd
  <2>2. Date(z, n - 1, d) = NewYear(z) + Before(z, n - 1) + d
    BY <1>0, <2>1, DateIs
  <2> QED
    BY <1>1, <2>2
<1>3. CASE UpTo(z, n, y, m)
  <2>1. Date(z, n, 0) <= Date(y, m, 0)
    BY <1>0, <1>3, MonthsFollow
  <2> QED
    BY <1>1, <1>2, <1>3, <2>1
<1>4. CASE ~ UpTo(z, n, y, m)
  <2>1. UpTo(y, m, z, n - 1)
    BY <1>0, <1>4 DEF UpTo
  <2>2. Date(y, m, 0) <= Date(z, n - 1, 0)
    BY <1>0, <2>1, MonthsFollow
  <2> QED
    BY <1>1, <1>2, <1>4, <2>2
<1> QED
  BY <1>3, <1>4

\* A card is good through the last day of its month (expiration.ts), in every month of
\* the century and on every day of the calendar.
THEOREM CardsAreGoodThroughTheirMonth == Spec => []GoodThroughItsMonth
<1>1. FormInv => GoodThroughItsMonth
  <2> SUFFICES ASSUME FormInv, IsMonth(card.month), IsYear(card.year)
               PROVE  isFutureExpiration(card.month, card.year) <=>
                        12 * Numeral(card.year) + Numeral(card.month) >=
                          12 * Today.year + Today.month
    BY DEF GoodThroughItsMonth
  <2>1. Numeral(card.month) \in 1..12
    BY DEF IsMonth
  <2>2. Numeral(card.year) \in 2000..2099
    <3>1. PICK a, b \in Digits : card.year = <<2, 0, a, b>>
      BY DEF FormInv, IsYear
    <3>2. a \in Ten /\ b \in Ten /\ 2 \in Ten /\ 0 \in Ten
      BY DigitsAre
    <3>3. Numeral(<<2, 0, a, b>>) = 1000 * 2 + 100 * 0 + 10 * a + b
      BY <3>2, NumeralOfFour
    <3>4. a \in 0..9 /\ b \in 0..9
      BY <3>2 DEF Ten
    <3> QED
      BY <3>1, <3>3, <3>4
  <2>3. /\ Today \in Range(Calendar)
        /\ Today.year \in 2000..2099 /\ Today.month \in 1..12 /\ Today.day \in 1..31
    <3>1. /\ now \in DOMAIN Calendar
          /\ Calendar \in Seq([year: 2000..2099, month: 1..12, day: 1..31])
      BY FormAssumption DEF FormInv, TypeOK
    <3>2. Today \in [year: 2000..2099, month: 1..12, day: 1..31]
      <4> DEFINE D == [year: 2000..2099, month: 1..12, day: 1..31]
      <4>1. now \in DOMAIN Calendar /\ Calendar \in Seq(D)
        BY <3>1
      <4> HIDE DEF D
      <4>2. Today \in D
        BY <4>1 DEF Today
      <4> QED
        BY <4>2 DEF D
    <3> QED
      BY <3>1, <3>2 DEF Today, Range
  <2>4. Date(Today.year, Today.month - 1, Today.day) <= Date(Today.year, Today.month, 0)
    BY <2>3, CalendarAssumption
  <2> DEFINE y == Numeral(card.year)
             m == Numeral(card.month)
             z == Today.year
             n == Today.month
             d == Today.day
  <2>5. isFutureExpiration(card.month, card.year) <=> Date(y, m, 0) >= Date(z, n - 1, d)
    BY DEF isFutureExpiration, ExpiresAt
  <2> HIDE DEF y, m, z, n, d
  <2>6. Date(y, m, 0) >= Date(z, n - 1, d) <=> UpTo(z, n, y, m)
    <3>1. /\ y \in Century /\ m \in 1..12 /\ z \in Century /\ n \in 1..12
          /\ d \in 1..31 /\ Date(z, n - 1, d) <= Date(z, n, 0)
      BY <2>1, <2>2, <2>3, <2>4 DEF y, m, z, n, d, Century
    <3> QED
      BY <3>1, DayInMonth
  <2>7. y \in Int /\ m \in Int /\ z \in Int /\ n \in Int
    BY <2>1, <2>2, <2>3 DEF y, m, z, n
  <2>8. isFutureExpiration(card.month, card.year) <=> 12 * y + m >= 12 * z + n
    BY <2>5, <2>6, <2>7 DEF UpTo
  <2> QED
    BY <2>8 DEF y, m, z, n
<1> QED
  BY <1>1, FormInvariance, PTL

--------------------------------------------------------------------------------
(* The card number                                                            *)

\* One more number.
LEMMA AddOnce == \A a \in Int : \A b \in Int : AddOp[<<a, b>>] = a + b
  BY DEF AddOp

\* One number of a sum is changed.
LEMMA TotalOfChanged ==
  ASSUME NEW w \in Seq(Int), NEW k \in 1..Len(w), NEW e \in Int
  PROVE  /\ Total([w EXCEPT ![k] = e]) = Total(w) - w[k] + e
         /\ Total(w) \in Int
<1> DEFINE v == [w EXCEPT ![k] = e]
           n == Len(w)
<1>1. /\ v \in Seq(Int) /\ Len(v) = n /\ n \in Nat
      /\ \A i \in 1..n : w[i] \in Int /\ v[i] = IF i = k THEN e ELSE w[i]
  OBVIOUS
<1> HIDE DEF v
<1>2. PICK p : Through(p, Int, AddOp, 0, w) /\ Total(w) = p[Len(w)]
  BY TotalThrough
<1>3. PICK q : Through(q, Int, AddOp, 0, v) /\ Total(v) = q[Len(v)]
  BY <1>1, TotalThrough
<1>4. /\ p[0] = 0 /\ q[0] = 0
      /\ \A i \in 0..n : p[i] \in Int /\ q[i] \in Int
      /\ \A i \in 1..n : p[i] = AddOp[<<p[i - 1], w[i]>>] /\ q[i] = AddOp[<<q[i - 1], v[i]>>]
  BY <1>1, <1>2, <1>3 DEF Through
<1> HIDE DEF n
<1>5. \A i \in 1..n : p[i] = p[i - 1] + w[i] /\ q[i] = q[i - 1] + (IF i = k THEN e ELSE w[i])
  <2> SUFFICES ASSUME NEW i \in 1..n
               PROVE  p[i] = p[i - 1] + w[i] /\ q[i] = q[i - 1] + (IF i = k THEN e ELSE w[i])
    OBVIOUS
  <2>1. i - 1 \in 0..n
    BY <1>1
  <2>2. p[i - 1] \in Int /\ q[i - 1] \in Int /\ w[i] \in Int /\ v[i] \in Int
    BY <1>1, <1>4, <2>1
  <2>3. p[i] = AddOp[<<p[i - 1], w[i]>>] /\ q[i] = AddOp[<<q[i - 1], v[i]>>]
    BY <1>4
  <2>4. p[i] = p[i - 1] + w[i] /\ q[i] = q[i - 1] + v[i]
    BY <2>2, <2>3, AddOnce
  <2> QED
    BY <1>1, <2>4
<1>6. k \in 1..n /\ w[k] \in Int
  BY <1>1 DEF n
<1> DEFINE G == {i \in Nat : i <= n => q[i] = p[i] + (IF i < k THEN 0 ELSE e - w[k])}
<1>7. 0 \in G
  <2>1. 0 < k /\ 0 \in Nat /\ 0 = 0 + 0
    BY <1>1, <1>6
  <2> QED
    BY <1>4, <2>1
<1>8. ASSUME NEW i \in Nat, i \in G PROVE i + 1 \in G
  <2> SUFFICES ASSUME i + 1 <= n
               PROVE  q[i + 1] = p[i + 1] + (IF i + 1 < k THEN 0 ELSE e - w[k])
    OBVIOUS
  <2>1. i + 1 \in 1..n /\ i \in 0..n /\ (i + 1) - 1 = i
    BY <1>1
  <2>2. q[i] = p[i] + (IF i < k THEN 0 ELSE e - w[k])
    BY <1>8, <2>1
  <2>3. p[i + 1] = p[i] + w[i + 1] /\ q[i + 1] = q[i] + (IF i + 1 = k THEN e ELSE w[i + 1])
    BY <1>5, <2>1
  <2>4. p[i] \in Int /\ w[i + 1] \in Int
    BY <1>1, <1>4, <2>1
  <2>5. CASE i + 1 = k
    <3>1. q[i + 1] = p[i] + e /\ p[i + 1] = p[i] + w[k] /\ i < k /\ ~ (i + 1 < k)
      BY <2>2, <2>3, <2>4, <2>5
    <3> QED
      BY <1>6, <2>4, <3>1
  <2>6. CASE i + 1 # k
    <3> DEFINE c == IF i < k THEN 0 ELSE e - w[k]
    <3>1. (i < k <=> i + 1 < k) /\ q[i + 1] = q[i] + w[i + 1]
      BY <1>6, <2>3, <2>6
    <3>2. c \in Int /\ c = IF i + 1 < k THEN 0 ELSE e - w[k]
      BY <1>6, <3>1
    <3>3. q[i] = p[i] + c
      BY <2>2
    <3> DEFINE a == p[i]
               b == w[i + 1]
    <3>4. q[i + 1] = (a + c) + b /\ p[i + 1] = a + b
      BY <2>3, <3>1, <3>3
    <3>5. a \in Int /\ b \in Int
      BY <2>4
    <3> HIDE DEF a, b, c
    <3>6. (a + c) + b = (a + b) + c
      BY <3>2, <3>5
    <3> QED
      BY <3>2, <3>4, <3>6
  <2> QED
    BY <2>5, <2>6
<1>9. n \in G
  <2> HIDE DEF G
  <2> QED
    BY <1>1, <1>7, <1>8, NatSetInduction
<1>10. q[n] = p[n] + (e - w[k]) /\ p[n] \in Int
  BY <1>1, <1>4, <1>6, <1>9
<1>11. Total(w) = p[n] /\ Total(v) = q[n]
  BY <1>1, <1>2, <1>3 DEF n
<1> QED
  BY <1>6, <1>10, <1>11 DEF v

\* What a digit adds to the sum, at a place with so many others to its right.
Weight(right, d) == IF right % 2 = 1 THEN Doubled(d) ELSE d

\* Different digits have different weights, of one digit each,
LEMMA WeightsDiffer ==
  ASSUME NEW right \in Nat, NEW a \in Ten, NEW b \in Ten
  PROVE  /\ Weight(right, a) \in 0..9 /\ Weight(right, b) \in 0..9
         /\ a # b => Weight(right, a) # Weight(right, b)
<1>1. right % 2 \in 0..1
  OBVIOUS
<1> QED
  BY <1>1 DEF Weight, Doubled, Ten

\* and of two neighbours exactly one is doubled, so that it matters which is first.
LEMMA NeighboursDiffer ==
  ASSUME NEW right \in Nat, NEW a \in Ten, NEW b \in Ten, a # b, {a, b} # {0, 9}
  PROVE  (Weight(right + 1, b) - Weight(right + 1, a)) + (Weight(right, a) - Weight(right, b))
           \in (-9..9) \ {0}
<1>1. /\ a \in 0..9 /\ b \in 0..9 /\ a # b /\ ~ (a = 0 /\ b = 9) /\ ~ (a = 9 /\ b = 0)
  BY DEF Ten
<1>2. /\ Doubled(a) = (IF 2 * a > 9 THEN 2 * a - 9 ELSE 2 * a)
      /\ Doubled(b) = (IF 2 * b > 9 THEN 2 * b - 9 ELSE 2 * b)
  BY DEF Doubled
<1>3. CASE right % 2 = 1
  <2>1. (right + 1) % 2 = 0
    BY <1>3
  <2>2. /\ Weight(right + 1, b) = b /\ Weight(right + 1, a) = a
        /\ Weight(right, a) = Doubled(a) /\ Weight(right, b) = Doubled(b)
    BY <1>3, <2>1 DEF Weight
  <2> QED
    BY <1>1, <1>2, <2>2
<1>4. CASE right % 2 # 1
  <2>1. (right + 1) % 2 = 1
    BY <1>4
  <2>2. /\ Weight(right + 1, b) = Doubled(b) /\ Weight(right + 1, a) = Doubled(a)
        /\ Weight(right, a) = a /\ Weight(right, b) = b
    BY <1>4, <2>1 DEF Weight
  <2> QED
    BY <1>1, <1>2, <2>2
<1> QED
  BY <1>3, <1>4

\* The check sum of a number with one digit changed.
LEMMA LuhnOfChanged ==
  ASSUME NEW s \in Seq(Digits), NEW i \in 1..Len(s), NEW d \in Digits
  PROVE  /\ LuhnSum([s EXCEPT ![i] = d]) =
              LuhnSum(s) - Weight(Len(s) - i, s[i]) + Weight(Len(s) - i, d)
         /\ LuhnSum(s) \in Int
         /\ [s EXCEPT ![i] = d] \in Seq(Digits) /\ Len([s EXCEPT ![i] = d]) = Len(s)
<1> DEFINE n == Len(s)
           t == [s EXCEPT ![i] = d]
           w == [j \in 1..n |-> Weight(n - j, s[j])]
           v == [j \in 1..n |-> Weight(n - j, t[j])]
<1>1. /\ n \in Nat /\ DOMAIN s = 1..n /\ i \in 1..n
      /\ t \in Seq(Digits) /\ Len(t) = n /\ DOMAIN t = 1..n
      /\ \A j \in 1..n : s[j] \in Digits /\ t[j] = IF j = i THEN d ELSE s[j]
  OBVIOUS
<1> HIDE DEF n, t
<1>2. \A j \in 1..n : Weight(n - j, s[j]) \in Int /\ Weight(n - j, d) \in Int
  <2> SUFFICES ASSUME NEW j \in 1..n
               PROVE  Weight(n - j, s[j]) \in Int /\ Weight(n - j, d) \in Int
    OBVIOUS
  <2>1. n - j \in Nat /\ s[j] \in Ten /\ d \in Ten
    BY <1>1, DigitsAre
  <2>2. Weight(n - j, s[j]) \in 0..9 /\ Weight(n - j, d) \in 0..9
    BY <2>1, WeightsDiffer
  <2> QED
    BY <2>2
<1>3. w \in Seq(Int) /\ Len(w) = n
  BY <1>1, <1>2, IsASeq
<1>4. v = [w EXCEPT ![i] = Weight(n - i, d)]
  BY <1>1
<1>5. Weighted(s) = w /\ Weighted(t) = v
  <2>1. Weighted(s) = [j \in 1..n |-> IF (n - j) % 2 = 1 THEN Doubled(s[j]) ELSE s[j]]
    BY <1>1 DEF Weighted, n
  <2>2. Weighted(t) = [j \in 1..n |-> IF (n - j) % 2 = 1 THEN Doubled(t[j]) ELSE t[j]]
    BY <1>1 DEF Weighted
  <2> QED
    BY <2>1, <2>2 DEF Weight
<1>6. LuhnSum(s) = Total(w) /\ LuhnSum(t) = Total(v)
  BY <1>5 DEF LuhnSum, Total
<1>7. w[i] = Weight(n - i, s[i])
  BY <1>1
<1> HIDE DEF w, v
<1>8. Total(v) = Total(w) - w[i] + Weight(n - i, d) /\ Total(w) \in Int
  BY <1>1, <1>2, <1>3, <1>4, TotalOfChanged
<1> QED
  BY <1>1, <1>6, <1>7, <1>8 DEF n, t

\* A sum that is off by one digit is not divisible by ten.
LEMMA OffByADigit ==
  ASSUME NEW x \in Int, NEW e \in (-9..9) \ {0}, x % 10 = 0
  PROVE  (x + e) % 10 # 0
  OBVIOUS

\* One mistyped digit is caught,
LEMMA WrongDigit ==
  ASSUME NEW s \in Seq(Digits), isValidCardNumber(s),
         NEW i \in 1..Len(s), NEW d \in Digits \ {s[i]}
  PROVE  ~ isValidCardNumber([s EXCEPT ![i] = d])
<1> DEFINE right == Len(s) - i
           t     == [s EXCEPT ![i] = d]
           a     == Weight(right, s[i])
           b     == Weight(right, d)
<1>1. right \in Nat /\ s[i] \in Ten /\ d \in Ten /\ d # s[i]
  BY DigitsAre
<1>2. LuhnSum(t) = LuhnSum(s) - a + b /\ LuhnSum(s) \in Int
  BY LuhnOfChanged
<1> HIDE DEF right, t
<1>3. a \in 0..9 /\ b \in 0..9 /\ a # b
  BY <1>1, WeightsDiffer
<1> HIDE DEF a, b
<1>4. b - a \in (-9..9) \ {0} /\ LuhnSum(t) = LuhnSum(s) + (b - a)
  BY <1>2, <1>3
<1>5. LuhnSum(s) % 10 = 0
  BY DEF isValidCardNumber
<1>6. LuhnSum(t) % 10 # 0
  BY <1>2, <1>4, <1>5, OffByADigit
<1> QED
  BY <1>6 DEF isValidCardNumber, t

\* and so are two neighbours that changed places.
LEMMA SwappedDigits ==
  ASSUME NEW s \in Seq(Digits), isValidCardNumber(s), NEW i \in 1..(Len(s) - 1),
         s[i] # s[i + 1], {s[i], s[i + 1]} # {0, 9}
  PROVE  ~ isValidCardNumber([s EXCEPT ![i] = s[i + 1], ![i + 1] = s[i]])
<1> DEFINE n == Len(s)
           a == s[i]
           b == s[i + 1]
           right == n - (i + 1)
           t == [s EXCEPT ![i] = b]
           u == [t EXCEPT ![i + 1] = a]
<1>1. /\ n \in Nat /\ i \in 1..n /\ i + 1 \in 1..n /\ right \in Nat /\ n - i = right + 1
      /\ a \in Digits /\ b \in Digits
  OBVIOUS
<1>2. a \in Ten /\ b \in Ten
  BY <1>1, DigitsAre
<1>3. t[i + 1] = b
  BY <1>1
<1>4. /\ LuhnSum(t) = LuhnSum(s) - Weight(n - i, a) + Weight(n - i, b) /\ LuhnSum(s) \in Int
      /\ t \in Seq(Digits) /\ Len(t) = n
  BY <1>1, LuhnOfChanged
<1>5. a # b /\ {a, b} # {0, 9}
  OBVIOUS
<1>6. [s EXCEPT ![i] = s[i + 1], ![i + 1] = s[i]] = u
  OBVIOUS
<1>7. LuhnSum(s) % 10 = 0
  BY DEF isValidCardNumber
<1> HIDE DEF a, b, t, n
<1>8. LuhnSum(u) = LuhnSum(t) - Weight(n - (i + 1), t[i + 1]) + Weight(n - (i + 1), a)
  BY <1>1, <1>4, LuhnOfChanged
<1> DEFINE a1 == Weight(right + 1, a)
           b1 == Weight(right + 1, b)
           a0 == Weight(right, a)
           b0 == Weight(right, b)
<1> HIDE DEF right, u
<1>9. a1 \in 0..9 /\ b1 \in 0..9 /\ a0 \in 0..9 /\ b0 \in 0..9
  <2>1. right + 1 \in Nat
    BY <1>1
  <2> QED
    BY <1>1, <1>2, <2>1, WeightsDiffer
<1>10. (b1 - a1) + (a0 - b0) \in (-9..9) \ {0}
  BY <1>1, <1>2, <1>5, NeighboursDiffer
<1>11. LuhnSum(u) = LuhnSum(s) - a1 + b1 - b0 + a0
  <2>1. LuhnSum(t) = LuhnSum(s) - a1 + b1
    BY <1>1, <1>4
  <2>2. LuhnSum(u) = LuhnSum(t) - b0 + a0
    BY <1>3, <1>8 DEF right
  <2> HIDE DEF a1, b1, a0, b0
  <2> QED
    BY <1>4, <1>9, <2>1, <2>2
<1> HIDE DEF a1, b1, a0, b0
<1>12. LuhnSum(u) = LuhnSum(s) + ((b1 - a1) + (a0 - b0))
  BY <1>4, <1>9, <1>11
<1>13. LuhnSum(u) % 10 # 0
  BY <1>4, <1>7, <1>10, <1>12, OffByADigit
<1> QED
  BY <1>6, <1>13 DEF isValidCardNumber

\* A number with one wrong digit, or with two neighbours swapped (but for 09 and 90), is
\* never taken for a card's (luhn.ts, luhn.validator.ts), for numbers of any length.
THEOREM LuhnCatchesTypos == Spec => []TyposAreCaught
<1>1. FormInv => TyposAreCaught
  <2> SUFFICES ASSUME FormInv, isValidCardNumber(card.number) PROVE TyposAreCaught
    BY DEF TyposAreCaught
  <2>1. card.number \in Seq(Digits) /\ DOMAIN card.number = 1..Len(card.number)
    BY DEF FormInv, TypeOK
  <2>2. \A i \in DOMAIN card.number : \A d \in Digits \ {card.number[i]} :
          ~ isValidCardNumber([card.number EXCEPT ![i] = d])
    BY <2>1, WrongDigit
  <2>3. \A i \in 1..(Len(card.number) - 1) :
          LET a == card.number[i]
              b == card.number[i + 1]
          IN a # b /\ {a, b} # {0, 9} =>
               ~ isValidCardNumber([card.number EXCEPT ![i] = b, ![i + 1] = a])
    BY <2>1, SwappedDigits
  <2> QED
    BY <2>2, <2>3 DEF TyposAreCaught
<1> QED
  BY <1>1, FormInvariance, PTL
================================================================================
