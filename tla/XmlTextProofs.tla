---------------------------- MODULE XmlTextProofs ----------------------------
(***************************************************************************)
(* Loading a document loads what the text says: ParsesWhatIsThere of       *)
(* XmlParser, for every set of tokens, every text and every depth limit.   *)
(* What holds of the nodes while a text is read is taken from              *)
(* XmlParserProofs; here the tokens read so far are what the nodes in use, *)
(* and the elements that are open, list.                                   *)
(***************************************************************************)
EXTENDS XmlParserProofs, SequenceTheorems, FiniteSetTheorems

-----------------------------------------------------------------------------
(* Levels and the elements that are open in a text. *)

(* What no other member exceeds is the greatest one, and the other way. *)
LEMMA MaxIs ==
  ASSUME NEW S \in SUBSET Int, NEW x \in S
  PROVE  /\ (\A y \in S : x >= y) => Max(S) = x
         /\ (\A y \in S : x <= y) => Min(S) = x
<1>1. ASSUME \A y \in S : x >= y
      PROVE  Max(S) = x
  <2>1. Max(S) \in S /\ \A y \in S : Max(S) >= y
    BY <1>1 DEF Max
  <2>2. Max(S) \in Int /\ x \in Int /\ x >= Max(S) /\ Max(S) >= x
    BY <1>1, <2>1
  <2> QED
    BY <2>2
<1>2. ASSUME \A y \in S : x <= y
      PROVE  Min(S) = x
  <2>1. Min(S) \in S /\ \A y \in S : Min(S) <= y
    BY <1>2 DEF Min
  <2>2. Min(S) \in Int /\ x \in Int /\ x <= Min(S) /\ Min(S) <= x
    BY <1>2, <2>1
  <2> QED
    BY <2>2
<1> QED
  BY <1>1, <1>2

-----------------------------------------------------------------------------
(* Levels. *)

(* What a token does to the level. *)
Rise(tok) == IF tok.kind = "open" THEN 1 ELSE IF tok.kind = "close" THEN -1 ELSE 0

Standing(seq, kind, i) == {j \in 1 .. i - 1 : seq[j].kind = kind}

(* The tokens of one kind up to a place are finitely many. *)
LEMMA StandingCounted ==
  ASSUME NEW seq, NEW kind, NEW i \in Nat \ {0}
  PROVE  /\ Cardinality(Standing(seq, kind, 1)) = 0
         /\ Cardinality(Standing(seq, kind, i)) \in Nat
         /\ Cardinality(Standing(seq, kind, i + 1))
              = Cardinality(Standing(seq, kind, i)) + (IF seq[i].kind = kind THEN 1 ELSE 0)
<1>. DEFINE A == Standing(seq, kind, i)
            B == Standing(seq, kind, i + 1)
<1>1. Standing(seq, kind, 1) = {}
  BY DEF Standing
<1>2. IsFiniteSet(A)
  <2>1. IsFiniteSet(1 .. i - 1) /\ A \subseteq 1 .. i - 1
    BY FS_Interval DEF Standing
  <2> QED
    BY <2>1, FS_Subset
<1>3. B = IF seq[i].kind = kind THEN A \union {i} ELSE A
  <2>1. \A j : j \in 1 .. (i + 1) - 1 <=> j \in 1 .. i - 1 \/ j = i
    OBVIOUS
  <2> QED
    BY <2>1 DEF Standing
<1>4. i \notin A
  BY DEF Standing
<1> HIDE DEF A, B
<1>5. Cardinality(A) \in Nat
  BY <1>2, FS_CardinalityType
<1>6. Cardinality(A \union {i}) = Cardinality(A) + 1
  BY <1>2, <1>4, FS_AddElement
<1>7. Cardinality(B) = Cardinality(A) + (IF seq[i].kind = kind THEN 1 ELSE 0)
  BY <1>3, <1>5, <1>6
<1> QED
  BY <1>1, <1>5, <1>7, FS_EmptySet DEF A, B

(* Each token moves the level by what it is. *)
LEMMA LevelMoves ==
  ASSUME NEW seq, NEW i \in Nat \ {0}
  PROVE  /\ Level(seq, 1) = 0
         /\ Level(seq, i) \in Int
         /\ Level(seq, i + 1) = Level(seq, i) + Rise(seq[i])
<1>. DEFINE o(j) == Cardinality(Standing(seq, "open", j))
            c(j) == Cardinality(Standing(seq, "close", j))
<1>1. \A j \in {1, i, i + 1} : Level(seq, j) = o(j) - c(j)
  BY DEF Level, Standing
<1>2. /\ o(1) = 0 /\ c(1) = 0 /\ o(i) \in Nat /\ c(i) \in Nat
      /\ o(i + 1) = o(i) + (IF seq[i].kind = "open" THEN 1 ELSE 0)
      /\ c(i + 1) = c(i) + (IF seq[i].kind = "close" THEN 1 ELSE 0)
  BY StandingCounted
<1> HIDE DEF o, c
<1> QED
  BY <1>1, <1>2 DEF Rise

(* The level at a place does not depend on what comes behind. *)
LEMMA LevelKept ==
  ASSUME NEW U, NEW seq \in Seq(U), NEW t, NEW i \in 1 .. Len(seq) + 1
  PROVE  Level(Append(seq, t), i) = Level(seq, i)
<1>1. \A j \in 1 .. i - 1 : Append(seq, t)[j] = seq[j]
  <2>1. seq \in Seq(U \union {t})
    OBVIOUS
  <2> QED
    BY <2>1
<1>2. ASSUME NEW kind
      PROVE  Standing(Append(seq, t), kind, i) = Standing(seq, kind, i)
  BY <1>1 DEF Standing
<1> QED
  BY <1>2 DEF Level, Standing

(* A text and one token more. *)
LEMMA OneMore ==
  ASSUME NEW U, NEW text \in Seq(U), NEW tok \in U
  PROVE  /\ Len(text) \in Nat
         /\ Append(text, tok) \in Seq(U) /\ Len(Append(text, tok)) = Len(text) + 1
         /\ \A i \in 1 .. Len(text) : Append(text, tok)[i] = text[i] /\ text[i] \in U
         /\ Append(text, tok)[Len(text) + 1] = tok
  OBVIOUS

(* The levels of a text and one token more. *)
LEMMA LevelsAfter ==
  ASSUME NEW U, NEW text \in Seq(U), NEW tok \in U
  PROVE  /\ \A i \in 1 .. Len(text) + 1 : Level(Append(text, tok), i) = Level(text, i)
         /\ Level(Append(text, tok), Len(text) + 2) = Level(text, Len(text) + 1) + Rise(tok)
         /\ \A i \in 1 .. Len(text) + 2 : Level(Append(text, tok), i) \in Int
<1>. DEFINE k == Len(text)
            long == Append(text, tok)
<1>0. k \in Nat /\ long[k + 1] = tok /\ (k + 1) + 1 = k + 2 /\ k + 1 \in Nat \ {0}
  BY OneMore
<1>1. \A i \in 1 .. k + 1 : Level(long, i) = Level(text, i)
  BY LevelKept
<1>2. Level(long, k + 2) = Level(long, k + 1) + Rise(long[k + 1])
  BY <1>0, LevelMoves
<1>3. Level(long, k + 1) = Level(text, k + 1)
  BY <1>0, <1>1
<1>4. \A i \in 1 .. k + 2 : Level(long, i) \in Int
  BY <1>0, LevelMoves
<1> QED
  BY <1>0, <1>1, <1>2, <1>3, <1>4

(* Where an element opens does not depend on what comes behind. *)
LEMMA OpenerStays ==
  ASSUME NEW U, NEW text \in Seq(U), NEW tok \in U, NEW i \in 1 .. Len(text)
  PROVE  Opener(Append(text, tok), i) = Opener(text, i)
<1>. DEFINE long == Append(text, tok)
<1>1. /\ Len(text) \in Nat
      /\ \A j \in 1 .. Len(text) : long[j] = text[j]
      /\ \A j \in 1 .. Len(text) + 1 : Level(long, j) = Level(text, j)
  BY OneMore, LevelsAfter
<1> HIDE DEF long
<1>2. \A j \in 1 .. i - 1 : long[j] = text[j] /\ Level(long, j) = Level(text, j)
  BY <1>1
<1>3. Level(long, i) = Level(text, i)
  BY <1>1
<1>4. Opener(long, i) = Opener(text, i)
  BY <1>2, <1>3 DEF Opener
<1> QED
  BY <1>4 DEF long

(* The elements open at the end of a text: mark i is the tag of the i-th of *)
(* them, after which the level stays above it; no closing tag so far is     *)
(* without an element to close.  The marks of 0 and of the element that     *)
(* comes next are the text's ends.                                          *)
Nested(text, open, mark) ==
  /\ mark \in [Nat -> Nat] /\ mark[0] = 0 /\ mark[open + 1] = Len(text) + 1
  /\ Level(text, Len(text) + 1) = open
  /\ \A i \in 1 .. open :
       /\ mark[i] \in 1 .. Len(text)
       /\ text[mark[i]].kind = "open" /\ Level(text, mark[i]) = i - 1
       /\ \A j \in mark[i] + 1 .. Len(text) + 1 : Level(text, j) >= i
  /\ \A i \in 1 .. Len(text) :
       text[i].kind = "close" => Level(text, i) >= 1 /\ Opener(text, i) \in 1 .. i - 1

(* A closing tag that comes next closes the innermost element. *)
LEMMA OpenerNext ==
  ASSUME NEW U, NEW text \in Seq(U), NEW tok \in U, NEW open \in Nat \ {0}, NEW mark,
         Nested(text, open, mark)
  PROVE  /\ mark[open] \in 1 .. Len(text)
         /\ Opener(Append(text, tok), Len(text) + 1) = mark[open]
<1>. DEFINE k == Len(text)
            long == Append(text, tok)
            Below_ == {j \in 1 .. (k + 1) - 1 :
                        long[j].kind = "open" /\ Level(long, j) = Level(long, k + 1) - 1}
<1>0. /\ k \in Nat /\ \A i \in 1 .. k : long[i] = text[i]
      /\ \A i \in 1 .. k + 1 : Level(long, i) = Level(text, i)
  <2>1. k \in Nat /\ \A i \in 1 .. k : long[i] = text[i]
    BY OneMore
  <2>2. \A i \in 1 .. k + 1 : Level(long, i) = Level(text, i)
    BY LevelsAfter
  <2> QED
    BY <2>1, <2>2
<1>1. /\ mark[open] \in 1 .. k /\ Level(text, k + 1) = open
      /\ text[mark[open]].kind = "open" /\ Level(text, mark[open]) = open - 1
      /\ \A j \in mark[open] + 1 .. k + 1 : Level(text, j) >= open
  <2>1. open \in 1 .. open
    OBVIOUS
  <2> HIDE DEF k
  <2>2. /\ Level(text, k + 1) = open
        /\ \A i \in 1 .. open :
             /\ mark[i] \in 1 .. k
             /\ text[mark[i]].kind = "open" /\ Level(text, mark[i]) = i - 1
             /\ \A j \in mark[i] + 1 .. k + 1 : Level(text, j) >= i
    BY DEF Nested, k
  <2> QED
    BY <2>1, <2>2
<1> HIDE DEF k, long
<1>2. Level(long, k + 1) = open
  BY <1>0, <1>1
<1>3. mark[open] \in Below_
  <2>1. Level(long, mark[open]) = open - 1 /\ long[mark[open]].kind = "open"
    BY <1>0, <1>1
  <2> QED
    BY <1>0, <1>1, <1>2, <2>1
<1>4. ASSUME NEW j \in Below_
      PROVE  mark[open] >= j
  <2>1. j \in 1 .. k /\ Level(long, j) = open - 1
    BY <1>0, <1>2
  <2>2. Level(text, j) = open - 1
    BY <1>0, <2>1
  <2>3. SUFFICES ASSUME j > mark[open] PROVE FALSE
    BY <1>1, <2>1
  <2>4. j \in mark[open] + 1 .. k + 1
    BY <1>0, <1>1, <2>1, <2>3
  <2>5. Level(text, j) >= open
    BY <1>1, <2>4
  <2> QED
    BY <2>2, <2>5
<1>5. Below_ \in SUBSET Int
  BY <1>0
<1>6. Opener(long, k + 1) = Max(Below_)
  BY DEF Opener
<1> HIDE DEF Below_
<1>7. Max(Below_) = mark[open]
  BY <1>3, <1>4, <1>5, MaxIs
<1> QED
  BY <1>1, <1>6, <1>7 DEF k, long

(* One token more: the element it opens or closes is the innermost one.     *)
LEMMA NestedAfter ==
  ASSUME NEW U, NEW text \in Seq(U), NEW tok \in U, NEW open \in Nat, NEW mark,
         Nested(text, open, mark), tok.kind = "close" => open > 0
  PROVE  LET now == open + Rise(tok) IN
         /\ now \in Nat
         /\ Nested(Append(text, tok), now, [mark EXCEPT ![now + 1] = Len(text) + 2])
<1>. DEFINE k == Len(text)
            long == Append(text, tok)
            now == open + Rise(tok)
            m == [mark EXCEPT ![now + 1] = k + 2]
<1>0. /\ k \in Nat /\ Len(long) = k + 1 /\ long[k + 1] = tok
      /\ \A i \in 1 .. k : long[i] = text[i]
  BY OneMore
<1>1. /\ \A i \in 1 .. k + 1 : Level(long, i) = Level(text, i)
      /\ Level(long, k + 2) = now
      /\ Level(text, k + 1) = open
  BY LevelsAfter DEF Nested
<1>2. /\ mark \in [Nat -> Nat] /\ mark[0] = 0 /\ mark[open + 1] = k + 1
      /\ \A i \in 1 .. open :
           /\ mark[i] \in 1 .. k
           /\ text[mark[i]].kind = "open" /\ Level(text, mark[i]) = i - 1
           /\ \A j \in mark[i] + 1 .. k + 1 : Level(text, j) >= i
  BY DEF Nested
<1>2a. \A i \in 1 .. k : text[i].kind = "close" => /\ Level(text, i) >= 1
                                                   /\ Opener(text, i) \in 1 .. i - 1
  BY DEF Nested
<1>2b. \A i \in 1 .. k : Opener(long, i) = Opener(text, i)
  BY OpenerStays
<1>2c. tok.kind = "close" => Opener(long, k + 1) \in 1 .. k
  BY OpenerNext
<1>3. /\ now \in Nat /\ now <= open + 1 /\ now >= open - 1
      /\ now = open + 1 => tok.kind = "open"
      /\ tok.kind = "close" => open >= 1
  BY DEF Rise
<1> HIDE DEF k, long, now
<1>4. /\ m \in [Nat -> Nat] /\ m[0] = 0 /\ m[now + 1] = k + 2
      /\ \A i \in 1 .. now : m[i] = mark[i]
  <2>1. mark \in [Nat -> Nat] /\ mark[0] = 0 /\ now + 1 \in Nat /\ k + 2 \in Nat /\ now + 1 # 0
    <3>1. mark \in [Nat -> Nat] /\ mark[0] = 0
      BY ONLY <1>2
    <3>2. k + 2 \in Nat
      <4>1. k \in Nat
        BY ONLY <1>0
      <4> QED BY ONLY <4>1
    <3>3. now + 1 \in Nat /\ now + 1 # 0
      <4>1. now \in Nat
        BY ONLY <1>3
      <4> QED BY ONLY <4>1
    <3> QED BY <3>1, <3>2, <3>3
  <2>2. \A i \in 1 .. now : i \in Nat /\ i # now + 1
    BY <1>3
  <2> QED
    BY <2>1, <2>2
<1> HIDE DEF m
<1>5. ASSUME NEW i \in 1 .. now
      PROVE  /\ m[i] \in 1 .. k + 1
             /\ long[m[i]].kind = "open" /\ Level(long, m[i]) = i - 1
             /\ \A j \in m[i] + 1 .. k + 2 : Level(long, j) >= i
  <2>1. CASE i <= open
    <3>1. /\ m[i] \in 1 .. k
          /\ text[m[i]].kind = "open" /\ Level(text, m[i]) = i - 1
          /\ \A j \in m[i] + 1 .. k + 1 : Level(text, j) >= i
      <4>1. i \in 1 .. open /\ m[i] = mark[i]
        BY <1>3, <1>4, <2>1
      <4> QED
        BY <1>2, <4>1
    <3>2. ASSUME NEW j \in m[i] + 1 .. k + 2
          PROVE  Level(long, j) >= i
      <4>1. CASE j = k + 2
        BY <1>1, <4>1
      <4>2. CASE j # k + 2
        <5>1. j \in m[i] + 1 .. k + 1 /\ j \in 1 .. k + 1
          BY <1>0, <3>1, <4>2
        <5> QED
          BY <1>1, <3>1, <5>1
      <4> QED
        BY <4>1, <4>2
    <3>3. m[i] \in 1 .. k + 1 /\ long[m[i]] = text[m[i]]
      BY <1>0, <3>1
    <3>4. Level(long, m[i]) = Level(text, m[i])
      BY <1>1, <3>3
    <3> QED
      BY <3>1, <3>2, <3>3, <3>4
  <2>2. CASE i = open + 1
    <3>1. now = open + 1 /\ tok.kind = "open" /\ m[i] = k + 1
      BY <1>2, <1>3, <1>4, <2>2
    <3>2. Level(long, k + 1) = i - 1 /\ Level(long, k + 2) >= i
      BY <1>0, <1>1, <2>2, <3>1
    <3>3. \A j \in m[i] + 1 .. k + 2 : j = k + 2
      BY <1>0, <3>1
    <3> QED
      BY <1>0, <3>1, <3>2, <3>3
  <2> QED
    BY <1>3, <2>1, <2>2
<1>6. ASSUME NEW i \in 1 .. k + 1, long[i].kind = "close"
      PROVE  Level(long, i) >= 1 /\ Opener(long, i) \in 1 .. i - 1
  <2>1. CASE i = k + 1
    <3>1. tok.kind = "close" /\ open >= 1 /\ Level(long, i) = open /\ (k + 1) - 1 = k
      BY <1>0, <1>1, <1>3, <1>6, <2>1
    <3> QED
      BY <1>2c, <2>1, <3>1
  <2>2. CASE i # k + 1
    <3>1. i \in 1 .. k /\ i \in 1 .. k + 1
      BY <1>0, <2>2
    <3> QED
      BY <1>0, <1>1, <1>2a, <1>2b, <1>6, <3>1
  <2> QED
    BY <2>1, <2>2
<1>7. Nested(long, now, m)
  <2>1. Len(long) + 1 = k + 2
    BY <1>0
  <2> QED
    BY <1>0, <1>1, <1>4, <1>5, <1>6, <2>1 DEF Nested
<1> QED
  BY <1>3, <1>7 DEF k, long, now, m

(* A place is as correct as it was when more follows. *)
LEMMA CorrectAfter ==
  ASSUME NEW U, NEW text \in Seq(U), NEW tok \in U, NEW whole \in BOOLEAN,
         NEW i \in 1 .. Len(text), text[i].kind = "close" => Opener(text, i) \in 1 .. i - 1
  PROVE  Correct(Append(text, tok), whole, i) = Correct(text, FALSE, i)
<1>. DEFINE long == Append(text, tok)
<1>0. /\ Len(text) \in Nat /\ Len(long) = Len(text) + 1
      /\ \A j \in 1 .. Len(text) : long[j] = text[j]
      /\ \A j \in 1 .. Len(text) + 1 : Level(long, j) = Level(text, j)
      /\ Opener(long, i) = Opener(text, i)
  BY OneMore, LevelsAfter, OpenerStays
<1> HIDE DEF long
<1>1. i # Len(long) /\ long[i] = text[i] /\ Level(long, i) = Level(text, i)
  BY <1>0
<1>2. \A j \in 1 .. i - 1 : long[j] = text[j]
  BY <1>0
<1>3. text[i].kind = "close" => long[Opener(long, i)].name = text[Opener(text, i)].name
  BY <1>0, <1>2
<1>4. Correct(long, whole, i) = Correct(text, FALSE, i)
  BY <1>1, <1>2, <1>3 DEF Correct
<1> QED
  BY <1>4 DEF long
-----------------------------------------------------------------------------
(* What a text says, and when it is accepted. *)

(* What the beginnings of a text say. *)
Says(text, U, said) ==
  /\ said \in [Nat -> Seq(U)] /\ said[0] = <<>>
  /\ \A i \in 1 .. Len(text) :
       said[i] = IF Blank(text[i]) THEN said[i - 1] ELSE Append(said[i - 1], Plain(text[i]))

(* That is what Significant computes. *)
LEMMA SignificantIs ==
  ASSUME NEW U, NEW text \in Seq(U), NEW said, Says(text, U, said)
  PROVE  \A i \in 0 .. Len(text) : Significant(text)[i] = said[i]
<1>. DEFINE n == Len(text)
            Then(g) == [k \in 0 .. n |->
                          IF k = 0 THEN <<>>
                          ELSE IF Blank(text[k]) THEN g[k - 1]
                          ELSE Append(g[k - 1], Plain(text[k]))]
            s == Significant(text)
            first_ == [k \in 0 .. n |-> said[k]]
<1>0. n \in Nat
  OBVIOUS
<1>1. /\ said[0] = <<>>
      /\ \A i \in 1 .. n : said[i] = IF Blank(text[i]) THEN said[i - 1]
                                     ELSE Append(said[i - 1], Plain(text[i]))
  BY DEF Says
<1>2. first_ = Then(first_)
  <2>1. ASSUME NEW k \in 0 .. n
        PROVE  said[k] = IF k = 0 THEN <<>>
                         ELSE IF Blank(text[k]) THEN first_[k - 1]
                         ELSE Append(first_[k - 1], Plain(text[k]))
    <3>1. CASE k = 0
      BY <1>1, <3>1
    <3>2. CASE k # 0
      <4>1. k \in 1 .. n /\ k - 1 \in 0 .. n
        BY <1>0, <3>2
      <4>2. first_[k - 1] = said[k - 1]
        BY <4>1
      <4> QED
        BY <1>1, <3>2, <4>1, <4>2
    <3> QED
      BY <3>1, <3>2
  <2> QED
    BY <2>1
<1>3. s = CHOOSE g : g = Then(g)
  BY DEF Significant
<1>4. s = Then(s)
  <2> HIDE DEF Then, first_
  <2> QED
    BY <1>2, <1>3
<1> HIDE DEF s
<1>5. \A k \in 0 .. n : s[k] = IF k = 0 THEN <<>>
                               ELSE IF Blank(text[k]) THEN s[k - 1]
                               ELSE Append(s[k - 1], Plain(text[k]))
  BY <1>4
<1> HIDE DEF n, Then
<1>. DEFINE Same == {i \in 0 .. n : s[i] = said[i]}
<1>6. 0 \in Same
  BY <1>0, <1>1, <1>5
<1>7. ASSUME NEW k \in 0 .. n - 1, k \in Same
      PROVE  k + 1 \in Same
  <2>1. k + 1 \in 0 .. n /\ k + 1 \in 1 .. n /\ (k + 1) - 1 = k /\ k + 1 # 0
    BY <1>0
  <2> QED
    BY <1>1, <1>5, <1>7, <2>1
<1> HIDE DEF Same
<1>8. 0 .. n \subseteq Same
  BY <1>0, <1>6, <1>7, AllUpTo
<1> QED
  BY <1>8 DEF Same, s, n

(* One token more says what it says, or nothing. *)
LEMMA SaysAfter ==
  ASSUME NEW U, NEW text \in Seq(U), NEW tok \in U, Plain(tok) \in U,
         NEW said, Says(text, U, said)
  PROVE  LET k == Len(text)
             next_ == IF Blank(tok) THEN said[k] ELSE Append(said[k], Plain(tok))
         IN  Says(Append(text, tok), U, [said EXCEPT ![k + 1] = next_])
<1>. DEFINE k == Len(text)
            next_ == IF Blank(tok) THEN said[k] ELSE Append(said[k], Plain(tok))
            long == Append(text, tok)
            now == [said EXCEPT ![k + 1] = next_]
<1>0. /\ k \in Nat /\ Len(long) = k + 1 /\ long[k + 1] = tok
      /\ \A i \in 1 .. k : long[i] = text[i]
  BY OneMore
<1>1. /\ said \in [Nat -> Seq(U)] /\ said[0] = <<>>
      /\ \A i \in 1 .. k : said[i] = IF Blank(text[i]) THEN said[i - 1]
                                     ELSE Append(said[i - 1], Plain(text[i]))
  BY DEF Says
<1> HIDE DEF k, long
<1>2. next_ \in Seq(U)
  BY <1>0, <1>1
<1>3. now \in [Nat -> Seq(U)] /\ now[k + 1] = next_ /\ \A i \in 0 .. k : now[i] = said[i]
  <2> HIDE DEF next_
  <2> QED
    BY <1>0, <1>1, <1>2
<1>4. ASSUME NEW i \in 1 .. k + 1
      PROVE  now[i] = IF Blank(long[i]) THEN now[i - 1] ELSE Append(now[i - 1], Plain(long[i]))
  <2> HIDE DEF now
  <2>1. CASE i = k + 1
    <3>1. now[i - 1] = said[k] /\ long[i] = tok
      BY <1>0, <1>3, <2>1
    <3> QED
      BY <1>3, <2>1, <3>1
  <2>2. CASE i # k + 1
    <3>1. i \in 1 .. k /\ i \in 0 .. k /\ i - 1 \in 0 .. k
      BY <1>0, <2>2
    <3>2. now[i] = said[i] /\ now[i - 1] = said[i - 1] /\ long[i] = text[i]
      BY <1>0, <1>3, <3>1
    <3> QED
      BY <1>1, <3>1, <3>2
  <2> QED
    BY <2>1, <2>2
<1>5. Says(long, U, now)
  <2>1. now[0] = <<>>
    BY <1>0, <1>1, <1>3
  <2> HIDE DEF now
  <2> QED
    BY <1>0, <1>3, <1>4, <2>1 DEF Says
<1> QED
  BY <1>5 DEF k, long

-----------------------------------------------------------------------------
(* Verdicts. *)

(* All tokens stand where they may. *)
AllCorrect(text, whole) == \A i \in 1 .. Len(text) : Correct(text, whole, i)

(* Where the longest well-formed beginning ends. *)
LEMMA BestIs ==
  ASSUME NEW U, NEW text \in Seq(U), NEW whole \in BOOLEAN, Strays(text, whole) = {},
         NEW b \in 0 .. Len(text), WellFormed(text, whole, b),
         \A j \in 0 .. Len(text) : j > b => ~WellFormed(text, whole, j)
  PROVE  Extent(text, whole) = Len(text) /\ Best(text, whole) = b
<1>. DEFINE Ends == {j \in 0 .. Len(text) : WellFormed(text, whole, j)}
<1>1. Extent(text, whole) = Len(text)
  BY DEF Extent
<1>2. Ends \in SUBSET Int /\ b \in Ends
  OBVIOUS
<1>3. \A y \in Ends : b >= y
  OBVIOUS
<1>4. Best(text, whole) = Max(Ends)
  BY <1>1 DEF Best
<1> HIDE DEF Ends
<1> QED
  BY <1>1, <1>2, <1>3, <1>4, MaxIs

(* Nothing is well formed beyond the first element that is still open. *)
LEMMA NestedEnds ==
  ASSUME NEW U, NEW text \in Seq(U), NEW open \in Nat, NEW mark, Nested(text, open, mark)
  PROVE  /\ mark[1] - 1 \in 0 .. Len(text) /\ mark[1] \in Nat
         /\ (open > 0 => mark[1] \in 1 .. Len(text))
         /\ Level(text, mark[1]) = 0
         /\ \A j \in 0 .. Len(text) : j > mark[1] - 1 => Level(text, j + 1) > 0
<1>. DEFINE k == Len(text)
<1>0. k \in Nat /\ mark[open + 1] = k + 1 /\ Level(text, k + 1) = open
  BY DEF Nested
<1>1. CASE open = 0
  <2>1. mark[1] = k + 1
    BY <1>0, <1>1
  <2> HIDE DEF k
  <2>2. mark[1] - 1 = k /\ Level(text, mark[1]) = 0
    BY <1>0, <1>1, <2>1
  <2>3. \A j \in 0 .. k : ~(j > mark[1] - 1)
    BY <1>0, <2>2
  <2> QED
    BY <1>0, <1>1, <2>2, <2>3 DEF k
<1>2. CASE open # 0
  <2>1. 1 \in 1 .. open
    BY <1>2
  <2>2. /\ mark[1] \in 1 .. k /\ Level(text, mark[1]) = 1 - 1
        /\ \A j \in mark[1] + 1 .. k + 1 : Level(text, j) >= 1
    BY <2>1 DEF Nested
  <2> HIDE DEF k
  <2>3. ASSUME NEW j \in 0 .. k, j > mark[1] - 1
        PROVE  Level(text, j + 1) > 0
    <3>1. j + 1 \in mark[1] + 1 .. k + 1
      BY <1>0, <2>2, <2>3
    <3>2. Level(text, j + 1) >= 1 /\ Level(text, j + 1) \in Int
      BY <2>2, <2>3, <3>1, LevelMoves
    <3> QED
      BY <3>2
  <2> QED
    BY <1>0, <2>2, <2>3 DEF k
<1> QED
  BY <1>1, <1>2

(* Then every closing tag closes something. *)
LEMMA NoStrays ==
  ASSUME NEW U, NEW text \in Seq(U), NEW open, NEW mark, Nested(text, open, mark), NEW whole
  PROVE  Strays(text, whole) = {}
<1>1. \A i \in 1 .. Len(text) : text[i].kind = "close" => Level(text, i) >= 1
  BY DEF Nested
<1>2. ASSUME NEW i \in DOMAIN text, text[i].kind = "close"
      PROVE  Level(text, i) # 0
  <2>1. Level(text, i) >= 1
    BY <1>1, <1>2
  <2> QED
    BY <2>1
<1> QED
  BY <1>2 DEF Strays

(* The whole text is there. *)
LEMMA WholeAccepted ==
  ASSUME NEW U, NEW text \in Seq(U), NEW mark, Nested(text, 0, mark), AllCorrect(text, TRUE),
         NEW said, Says(text, U, said), said[Len(text)] # <<>>
  PROVE  Accepted(text, TRUE) /\ Best(text, TRUE) = Len(text)
<1>. DEFINE k == Len(text)
<1>1. Strays(text, TRUE) = {}
  BY NoStrays
<1>2. k \in 0 .. k /\ k \in Nat
  OBVIOUS
<1>3. WellFormed(text, TRUE, k)
  BY DEF Nested, AllCorrect, WellFormed
<1>4. Extent(text, TRUE) = k /\ Best(text, TRUE) = k
  <2>1. \A j \in 0 .. k : ~(j > k)
    BY <1>2
  <2> QED
    BY <1>1, <1>2, <1>3, <2>1, BestIs
<1>5. Significant(text)[k] # <<>>
  BY <1>2, SignificantIs
<1> QED
  BY <1>3, <1>4, <1>5 DEF Accepted

(* The text ends within an element. *)
LEMMA CutShort ==
  ASSUME NEW U, NEW text \in Seq(U), NEW open \in Nat \ {0}, NEW mark,
         Nested(text, open, mark), AllCorrect(text, TRUE)
  PROVE  ~Accepted(text, TRUE) /\ Best(text, TRUE) = mark[1] - 1
<1>. DEFINE k == Len(text)
            b == mark[1] - 1
<1>1. Strays(text, TRUE) = {}
  BY NoStrays
<1>2. /\ b \in 0 .. k /\ mark[1] \in 1 .. k /\ Level(text, mark[1]) = 0
      /\ \A j \in 0 .. k : j > b => Level(text, j + 1) > 0
  BY NestedEnds
<1>3. WellFormed(text, TRUE, b)
  <2>1. b + 1 = mark[1] /\ \A i \in 1 .. b : i \in 1 .. k
    BY <1>2
  <2> HIDE DEF b
  <2> QED
    BY <1>2, <2>1 DEF AllCorrect, WellFormed
<1> HIDE DEF b
<1>4. ASSUME NEW j \in 0 .. k, j > b
      PROVE  ~WellFormed(text, TRUE, j)
  <2>1. Level(text, j + 1) > 0
    BY <1>2, <1>4
  <2>2. Level(text, j + 1) # 0
    BY <2>1
  <2> QED
    BY <2>2 DEF WellFormed
<1>5. Extent(text, TRUE) = k /\ Best(text, TRUE) = b
  BY <1>1, <1>2, <1>3, <1>4, BestIs
<1>6. ~WellFormed(text, TRUE, k)
  <2>1. k \in 0 .. k /\ k > b
    BY <1>2 DEF b
  <2> QED
    BY <1>4, <2>1
<1> QED
  BY <1>5, <1>6 DEF Accepted, b

(* A token stands where it may not. *)
LEMMA Refused ==
  ASSUME NEW U, NEW text \in Seq(U), NEW tok \in U, NEW open \in Nat, NEW mark,
         Nested(text, open, mark), AllCorrect(text, FALSE), NEW last \in BOOLEAN,
         ~Correct(Append(text, tok), last, Len(text) + 1),
         tok.kind = "close" /\ open = 0 => Failure(tok, last) # "none"
  PROVE  /\ ~Accepted(Append(text, tok), last)
         /\ Best(Append(text, tok), last) = mark[1] - 1
<1>. DEFINE k == Len(text)
            b == mark[1] - 1
            long == Append(text, tok)
<1>0. /\ k \in Nat /\ long \in Seq(U) /\ Len(long) = k + 1 /\ long[k + 1] = tok
      /\ \A i \in 1 .. k : long[i] = text[i]
      /\ \A i \in 1 .. k + 1 : Level(long, i) = Level(text, i)
  BY OneMore, LevelsAfter
<1>1. /\ b \in 0 .. k /\ Level(text, mark[1]) = 0 /\ mark[1] \in Nat
      /\ \A j \in 0 .. k : j > b => Level(text, j + 1) > 0
  BY NestedEnds
<1>2. /\ Level(text, k + 1) = open
      /\ \A i \in 1 .. k : text[i].kind = "close" => /\ Level(text, i) >= 1
                                                     /\ Opener(text, i) \in 1 .. i - 1
  BY DEF Nested
<1>3. \A i \in 1 .. k : Correct(long, last, i)
  <2>1. ASSUME NEW i \in 1 .. k
        PROVE  Correct(long, last, i)
    <3>1. Correct(text, FALSE, i)
      BY DEF AllCorrect
    <3>2. text[i].kind = "close" => Opener(text, i) \in 1 .. i - 1
      BY <1>2
    <3>3. Correct(long, last, i) = Correct(text, FALSE, i)
      BY <3>2, CorrectAfter
    <3> QED
      BY <3>1, <3>3
  <2> QED
    BY <2>1
<1> HIDE DEF k, b, long
<1>4. Strays(long, last) = {}
  <2>1. SUFFICES ASSUME NEW i \in 1 .. k + 1, long[i].kind = "close", Level(long, i) = 0,
                        Failure(long[i], last /\ i = k + 1) = "none"
                 PROVE  FALSE
    BY <1>0 DEF Strays
  <2>2. CASE i = k + 1
    <3>1. tok.kind = "close" /\ open = 0 /\ Failure(tok, last /\ TRUE) = "none"
      BY <1>0, <1>2, <2>1, <2>2
    <3>2. (last /\ TRUE) = last
      OBVIOUS
    <3> QED
      BY <3>1, <3>2
  <2>3. CASE i # k + 1
    <3>1. i \in 1 .. k
      BY <1>0, <2>3
    <3> QED
      BY <1>0, <1>2, <2>1, <3>1
  <2> QED
    BY <2>2, <2>3
<1>5. WellFormed(long, last, b)
  <2>1. b + 1 = mark[1] /\ b + 1 \in 1 .. k + 1 /\ \A i \in 1 .. b : i \in 1 .. k
    BY <1>0, <1>1 DEF b
  <2> QED
    BY <1>0, <1>1, <1>3, <2>1 DEF WellFormed
<1>6. ~WellFormed(long, last, k + 1)
  BY <1>0 DEF WellFormed, k, long
<1>7. ASSUME NEW j \in 0 .. k + 1, j > b
      PROVE  ~WellFormed(long, last, j)
  <2>1. CASE j = k + 1
    BY <1>6, <2>1
  <2>2. CASE j # k + 1
    <3>1. j \in 0 .. k /\ j + 1 \in 1 .. k + 1
      BY <1>0, <2>2
    <3>2. Level(text, j + 1) > 0 /\ Level(long, j + 1) = Level(text, j + 1)
      BY <1>0, <1>1, <1>7, <3>1
    <3> QED
      BY <3>2 DEF WellFormed
  <2> QED
    BY <2>1, <2>2
<1>8. b \in 0 .. k + 1
  BY <1>0, <1>1
<1>9. Extent(long, last) = k + 1 /\ Best(long, last) = b
  BY <1>0, <1>4, <1>5, <1>7, <1>8, BestIs
<1>10. ~Accepted(long, last)
  BY <1>6, <1>9 DEF Accepted
<1> QED
  BY <1>9, <1>10 DEF b, long

(* A closing tag that closes nothing ends what is read. *)
LEMMA StrayAccepted ==
  ASSUME NEW U, NEW text \in Seq(U), NEW tok \in U, NEW mark,
         Nested(text, 0, mark), AllCorrect(text, FALSE), NEW last \in BOOLEAN,
         tok.kind = "close", Failure(tok, last) = "none"
  PROVE  Accepted(Append(text, tok), last) /\ Best(Append(text, tok), last) = Len(text)
<1>. DEFINE k == Len(text)
            long == Append(text, tok)
<1>0. /\ k \in Nat /\ long \in Seq(U) /\ Len(long) = k + 1 /\ long[k + 1] = tok
      /\ \A i \in 1 .. k : long[i] = text[i]
      /\ \A i \in 1 .. k + 1 : Level(long, i) = Level(text, i)
  BY OneMore, LevelsAfter
<1>1. /\ Level(text, k + 1) = 0
      /\ \A i \in 1 .. k : text[i].kind = "close" => /\ Level(text, i) >= 1
                                                     /\ Opener(text, i) \in 1 .. i - 1
  BY DEF Nested
<1>2. \A i \in 1 .. k : Correct(long, last, i)
  <2>1. ASSUME NEW i \in 1 .. k
        PROVE  Correct(long, last, i)
    <3>1. Correct(text, FALSE, i)
      BY DEF AllCorrect
    <3>2. text[i].kind = "close" => Opener(text, i) \in 1 .. i - 1
      BY <1>1
    <3>3. Correct(long, last, i) = Correct(text, FALSE, i)
      BY <3>2, CorrectAfter
    <3> QED
      BY <3>1, <3>3
  <2> QED
    BY <2>1
<1> HIDE DEF k, long
<1>3. WellFormed(long, last, k)
  BY <1>0, <1>1, <1>2 DEF WellFormed
<1>. DEFINE S == Strays(long, last)
<1>4. k + 1 \in S
  <2>1. (last /\ k + 1 = Len(long)) = last
    BY <1>0
  <2>2. Level(long, k + 1) = 0 /\ k + 1 \in DOMAIN long
    BY <1>0, <1>1
  <2> QED
    BY <1>0, <2>1, <2>2 DEF Strays
<1>5. S \in SUBSET Int /\ \A i \in S : k + 1 <= i
  <2>1. ASSUME NEW i \in S
        PROVE  i = k + 1
    <3>1. i \in 1 .. k + 1 /\ long[i].kind = "close" /\ Level(long, i) = 0
      BY <1>0 DEF Strays
    <3>2. SUFFICES ASSUME i # k + 1 PROVE FALSE
      OBVIOUS
    <3>3. i \in 1 .. k
      BY <1>0, <3>1, <3>2
    <3> QED
      BY <1>0, <1>1, <3>1, <3>3
  <2>2. k + 1 \in Int /\ k + 1 <= k + 1
    BY <1>0
  <2> HIDE DEF S
  <2> QED
    BY <2>1, <2>2
<1>6. S # {} /\ Min(S) = k + 1
  <2> HIDE DEF S
  <2> QED
    BY <1>4, <1>5, MaxIs
<1>7. Extent(long, last) = k
  BY <1>0, <1>6 DEF Extent
<1>. DEFINE Ends == {j \in 0 .. k : WellFormed(long, last, j)}
<1>8. Ends \in SUBSET Int /\ k \in Ends /\ \A y \in Ends : k >= y
  BY <1>0, <1>3
<1>9. Best(long, last) = Max(Ends)
  BY <1>7 DEF Best
<1> HIDE DEF Ends
<1>10. Best(long, last) = k
  BY <1>8, <1>9, MaxIs
<1>11. Accepted(long, last)
  BY <1>3, <1>6, <1>7 DEF Accepted
<1> QED
  BY <1>10, <1>11 DEF k, long

(* Nothing but white space. *)
LEMMA BlankRefused ==
  ASSUME NEW U, NEW text \in Seq(U), NEW mark, Nested(text, 0, mark), AllCorrect(text, TRUE),
         NEW said, Says(text, U, said), said[Len(text)] = <<>>
  PROVE  ~Accepted(text, TRUE) /\ Best(text, TRUE) = Len(text)
<1>. DEFINE k == Len(text)
<1>1. Strays(text, TRUE) = {}
  BY NoStrays
<1>2. k \in 0 .. k /\ k \in Nat
  OBVIOUS
<1>3. WellFormed(text, TRUE, k)
  BY DEF Nested, AllCorrect, WellFormed
<1>4. Extent(text, TRUE) = k /\ Best(text, TRUE) = k
  <2>1. \A j \in 0 .. k : ~(j > k)
    BY <1>2
  <2> QED
    BY <1>1, <1>2, <1>3, <2>1, BestIs
<1>5. Significant(text)[k] = <<>>
  BY <1>2, SignificantIs
<1> QED
  BY <1>1, <1>4, <1>5 DEF Accepted
-----------------------------------------------------------------------------
(* What the nodes in use list. *)

(* A set that holds all tokens there are, and the closing tag of each. *)
Universe(U) ==
  /\ NoToken \in U /\ TokenType \subseteq U
  /\ \A t \in U : Closing(t.name) \in U

(* What is listed from each node on; only elements have content. *)
Lists(d, v, U, from) ==
  /\ from \in [Nodes \union {Nil} -> Seq(U)] /\ from[Nil] = <<>>
  /\ \A n \in Nodes : from[n] = Enclosed(v[n], from[d.first[n]]) \o from[d.next[n]]
  /\ \A n \in Nodes : v[n] \in U /\ (v[n].kind # "open" => d.first[n] = Nil)

(* An element in its tags. *)
LEMMA EnclosedIs ==
  ASSUME NEW U, Universe(U), NEW tok \in U, NEW content \in Seq(U)
  PROVE  /\ Enclosed(tok, content) \in Seq(U)
         /\ Len(Enclosed(tok, content)) > 0
         /\ tok.kind = "open" => Len(Enclosed(tok, content)) > Len(content)
<1>1. <<tok>> \in Seq(U) /\ Len(<<tok>>) = 1
  OBVIOUS
<1>2. Closing(tok.name) \in U
  BY DEF Universe
<1>. DEFINE last_ == <<Closing(tok.name)>>
            body == <<tok>> \o content
<1>3. last_ \in Seq(U) /\ Len(last_) = 1
  BY <1>2
<1>4. body \in Seq(U) /\ Len(body) = 1 + Len(content)
  BY <1>1, ConcatProperties
<1> HIDE DEF last_, body
<1>5. body \o last_ \in Seq(U) /\ Len(body \o last_) = Len(body) + 1
  BY <1>3, <1>4, ConcatProperties
<1>6. Len(content) \in Nat
  OBVIOUS
<1>7. Enclosed(tok, content) = IF tok.kind = "open" THEN body \o last_ ELSE <<tok>>
  BY DEF Enclosed, body, last_
<1> QED
  BY <1>1, <1>4, <1>5, <1>6, <1>7

(* That is what TextOf computes: of two such functions on the nodes none   *)
(* differs from the other first.                                            *)
LEMMA TextIs ==
  ASSUME NEW U, Universe(U), NEW d \in Stores, NEW v, NEW from,
         Lists(d, v, U, from)
  PROVE  TextOf(d, v) = from[d.first[Doc]]
<1>. DEFINE All == Nodes \union {Nil}
            Then(g) == [n \in All |->
                          IF n = Nil THEN <<>>
                          ELSE Enclosed(v[n], g[d.first[n]]) \o g[d.next[n]]]
            s == CHOOSE g : g = Then(g)
<1>0. /\ from \in [All -> Seq(U)] /\ from[Nil] = <<>> /\ Nil \notin Nodes
      /\ \A n \in Nodes : from[n] = Enclosed(v[n], from[d.first[n]]) \o from[d.next[n]]
      /\ \A n \in Nodes : v[n] \in U /\ (v[n].kind # "open" => d.first[n] = Nil)
      /\ \A n \in Nodes : d.first[n] \in All /\ d.next[n] \in All
      /\ d.first[Doc] \in All
  BY StoreAssumption, StoreTypes DEF Lists, Parents
<1>1. from = Then(from)
  <2>1. \A n \in All : from[n] = IF n = Nil THEN <<>>
                                 ELSE Enclosed(v[n], from[d.first[n]]) \o from[d.next[n]]
    BY <1>0
  <2>2. from = [n \in All |-> from[n]]
    BY <1>0
  <2> QED
    BY <2>1, <2>2
<1>2. TextOf(d, v) = s[d.first[Doc]]
  BY DEF TextOf
<1>3. s = Then(s)
  <2> HIDE DEF Then
  <2> QED
    BY <1>1
<1> HIDE DEF s
<1>4. \A n \in All : s[n] = IF n = Nil THEN <<>>
                            ELSE Enclosed(v[n], s[d.first[n]]) \o s[d.next[n]]
  BY <1>3
<1> HIDE DEF Then
<1>. DEFINE Bad == {l \in Nat : \E n \in All : l = Len(from[n]) /\ s[n] # from[n]}
<1>5. Bad = {}
  <2>1. SUFFICES ASSUME Bad # {} PROVE FALSE
    OBVIOUS
  <2>2. PICK l \in Bad : \A x \in Bad : l <= x
    <3>1. Bad \in SUBSET Nat
      OBVIOUS
    <3> HIDE DEF Bad
    <3> QED
      BY <2>1, <3>1, LeastNatural
  <2>3. PICK n \in All : l = Len(from[n]) /\ s[n] # from[n]
    BY <2>2
  <2>4. \A m \in All : Len(from[m]) \in Nat
    BY <1>0
  <2>5. ASSUME NEW m \in All, Len(from[m]) < l
        PROVE  s[m] = from[m]
    <3>1. SUFFICES ASSUME s[m] # from[m] PROVE FALSE
      OBVIOUS
    <3>2. Len(from[m]) \in Bad
      BY <2>4, <3>1
    <3> HIDE DEF Bad
    <3>3. l <= Len(from[m])
      BY <2>2, <3>2
    <3> QED
      BY <2>2, <2>3, <2>4, <2>5, <3>3
  <2>6. n \in Nodes
    BY <1>0, <1>4, <2>3
  <2>. DEFINE f == d.first[n]
              x == d.next[n]
              t == v[n]
  <2>7. /\ f \in All /\ x \in All /\ from[f] \in Seq(U) /\ from[x] \in Seq(U)
        /\ t \in U /\ (t.kind # "open" => f = Nil)
        /\ from[n] = Enclosed(t, from[f]) \o from[x]
        /\ s[n] = Enclosed(t, s[f]) \o s[x]
    BY <1>0, <1>4, <2>6
  <2> HIDE DEF f, x, t
  <2>8. /\ Enclosed(t, from[f]) \in Seq(U)
        /\ Len(Enclosed(t, from[f])) > 0
        /\ t.kind = "open" => Len(Enclosed(t, from[f])) > Len(from[f])
    BY <2>7, EnclosedIs
  <2>9. l = Len(Enclosed(t, from[f])) + Len(from[x])
    BY <2>3, <2>7, <2>8, ConcatProperties
  <2>10. Len(Enclosed(t, from[f])) \in Nat /\ Len(from[x]) \in Nat /\ Len(from[f]) \in Nat
    BY <2>7, <2>8
  <2>11. s[x] = from[x]
    <3>. DEFINE a == Len(Enclosed(t, from[f]))
                b == Len(from[x])
    <3>1. a \in Nat /\ b \in Nat /\ a > 0 /\ l = a + b
      BY <2>8, <2>9, <2>10
    <3> HIDE DEF a, b
    <3>2. b < l
      BY <3>1
    <3>3. Len(from[x]) < l
      BY <3>2 DEF b
    <3> QED
      BY <2>5, <2>7, <3>3
  <2>12. s[f] = from[f]
    <3>1. CASE t.kind = "open"
      <4>. DEFINE a == Len(Enclosed(t, from[f]))
                  b == Len(from[x])
                  c == Len(from[f])
      <4>1. a \in Nat /\ b \in Nat /\ c \in Nat /\ a > c /\ l = a + b
        BY <2>8, <2>9, <2>10, <3>1
      <4> HIDE DEF a, b, c
      <4>2. c < l
        BY <4>1
      <4>3. Len(from[f]) < l
        BY <4>2 DEF c
      <4> QED
        BY <2>5, <2>7, <4>3
    <3>2. CASE t.kind # "open"
      BY <1>0, <1>4, <2>7, <3>2
    <3> QED
      BY <3>1, <3>2
  <2> QED
    BY <2>3, <2>7, <2>11, <2>12
<1>6. s[d.first[Doc]] = from[d.first[Doc]]
  <2>1. SUFFICES ASSUME s[d.first[Doc]] # from[d.first[Doc]] PROVE FALSE
    OBVIOUS
  <2>2. Len(from[d.first[Doc]]) \in Nat
    BY <1>0
  <2> QED
    BY <1>0, <1>5, <2>1, <2>2
<1> QED
  BY <1>2, <1>6

(* Without nodes in use nothing is listed. *)
LEMMA NoneListed ==
  ASSUME NEW U, Universe(U), NEW d \in Stores, Typed(d, {})
  PROVE  \E from : /\ Lists(d, [n \in Nodes |-> NoToken], U, from)
                   /\ from[d.first[Doc]] = <<>> /\ d.first[Doc] = Nil
<1>. DEFINE v == [n \in Nodes |-> NoToken]
            from == [n \in Nodes \union {Nil} |-> IF n = Nil THEN <<>> ELSE <<NoToken>>]
<1>1. NoToken \in U /\ Nil \notin Nodes
  BY StoreAssumption DEF Universe
<1>2. \A n \in Nodes : d.first[n] = Nil /\ d.next[n] = Nil
  BY DEF Typed
<1>3. d.first[Doc] = Nil
  BY DEF Typed
<1>4. Enclosed(NoToken, <<>>) = <<NoToken>>
  BY DEF Enclosed, NoToken, Tok
<1>5. <<NoToken>> \o <<>> = <<NoToken>>
  OBVIOUS
<1>6. <<NoToken>> \in Seq(U) /\ <<>> \in Seq(U)
  BY <1>1
<1>7. /\ from \in [Nodes \union {Nil} -> Seq(U)] /\ from[Nil] = <<>>
      /\ \A n \in Nodes : from[n] = <<NoToken>>
  BY <1>1, <1>6
<1>8. \A n \in Nodes : v[n] = NoToken
  OBVIOUS
<1> HIDE DEF v, from
<1>9. Lists(d, v, U, from)
  BY <1>1, <1>2, <1>4, <1>5, <1>7, <1>8 DEF Lists
<1>10. from[d.first[Doc]] = <<>>
  BY <1>3, <1>7
<1> QED
  BY <1>3, <1>9, <1>10 DEF v

(* A node that was created is listed, and nowhere else. *)
LEMMA NewListed ==
  ASSUME NEW U, Universe(U), NEW d, NEW in, IsForest(d, in), NEW v, v = [n \in Nodes |-> v[n]],
         NEW from, Lists(d, v, U, from), NEW n \in Nodes \ in, NEW tok \in U
  PROVE  LET now == [from EXCEPT ![n] = Enclosed(tok, <<>>)] IN
         /\ Lists(d, [v EXCEPT ![n] = tok], U, now)
         /\ now[n] = Enclosed(tok, <<>>) /\ d.first[n] = Nil
         /\ \A q \in in \union {Doc} : now[d.first[q]] = from[d.first[q]]
<1>. DEFINE All == Nodes \union {Nil}
            own == Enclosed(tok, <<>>)
            now == [from EXCEPT ![n] = own]
            w == [v EXCEPT ![n] = tok]
<1>0. /\ from \in [All -> Seq(U)] /\ from[Nil] = <<>> /\ Nil \notin Nodes
      /\ \A m \in Nodes : from[m] = Enclosed(v[m], from[d.first[m]]) \o from[d.next[m]]
      /\ \A m \in Nodes : v[m] \in U /\ (v[m].kind # "open" => d.first[m] = Nil)
  BY StoreAssumption DEF Lists
<1>1. /\ \A m \in Nodes : d.first[m] \in in \union {Nil} /\ d.next[m] \in in \union {Nil}
      /\ d.first[Doc] \in in \union {Nil}
      /\ d.first[n] = Nil /\ d.next[n] = Nil
      /\ in \subseteq Nodes
  BY DEF IsForest, Typed
<1>2. <<>> \in Seq(U)
  OBVIOUS
<1>3. own \in Seq(U) /\ own \o <<>> = own
  BY <1>2, EnclosedIs, ConcatEmptySeq
<1> HIDE DEF own
<1>4. /\ now \in [All -> Seq(U)] /\ now[n] = own
      /\ \A m \in All : m # n => now[m] = from[m]
  BY <1>0, <1>3
<1>5. w[n] = tok /\ \A m \in Nodes : m # n => w[m] = v[m]
  <2>1. DOMAIN v = Nodes
    OBVIOUS
  <2> QED
    BY <2>1
<1> HIDE DEF now, w
<1>6. \A x \in in \union {Nil} : now[x] = from[x]
  BY <1>0, <1>1, <1>4
<1>7. ASSUME NEW m \in Nodes
      PROVE  now[m] = Enclosed(w[m], now[d.first[m]]) \o now[d.next[m]]
  <2>1. CASE m = n
    <3>1. now[d.first[m]] = <<>> /\ now[d.next[m]] = <<>>
      BY <1>0, <1>1, <1>6, <2>1
    <3>2. now[m] = own /\ w[m] = tok
      BY <1>4, <1>5, <2>1
    <3>3. own = Enclosed(tok, <<>>)
      BY DEF own
    <3> QED
      BY <1>3, <3>1, <3>2, <3>3
  <2>2. CASE m # n
    <3>1. now[d.first[m]] = from[d.first[m]] /\ now[d.next[m]] = from[d.next[m]]
      BY <1>1, <1>6
    <3> QED
      BY <1>0, <1>4, <1>5, <2>2, <3>1
  <2> QED
    BY <2>1, <2>2
<1>8. \A m \in Nodes : w[m] \in U /\ (w[m].kind # "open" => d.first[m] = Nil)
  BY <1>0, <1>1, <1>5
<1>9. now[Nil] = <<>>
  BY <1>0, <1>4
<1>10. Lists(d, w, U, now)
  BY <1>4, <1>7, <1>8, <1>9 DEF Lists
<1>11. \A q \in in \union {Doc} : now[d.first[q]] = from[d.first[q]]
  BY <1>1, <1>6
<1> QED
  BY <1>1, <1>4, <1>10, <1>11 DEF now, w, own

(* The tokens of some nodes forgotten. *)
Emptied(v, gone) == [n \in Nodes |-> IF n \in gone THEN NoToken ELSE v[n]]

(* A tree that is deleted leaves the rest as it was listed. *)
LEMMA TreeUnlisted ==
  ASSUME NEW U, Universe(U), NEW d, NEW in, IsForest(d, in), NEW v,
         NEW from, Lists(d, v, U, from), NEW c \in in, d.parent[c] = Nil,
         NEW e, IsWithout(d, Subtree(d, c), Nil, e)
  PROVE  \E now : /\ Lists(e, Emptied(v, Subtree(d, c)), U, now)
                  /\ now[e.first[Doc]] = from[d.first[Doc]]
<1>. DEFINE All == Nodes \union {Nil}
            gone == Subtree(d, c)
            w == Emptied(v, gone)
            now == [n \in All |-> IF n \in gone THEN <<NoToken>> ELSE from[n]]
<1>0. /\ from \in [All -> Seq(U)] /\ from[Nil] = <<>>
      /\ \A m \in Nodes : from[m] = Enclosed(v[m], from[d.first[m]]) \o from[d.next[m]]
      /\ \A m \in Nodes : v[m] \in U /\ (v[m].kind # "open" => d.first[m] = Nil)
      /\ NoToken \in U
  BY DEF Lists, Universe
<1>1. Removable(d, in, gone, Nil)
  BY TreeRemovable
<1> HIDE DEF gone
<1>2. /\ gone \subseteq in /\ in \subseteq Nodes /\ Nil \notin gone /\ Doc \notin gone
      /\ Nil \notin Nodes /\ Doc \notin Nodes /\ Doc # Nil
      /\ \A m \in gone : d.parent[m] \in gone \union {Nil} /\ d.prev[m] \in gone \union {Nil}
  BY <1>1, StoreAssumption DEF Removable, IsForest, Typed
<1>3. /\ \A m \in in \union {Doc} :
           d.first[m] # Nil => d.first[m] \in in /\ d.parent[d.first[m]] = m
      /\ \A m \in in : d.next[m] # Nil => d.next[m] \in in /\ d.prev[d.next[m]] = m
      /\ \A m \in Nodes \ in : d.first[m] = Nil /\ d.next[m] = Nil
  BY DEF IsForest, Typed, Agree
<1>4. /\ \A m \in Nodes \ gone : d.first[m] \in All \ gone /\ d.next[m] \in All \ gone
      /\ d.first[Doc] \in All \ gone
  <2>1. ASSUME NEW m \in (in \union {Doc}) \ gone, d.first[m] \in gone
        PROVE  FALSE
    <3>1. d.first[m] # Nil /\ m # Nil
      BY <1>2, <2>1
    <3>2. d.parent[d.first[m]] = m
      BY <1>3, <3>1
    <3> QED
      BY <1>2, <2>1, <3>1, <3>2
  <2>2. ASSUME NEW m \in in \ gone, d.next[m] \in gone
        PROVE  FALSE
    <3>1. d.next[m] # Nil /\ m # Nil
      BY <1>2, <2>2
    <3>2. d.prev[d.next[m]] = m
      BY <1>3, <3>1
    <3> QED
      BY <1>2, <2>2, <3>1, <3>2
  <2>3. d.first[Doc] \notin gone
    BY <1>2, <2>1
  <2>4. ASSUME NEW m \in Nodes \ gone
        PROVE  d.first[m] \in All \ gone /\ d.next[m] \in All \ gone
    <3>1. CASE m \in in
      BY <1>2, <1>3, <2>1, <2>2, <3>1
    <3>2. CASE m \notin in
      BY <1>2, <1>3, <3>2
    <3> QED
      BY <3>1, <3>2
  <2> QED
    BY <1>2, <1>3, <2>3, <2>4
<1>5. /\ \A m \in Nodes : e.next[m] = IF m \in gone THEN Nil ELSE d.next[m]
      /\ \A m \in Nodes : e.first[m] = IF m \in gone THEN Nil ELSE d.first[m]
      /\ e.first[Doc] = d.first[Doc]
  <2>1. /\ \A m \in Nodes : e.next[m] = IF m \in gone THEN Nil ELSE d.next[m]
        /\ \A m \in Parents : e.first[m] = IF m \in gone \union {Nil} THEN Nil ELSE d.first[m]
    BY DEF IsWithout, gone
  <2>2. Doc \in Parents /\ Nodes \subseteq Parents
    BY DEF Parents
  <2> QED
    BY <1>2, <2>1, <2>2
<1>6. Enclosed(NoToken, <<>>) = <<NoToken>> /\ <<NoToken>> \o <<>> = <<NoToken>>
  BY DEF Enclosed, NoToken, Tok
<1>7. /\ now \in [All -> Seq(U)]
      /\ \A m \in gone : now[m] = <<NoToken>>
      /\ \A m \in All \ gone : now[m] = from[m]
  <2>1. <<NoToken>> \in Seq(U)
    BY <1>0
  <2> QED
    BY <1>0, <1>2, <2>1
<1>8. /\ \A m \in gone : w[m] = NoToken
      /\ \A m \in Nodes \ gone : w[m] = v[m]
  BY <1>2 DEF Emptied
<1> HIDE DEF now, w
<1>9. now[Nil] = <<>>
  BY <1>0, <1>2, <1>7
<1>10. ASSUME NEW m \in Nodes
       PROVE  now[m] = Enclosed(w[m], now[e.first[m]]) \o now[e.next[m]]
  <2>1. CASE m \in gone
    BY <1>5, <1>6, <1>7, <1>8, <1>9, <2>1
  <2>2. CASE m \notin gone
    <3>1. now[e.first[m]] = from[d.first[m]] /\ now[e.next[m]] = from[d.next[m]]
      BY <1>4, <1>5, <1>7, <2>2
    <3> QED
      BY <1>0, <1>7, <1>8, <2>2, <3>1
  <2> QED
    BY <2>1, <2>2
<1>11. \A m \in Nodes : w[m] \in U /\ (w[m].kind # "open" => e.first[m] = Nil)
  BY <1>0, <1>5, <1>8
<1>12. Lists(e, w, U, now)
  BY <1>7, <1>9, <1>10, <1>11 DEF Lists
<1>13. now[e.first[Doc]] = from[d.first[Doc]]
  BY <1>4, <1>5, <1>7
<1> QED
  BY <1>12, <1>13 DEF w, gone

(* What is listed in p has grown by more content, and nowhere else. *)
Grown(d, from, in, p, content, e, now) ==
  /\ now[e.first[p]] = from[d.first[p]] \o content
  /\ \A q \in in \union {Doc} : q # p => now[e.first[q]] = from[d.first[q]]

(* What is listed of a new last child follows all that was listed of its    *)
(* parent's content.                                                        *)
LEMMA EndListed ==
  ASSUME NEW U, Universe(U), NEW d, NEW in, IsForest(d, in), NEW v,
         NEW from, Lists(d, v, U, from), NEW n \in in, d.parent[n] = Nil,
         NEW p \in in \union {Doc}, p # n,
         p # Doc => d.parent[p] = Nil /\ v[p].kind = "open",
         NEW e, Appended(d, p, n, e)
  PROVE  \E now : Lists(e, v, U, now) /\ Grown(d, from, in, p, from[n], e, now)
<1>. DEFINE All == Nodes \union {Nil}
            kids == {m \in in : d.parent[m] = p}
            whole == from[d.first[p]] \o from[n]
            now == [m \in All |-> IF m \in kids THEN from[m] \o from[n]
                                  ELSE IF m = p THEN Enclosed(v[p], whole) ELSE from[m]]
<1>0. /\ from \in [All -> Seq(U)] /\ from[Nil] = <<>>
      /\ \A m \in Nodes : from[m] = Enclosed(v[m], from[d.first[m]]) \o from[d.next[m]]
      /\ \A m \in Nodes : v[m] \in U /\ (v[m].kind # "open" => d.first[m] = Nil)
  BY DEF Lists
<1>1. /\ in \subseteq Nodes /\ Nil \notin Nodes /\ Doc \notin Nodes /\ Doc # Nil
      /\ p \in Parents /\ p # Nil /\ Nodes \subseteq Parents /\ Doc \in Parents
      /\ \A m \in in \union {Doc} :
           /\ d.first[m] # Nil => d.first[m] \in in /\ d.parent[d.first[m]] = m
           /\ d.last[m] # Nil => d.last[m] \in in /\ d.parent[d.last[m]] = m
           /\ d.first[m] = Nil <=> d.last[m] = Nil
      /\ \A m \in in :
           /\ d.next[m] # Nil => d.next[m] \in in /\ d.parent[d.next[m]] = d.parent[m]
           /\ d.parent[m] = Nil => d.next[m] = Nil
           /\ d.parent[m] # Nil => (d.next[m] = Nil <=> d.last[d.parent[m]] = m)
      /\ \A m \in Nodes \ in : d.first[m] = Nil /\ d.next[m] = Nil
  BY StoreAssumption DEF IsForest, Typed, Agree, Parents
<1>2. /\ \A m \in Nodes : e.next[m] = IF m = n THEN Nil ELSE IF m = d.last[p] THEN n ELSE d.next[m]
      /\ \A m \in Parents : e.first[m] = IF m = p /\ d.last[p] = Nil THEN n ELSE d.first[m]
  BY DEF Appended
<1>3. /\ n \notin kids /\ p \notin kids /\ Nil \notin kids /\ kids \subseteq Nodes
      /\ n \in Nodes
  BY <1>1
<1>4. \A m \in All : from[m] \in Seq(U)
  BY <1>0
<1>5. /\ d.first[p] \in All /\ n \in All
      /\ from[n] \in Seq(U) /\ from[d.first[p]] \in Seq(U) /\ whole \in Seq(U)
  <2>1. d.first[p] \in All /\ n \in All
    BY <1>1
  <2>2. from[n] \in Seq(U) /\ from[d.first[p]] \in Seq(U)
    BY <1>4, <2>1
  <2> QED
    BY <2>1, <2>2, ConcatProperties
<1>6. p # Doc => p \in Nodes /\ v[p] \in U /\ Enclosed(v[p], whole) \in Seq(U)
  <2>1. p # Doc => p \in Nodes /\ v[p] \in U
    BY <1>0, <1>1
  <2> QED
    BY <1>5, <2>1, EnclosedIs
<1> HIDE DEF whole
<1>7. /\ now \in [All -> Seq(U)]
      /\ \A m \in kids : now[m] = from[m] \o from[n]
      /\ p # Doc => now[p] = Enclosed(v[p], whole)
      /\ \A m \in All : m \notin kids /\ m # p => now[m] = from[m]
  <2>1. \A m \in kids : from[m] \o from[n] \in Seq(U)
    BY <1>3, <1>4, <1>5, ConcatProperties
  <2>2. \A m \in All : m = p => p # Doc
    BY <1>1
  <2> HIDE DEF kids
  <2>3. now \in [All -> Seq(U)]
    BY <1>4, <1>6, <2>1, <2>2
  <2> QED
    BY <1>1, <1>3, <1>6, <2>3
<1>8. \A m \in kids : m \in in /\ d.parent[m] = p
  OBVIOUS
<1>9. \A m \in in : d.parent[m] = p => m \in kids
  OBVIOUS
<1> HIDE DEF now, kids
(* Whose listing is the same. *)
<1>10. ASSUME NEW q \in Nodes \union {Doc}, q # p
       PROVE  e.first[q] = d.first[q] /\ now[d.first[q]] = from[d.first[q]]
  <2>1. e.first[q] = d.first[q]
    BY <1>1, <1>2, <1>10
  <2>2. CASE d.first[q] = Nil
    BY <1>1, <1>3, <1>7, <2>1, <2>2
  <2>3. CASE d.first[q] # Nil
    <3>1. q \in in \union {Doc}
      BY <1>1, <2>3
    <3>2. d.first[q] \in in /\ d.parent[d.first[q]] = q
      BY <1>1, <2>3, <3>1
    <3>3. d.first[q] \notin kids
      BY <1>8, <1>10, <3>2
    <3>4. d.first[q] # p
      <4>1. SUFFICES ASSUME d.first[q] = p PROVE FALSE
        OBVIOUS
      <4>2. p # Doc /\ d.parent[p] = q
        BY <1>1, <3>2, <4>1
      <4> QED
        BY <1>1, <1>10, <4>2
    <3> QED
      BY <1>1, <1>7, <2>1, <3>2, <3>3, <3>4
  <2> QED
    BY <2>2, <2>3
<1>11. now[n] = from[n] /\ now[Nil] = <<>>
  BY <1>0, <1>1, <1>3, <1>5, <1>7
<1>12. now[e.first[p]] = whole
  <2>1. CASE d.last[p] = Nil
    <3>1. e.first[p] = n /\ d.first[p] = Nil
      BY <1>1, <1>2, <2>1
    <3>2. whole = from[n]
      BY <1>0, <1>5, <3>1, ConcatEmptySeq DEF whole
    <3> QED
      BY <1>11, <3>1, <3>2
  <2>2. CASE d.last[p] # Nil
    <3>1. e.first[p] = d.first[p] /\ d.first[p] \in in /\ d.parent[d.first[p]] = p
      BY <1>1, <1>2, <2>2
    <3> QED
      BY <1>7, <1>9, <3>1 DEF whole
  <2> QED
    BY <2>1, <2>2
<1>13. ASSUME NEW m \in Nodes
       PROVE  now[m] = Enclosed(v[m], now[e.first[m]]) \o now[e.next[m]]
  <2>1. CASE m \in kids
    <3>1. m # n /\ m # p /\ m \in in /\ d.parent[m] = p
      BY <1>3, <1>8, <2>1
    <3>. DEFINE a == Enclosed(v[m], from[d.first[m]])
                b == from[d.next[m]]
    <3>2. from[m] = a \o b /\ now[m] = (a \o b) \o from[n]
      BY <1>0, <1>7, <2>1
    <3>3. d.first[m] \in All /\ d.next[m] \in All
      BY <1>1, <3>1
    <3>4. a \in Seq(U) /\ b \in Seq(U)
      <4>1. v[m] \in U /\ from[d.first[m]] \in Seq(U) /\ from[d.next[m]] \in Seq(U)
        BY <1>0, <1>4, <3>3
      <4> QED
        BY <4>1, EnclosedIs
    <3>5. Enclosed(v[m], now[e.first[m]]) = a
      BY <1>10, <3>1
    <3> HIDE DEF a
    <3>6. now[e.next[m]] = b \o from[n]
      <4>1. CASE m = d.last[p]
        <5>1. d.next[m] = Nil /\ e.next[m] = n
          BY <1>1, <1>2, <3>1, <4>1
        <5>2. b = <<>>
          BY <1>0, <5>1
        <5> QED
          BY <1>5, <1>11, <5>1, <5>2, ConcatEmptySeq
      <4>2. CASE m # d.last[p]
        <5>1. d.next[m] # Nil /\ e.next[m] = d.next[m]
          BY <1>1, <1>2, <3>1, <4>2
        <5>2. d.next[m] \in kids
          BY <1>1, <1>9, <3>1, <5>1
        <5> QED
          BY <1>7, <5>1, <5>2
      <4> QED
        BY <4>1, <4>2
    <3> HIDE DEF b
    <3>. DEFINE c == from[n]
    <3>7. c \in Seq(U)
      BY <1>5
    <3> HIDE DEF c
    <3>8. (a \o b) \o c = a \o (b \o c)
      BY <3>4, <3>7, ConcatAssociative
    <3> QED
      BY <3>2, <3>5, <3>6, <3>8 DEF c
  <2>2. CASE m = p
    <3>1. p # Doc /\ d.parent[p] = Nil /\ p \in in
      BY <1>1, <2>2
    <3>2. d.next[p] = Nil /\ p # d.last[p]
      <4>1. d.next[p] = Nil
        BY <1>1, <3>1
      <4>2. d.last[p] # Nil => d.parent[d.last[p]] = p
        BY <1>1, <3>1
      <4> QED
        BY <1>1, <3>1, <4>1, <4>2
    <3>3. e.next[p] = Nil
      BY <1>2, <2>2, <3>2
    <3>4. now[p] = Enclosed(v[p], whole) /\ Enclosed(v[p], whole) \in Seq(U)
      BY <1>6, <1>7, <3>1
    <3> QED
      BY <1>11, <1>12, <2>2, <3>3, <3>4, ConcatEmptySeq
  <2>3. CASE m \notin kids /\ m # p
    <3>1. now[m] = from[m] /\ now[e.first[m]] = from[d.first[m]]
      BY <1>7, <1>10, <2>3
    <3>2. now[e.next[m]] = from[d.next[m]]
      <4>1. CASE m = n
        <5>1. e.next[m] = Nil /\ d.next[m] = Nil
          BY <1>1, <1>2, <4>1
        <5> QED
          BY <1>0, <1>11, <5>1
      <4>2. CASE m # n
        <5>1. m # d.last[p]
          BY <1>1, <1>9, <2>3
        <5>2. e.next[m] = d.next[m]
          BY <1>2, <4>2, <5>1
        <5>3. CASE d.next[m] = Nil
          BY <1>0, <1>11, <5>2, <5>3
        <5>4. CASE d.next[m] # Nil
          <6>1. m \in in /\ d.next[m] \in in /\ d.parent[d.next[m]] = d.parent[m]
                /\ d.parent[m] # Nil
            BY <1>1, <5>4
          <6>2. d.next[m] \notin kids
            BY <1>8, <1>9, <2>3, <6>1
          <6>3. d.next[m] # p
            BY <1>1, <6>1
          <6> QED
            BY <1>1, <1>7, <5>2, <6>1, <6>2, <6>3
        <5> QED
          BY <5>3, <5>4
      <4> QED
        BY <4>1, <4>2
    <3> QED
      BY <1>0, <3>1, <3>2
  <2> QED
    BY <2>1, <2>2, <2>3
<1>14. \A m \in Nodes : v[m] \in U /\ (v[m].kind # "open" => e.first[m] = Nil)
  BY <1>0, <1>1, <1>2
<1>15. Lists(e, v, U, now)
  BY <1>7, <1>11, <1>13, <1>14 DEF Lists
<1>16. now[e.first[p]] = from[d.first[p]] \o from[n]
  BY <1>12 DEF whole
<1>17. \A q \in in \union {Doc} : q # p => now[e.first[q]] = from[d.first[q]]
  BY <1>1, <1>10
<1>18. Grown(d, from, in, p, from[n], e, now)
  BY <1>16, <1>17 DEF Grown
<1> QED
  BY <1>15, <1>18

(* A new node without content under p. *)
LEMMA LeafListed ==
  ASSUME NEW U, Universe(U), NEW d, NEW in, Good(d, in), NEW v, v = [m \in Nodes |-> v[m]],
         NEW from, Lists(d, v, U, from), NEW n \in Nodes \ in, NEW tok \in U, tok.kind # "open",
         NEW p \in in \union {Doc}, p # Doc => d.parent[p] = Nil /\ v[p].kind = "open",
         NEW e, Appended(d, p, n, e)
  PROVE  \E now : Lists(e, [v EXCEPT ![n] = tok], U, now) /\ Grown(d, from, in, p, <<tok>>, e, now)
<1>. DEFINE w == [v EXCEPT ![n] = tok]
            c == Created(d, n)
            all == in \union {n}
            from0 == [from EXCEPT ![n] = Enclosed(tok, <<>>)]
<1>1. IsForest(d, in) /\ d \in Stores /\ in \subseteq Nodes /\ Doc \notin Nodes
  BY StoreAssumption DEF Good, IsForest, Typed
<1>2. IsForest(c, all) /\ c.parent[n] = Nil
  BY CreatedKeeps DEF Good
<1>3. c.first = d.first /\ c.next = d.next /\ c.last = d.last /\ c.parent = d.parent
  BY <1>1, CreatedIs DEF SamePointers
<1>4. Enclosed(tok, <<>>) = <<tok>>
  BY DEF Enclosed
<1>5. /\ Lists(d, w, U, from0) /\ from0[n] = Enclosed(tok, <<>>)
      /\ \A q \in in \union {Doc} : from0[d.first[q]] = from[d.first[q]]
  BY <1>1, NewListed
<1>6. \A m \in Nodes : m # n => w[m] = v[m]
  <2>1. DOMAIN v = Nodes
    OBVIOUS
  <2> QED
    BY <2>1
<1> HIDE DEF w, c, all, from0
<1>7. Lists(c, w, U, from0)
  BY <1>3, <1>5 DEF Lists
<1>8. n \in all /\ p \in all \union {Doc} /\ p # n
  BY <1>1 DEF all
<1>9. p # Doc => c.parent[p] = Nil /\ w[p].kind = "open"
  BY <1>1, <1>3, <1>6, <1>8
<1>10. Appended(c, p, n, e)
  BY <1>3 DEF Appended
<1>11. PICK now : Lists(e, w, U, now) /\ Grown(c, from0, all, p, from0[n], e, now)
  BY <1>2, <1>7, <1>8, <1>9, <1>10, EndListed
<1>12. Grown(d, from, in, p, <<tok>>, e, now)
  <2>1. \A q \in in \union {Doc} : q \in all \union {Doc}
    BY DEF all
  <2>2. from0[n] = <<tok>> /\ from0[d.first[p]] = from[d.first[p]]
    BY <1>4, <1>5
  <2>3. now[e.first[p]] = from[d.first[p]] \o <<tok>>
    BY <1>3, <1>11, <2>2 DEF Grown
  <2>4. ASSUME NEW q \in in \union {Doc}, q # p
        PROVE  now[e.first[q]] = from[d.first[q]]
    <3>1. now[e.first[q]] = from0[c.first[q]]
      BY <1>11, <2>1, <2>4 DEF Grown
    <3> QED
      BY <1>3, <1>5, <3>1
  <2> QED
    BY <2>3, <2>4 DEF Grown
<1> QED
  BY <1>11, <1>12 DEF w
-----------------------------------------------------------------------------
(* The nodes in use and the text they came from: a token more. *)

(* The document, then the open elements. *)
Frame(stack, i) == IF i = 0 THEN Doc ELSE stack[i]

(* What was said up to the tag of a frame, and what is listed in the frame, *)
(* is what was said up to the tag of the next.                              *)
Accounts(d, stack, from, said, mark) ==
  \A i \in 0 .. Len(stack) :
    said[mark[i]] \o from[d.first[Frame(stack, i)]] = said[mark[i + 1] - 1]

(* The nodes in use, some of them open, are what was read so far. *)
Tells(d, v, in, stack, text, U, from, said, mark) ==
  /\ Universe(U) /\ text \in Seq(U)
  /\ Lists(d, v, U, from) /\ Says(text, U, said) /\ Nested(text, Len(stack), mark)
  /\ Accounts(d, stack, from, said, mark)
  /\ \A i \in 1 .. Len(stack) : v[stack[i]] = text[mark[i]]
  /\ \A n \in in : \E j \in 1 .. Len(text) : v[n] = text[j] /\ ~Blank(text[j])
  /\ stack = <<>> /\ (d.first[Doc] = Nil \/ v[d.last[Doc]].kind = "declaration") =>
       \A j \in 1 .. Len(text) : Blank(text[j]) \/ text[j].kind = "declaration"

(* What is said, and where elements open, with one token more. *)
Longer(text, tok, U, open, said, mark, said1, mark1) ==
  /\ Says(Append(text, tok), U, said1) /\ Nested(Append(text, tok), open + Rise(tok), mark1)
  /\ \A j \in 0 .. Len(text) : said1[j] = said[j]
  /\ said1[Len(text) + 1] =
       IF Blank(tok) THEN said[Len(text)] ELSE Append(said[Len(text)], Plain(tok))
  /\ \A i \in 0 .. open + Rise(tok) : mark1[i] = mark[i]
  /\ mark1[open + Rise(tok) + 1] = Len(text) + 2 /\ open + Rise(tok) \in Nat

(* There are such. *)
LEMMA OneTokenMore ==
  ASSUME NEW U, Universe(U), NEW text \in Seq(U), NEW tok \in U, NEW open \in Nat,
         NEW said, Says(text, U, said), NEW mark, Nested(text, open, mark),
         tok.kind = "close" => open > 0
  PROVE  \E said1, mark1 : Longer(text, tok, U, open, said, mark, said1, mark1)
<1>. DEFINE k == Len(text)
            now == open + Rise(tok)
            next_ == IF Blank(tok) THEN said[k] ELSE Append(said[k], Plain(tok))
            said1 == [said EXCEPT ![k + 1] = next_]
            mark1 == [mark EXCEPT ![now + 1] = k + 2]
<1>1. k \in Nat
  OBVIOUS
<1>2. Plain(tok) \in U
  BY DEF Universe, Plain
<1>3. Says(Append(text, tok), U, said1)
  BY <1>2, SaysAfter
<1>4. now \in Nat /\ Nested(Append(text, tok), now, mark1)
  BY NestedAfter
<1>5. said \in [Nat -> Seq(U)] /\ mark \in [Nat -> Nat]
  BY DEF Says, Nested
<1> HIDE DEF k, now, next_
<1>6. (\A j \in 0 .. k : said1[j] = said[j]) /\ said1[k + 1] = next_
  BY <1>1, <1>5
<1>7. (\A i \in 0 .. now : mark1[i] = mark[i]) /\ mark1[now + 1] = k + 2
  BY <1>4, <1>5
<1> HIDE DEF said1, mark1
<1>8. Longer(text, tok, U, open, said, mark, said1, mark1)
  BY <1>3, <1>4, <1>6, <1>7 DEF Longer, k, now, next_
<1> QED
  BY <1>8

(* The places that the marks name. *)
LEMMA MarksIn ==
  ASSUME NEW U, NEW text \in Seq(U), NEW open \in Nat, NEW mark, Nested(text, open, mark)
  PROVE  /\ Len(text) \in Nat
         /\ \A i \in 0 .. open : mark[i] \in 0 .. Len(text) /\ mark[i + 1] - 1 \in 0 .. Len(text)
         /\ mark[open + 1] - 1 = Len(text)
<1>1. Len(text) \in Nat
  OBVIOUS
<1>2. /\ mark[0] = 0 /\ mark[open + 1] = Len(text) + 1
      /\ \A i \in 1 .. open : mark[i] \in 1 .. Len(text)
  BY DEF Nested
<1>3. \A i \in 0 .. open : mark[i] \in 0 .. Len(text)
  BY <1>1, <1>2
<1>4. ASSUME NEW i \in 0 .. open
      PROVE  mark[i + 1] - 1 \in 0 .. Len(text)
  <2>1. CASE i = open
    BY <1>1, <1>2, <2>1
  <2>2. CASE i # open
    <3>1. i + 1 \in 1 .. open
      BY <2>2
    <3> QED
      BY <1>1, <1>2, <3>1
  <2> QED
    BY <2>1, <2>2
<1> QED
  BY <1>1, <1>2, <1>3, <1>4

(* Frames: the document and the roots of the loose trees, all different. *)
LEMMA FramesApart ==
  ASSUME NEW d, NEW in, Good(d, in)
  PROVE  /\ Len(d.unlinked) \in Nat
         /\ \A i \in 0 .. Len(d.unlinked) : Frame(d.unlinked, i) \in in \union {Doc}
         /\ \A i \in 1 .. Len(d.unlinked) :
              /\ Frame(d.unlinked, i) = d.unlinked[i] /\ d.unlinked[i] \in in
              /\ d.parent[d.unlinked[i]] = Nil
         /\ \A i, j \in 0 .. Len(d.unlinked) :
              Frame(d.unlinked, i) = Frame(d.unlinked, j) => i = j
         /\ in \subseteq Nodes /\ Doc \notin Nodes /\ Nil \notin Nodes /\ Nil # Doc
<1>1. /\ d.unlinked \in Seq(in) /\ IsInjective(d.unlinked)
      /\ ToSet(d.unlinked) = RootsOf(d, in)
      /\ in \subseteq Nodes /\ Doc \notin Nodes /\ Nil \notin Nodes /\ Nil # Doc
  BY StoreAssumption DEF Good, Listed, IsForest, Typed
<1>2. Len(d.unlinked) \in Nat /\ \A i \in 1 .. Len(d.unlinked) : d.unlinked[i] \in in
  BY <1>1
<1>3. \A i \in 1 .. Len(d.unlinked) : d.parent[d.unlinked[i]] = Nil
  BY <1>1, <1>2 DEF ToSet, RootsOf
<1>4. \A i, j \in 1 .. Len(d.unlinked) : d.unlinked[i] = d.unlinked[j] => i = j
  BY <1>1, <1>2 DEF IsInjective
<1>5. \A i \in 0 .. Len(d.unlinked) : i # 0 => i \in 1 .. Len(d.unlinked)
  BY <1>2
<1>6. \A i \in 1 .. Len(d.unlinked) : i # 0
  OBVIOUS
<1>7. \A i \in 1 .. Len(d.unlinked) : Frame(d.unlinked, i) = d.unlinked[i] /\ d.unlinked[i] # Doc
  BY <1>1, <1>2, <1>6 DEF Frame
<1>8. Frame(d.unlinked, 0) = Doc
  BY DEF Frame
<1> QED
  BY <1>1, <1>2, <1>3, <1>4, <1>5, <1>7, <1>8

(* White space adds nothing. *)
LEMMA TellsBlank ==
  ASSUME NEW d, NEW in, Good(d, in), NEW v, NEW text, NEW U, NEW from, NEW said, NEW mark,
         Tells(d, v, in, d.unlinked, text, U, from, said, mark), NEW tok \in U, Blank(tok)
  PROVE  \E said1, mark1 : Tells(d, v, in, d.unlinked, Append(text, tok), U, from, said1, mark1)
<1>. DEFINE stack == d.unlinked
            l == Len(stack)
            k == Len(text)
            long == Append(text, tok)
<1>0. /\ Universe(U) /\ text \in Seq(U) /\ Lists(d, v, U, from) /\ Says(text, U, said)
      /\ Nested(text, l, mark) /\ l \in Nat
  BY FramesApart DEF Tells
<1>1. /\ \A i \in 0 .. l : said[mark[i]] \o from[d.first[Frame(stack, i)]] = said[mark[i + 1] - 1]
      /\ \A i \in 1 .. l : v[stack[i]] = text[mark[i]]
      /\ \A n \in in : \E j \in 1 .. k : v[n] = text[j] /\ ~Blank(text[j])
      /\ stack = <<>> /\ (d.first[Doc] = Nil \/ v[d.last[Doc]].kind = "declaration") =>
           \A j \in 1 .. k : Blank(text[j]) \/ text[j].kind = "declaration"
  BY DEF Tells, Accounts
<1>2. tok.kind = "text" /\ Rise(tok) = 0 /\ tok.kind # "close"
  BY DEF Blank, Rise
<1>3. /\ k \in Nat /\ long \in Seq(U) /\ Len(long) = k + 1
      /\ \A i \in 1 .. k : long[i] = text[i]
      /\ long[k + 1] = tok
  BY <1>0, OneMore
<1>4. /\ \A i \in 0 .. l : mark[i] \in 0 .. k /\ mark[i + 1] - 1 \in 0 .. k
      /\ mark[l + 1] - 1 = k
      /\ \A i \in 1 .. l : mark[i] \in 1 .. k
  BY <1>0, MarksIn DEF Nested
<1> HIDE DEF stack, l, k, long
<1>5. PICK said1, mark1 : Longer(text, tok, U, l, said, mark, said1, mark1)
  BY <1>0, <1>2, OneTokenMore
<1>6. /\ Says(long, U, said1) /\ Nested(long, l, mark1)
      /\ \A j \in 0 .. k : said1[j] = said[j]
      /\ said1[k + 1] = said[k]
      /\ \A i \in 0 .. l : mark1[i] = mark[i]
      /\ mark1[l + 1] = k + 2
  <2>1. l + Rise(tok) = l
    BY <1>0, <1>2
  <2> QED
    BY <1>5, <2>1 DEF Longer, k, long
<1>7. ASSUME NEW i \in 0 .. l
      PROVE  said1[mark1[i]] \o from[d.first[Frame(stack, i)]] = said1[mark1[i + 1] - 1]
  <2>1. said1[mark1[i]] = said[mark[i]]
    BY <1>4, <1>6
  <2>2. said1[mark1[i + 1] - 1] = said[mark[i + 1] - 1]
    <3>1. CASE i = l
      <4>1. mark1[i + 1] - 1 = k + 1
        BY <1>3, <1>6, <3>1
      <4> QED
        BY <1>4, <1>6, <3>1, <4>1
    <3>2. CASE i # l
      <4>1. i + 1 \in 0 .. l
        BY <1>0, <3>2
      <4> QED
        BY <1>4, <1>6, <4>1
    <3> QED
      BY <3>1, <3>2
  <2> QED
    BY <1>1, <2>1, <2>2
<1>8. \A i \in 1 .. l : v[stack[i]] = long[mark1[i]]
  BY <1>1, <1>3, <1>4, <1>6
<1>9. \A n \in in : \E j \in 1 .. k + 1 : v[n] = long[j] /\ ~Blank(long[j])
  <2>1. SUFFICES ASSUME NEW n \in in PROVE \E j \in 1 .. k + 1 : v[n] = long[j] /\ ~Blank(long[j])
    OBVIOUS
  <2>2. PICK j \in 1 .. k : v[n] = text[j] /\ ~Blank(text[j])
    BY <1>1
  <2>3. j \in 1 .. k + 1
    BY <1>3
  <2> QED
    BY <1>3, <2>2, <2>3
<1>10. stack = <<>> /\ (d.first[Doc] = Nil \/ v[d.last[Doc]].kind = "declaration") =>
         \A j \in 1 .. k + 1 : Blank(long[j]) \/ long[j].kind = "declaration"
  <2>1. \A j \in 1 .. k + 1 : j \in 1 .. k \/ j = k + 1
    BY <1>3
  <2> QED
    BY <1>1, <1>3, <2>1
<1>11. Accounts(d, stack, from, said1, mark1)
  BY <1>7 DEF Accounts, l
<1>12. Tells(d, v, in, stack, long, U, from, said1, mark1)
  BY <1>0, <1>3, <1>6, <1>8, <1>9, <1>10, <1>11 DEF Tells, l
<1> QED
  BY <1>12 DEF stack, long

(* A node that was made of the token, with the innermost frame's content.   *)
LEMMA TellsLeaf ==
  ASSUME NEW d, NEW in, Good(d, in), NEW v, v = [m \in Nodes |-> v[m]],
         NEW text, NEW U, NEW from, NEW said, NEW mark,
         Tells(d, v, in, d.unlinked, text, U, from, said, mark),
         NEW tok \in U, tok.kind \notin {"open", "close"}, ~Blank(tok),
         tok.kind = "declaration" =>
           d.unlinked = <<>> /\ (d.first[Doc] = Nil \/ v[d.last[Doc]].kind = "declaration"),
         NEW n \in Nodes \ in,
         NEW e, Appended(d, Frame(d.unlinked, Len(d.unlinked)), n, e)
  PROVE  \E from1, said1, mark1 :
           Tells(e, [v EXCEPT ![n] = tok], in \union {n}, d.unlinked, Append(text, tok),
                 U, from1, said1, mark1)
<1>. DEFINE stack == d.unlinked
            l == Len(stack)
            k == Len(text)
            long == Append(text, tok)
            w == [v EXCEPT ![n] = tok]
            p == Frame(stack, l)
            all == in \union {n}
<1>0. /\ Universe(U) /\ text \in Seq(U) /\ Lists(d, v, U, from) /\ Says(text, U, said)
      /\ Nested(text, l, mark) /\ l \in Nat
  BY FramesApart DEF Tells
<1>1. /\ \A i \in 0 .. l : said[mark[i]] \o from[d.first[Frame(stack, i)]] = said[mark[i + 1] - 1]
      /\ \A i \in 1 .. l : v[stack[i]] = text[mark[i]]
      /\ \A m \in in : \E j \in 1 .. k : v[m] = text[j] /\ ~Blank(text[j])
      /\ stack = <<>> /\ (d.first[Doc] = Nil \/ v[d.last[Doc]].kind = "declaration") =>
           \A j \in 1 .. k : Blank(text[j]) \/ text[j].kind = "declaration"
  BY DEF Tells, Accounts
<1>2. Rise(tok) = 0 /\ Plain(tok) = tok /\ Enclosed(tok, <<>>) = <<tok>> /\ tok.kind # "close"
  BY DEF Rise, Plain, Enclosed
<1>3. /\ k \in Nat /\ long \in Seq(U) /\ Len(long) = k + 1
      /\ \A i \in 1 .. k : long[i] = text[i]
      /\ long[k + 1] = tok
  BY <1>0, OneMore
<1>4. /\ \A i \in 0 .. l : mark[i] \in 0 .. k /\ mark[i + 1] - 1 \in 0 .. k
      /\ mark[l + 1] - 1 = k
      /\ \A i \in 1 .. l : mark[i] \in 1 .. k /\ text[mark[i]].kind = "open"
  BY <1>0, MarksIn DEF Nested
<1>5. /\ \A i \in 0 .. l : Frame(stack, i) \in in \union {Doc}
      /\ \A i \in 1 .. l : Frame(stack, i) = stack[i] /\ stack[i] \in in /\ d.parent[stack[i]] = Nil
      /\ \A i, j \in 0 .. l : Frame(stack, i) = Frame(stack, j) => i = j
      /\ in \subseteq Nodes /\ Doc \notin Nodes /\ Nil \notin Nodes /\ Nil # Doc
      /\ Frame(stack, 0) = Doc
  BY FramesApart DEF Frame
<1>6. /\ d \in Stores /\ Agree(d, in)
  BY DEF Good, IsForest
<1>7. w[n] = tok /\ \A m \in Nodes : m # n => w[m] = v[m]
  <2>1. DOMAIN v = Nodes
    OBVIOUS
  <2> QED
    BY <2>1
<1> HIDE DEF stack, l, k, long, p
<1>10. p \in in \union {Doc} /\ (p # Doc => d.parent[p] = Nil /\ v[p].kind = "open")
  <2>1. p \in in \union {Doc}
    BY <1>0, <1>5 DEF p
  <2>2. ASSUME p # Doc
        PROVE  d.parent[p] = Nil /\ v[p].kind = "open"
    <3>1. l \in 1 .. l
      BY <1>0, <1>5, <2>2 DEF p
    <3>2. p = stack[l]
      BY <1>5, <3>1 DEF p
    <3> QED
      BY <1>1, <1>4, <1>5, <3>1, <3>2
  <2> QED
    BY <2>1, <2>2
<1>11. Appended(d, p, n, e)
  BY DEF p, stack, l
<1>12. PICK from1 : Lists(e, w, U, from1) /\ Grown(d, from, in, p, <<tok>>, e, from1)
  <2>1. Universe(U) /\ Lists(d, v, U, from) /\ tok.kind # "open"
    BY <1>0
  <2> QED
    BY <1>10, <1>11, <2>1, LeafListed
<1> HIDE DEF w, all
<1>13. /\ from1[e.first[p]] = from[d.first[p]] \o <<tok>>
       /\ \A q \in in \union {Doc} : q # p => from1[e.first[q]] = from[d.first[q]]
  BY <1>12 DEF Grown
<1>14. PICK said1, mark1 : Longer(text, tok, U, l, said, mark, said1, mark1)
  BY <1>0, <1>2, OneTokenMore
<1>15. /\ Says(long, U, said1) /\ Nested(long, l, mark1)
       /\ \A j \in 0 .. k : said1[j] = said[j]
       /\ said1[k + 1] = Append(said[k], tok)
       /\ \A i \in 0 .. l : mark1[i] = mark[i]
       /\ mark1[l + 1] = k + 2
  <2>1. l + Rise(tok) = l
    BY <1>0, <1>2
  <2> QED
    BY <1>2, <1>14, <2>1 DEF Longer, k, long
<1>16. ASSUME NEW i \in 0 .. l
       PROVE  said1[mark1[i]] \o from1[e.first[Frame(stack, i)]] = said1[mark1[i + 1] - 1]
  <2>1. said1[mark1[i]] = said[mark[i]]
    BY <1>4, <1>15
  <2>2. CASE i = l
    <3>. DEFINE a == said[mark[l]]
                b == from[d.first[p]]
    <3>1. mark1[i + 1] - 1 = k + 1
      BY <1>3, <1>15, <2>2
    <3>2. a \o b = said[k]
      <4>1. l \in 0 .. l
        BY <1>0
      <4>2. said[mark[l]] \o from[d.first[Frame(stack, l)]] = said[mark[l + 1] - 1]
        BY <1>1, <4>1
      <4> QED
        BY <1>4, <4>2 DEF p
    <3>3. a \in Seq(U) /\ b \in Seq(U) /\ said[k] \in Seq(U)
      <4>1. \A j \in 0 .. k : said[j] \in Seq(U)
        BY <1>0, <1>3 DEF Says
      <4>2. d.first[p] \in Nodes \union {Nil}
        BY <1>6, <1>10, <1>5, StoreTypes DEF Parents
      <4>3. from[d.first[p]] \in Seq(U)
        BY <1>0, <4>2 DEF Lists
      <4> QED
        BY <1>0, <1>3, <1>4, <4>1, <4>3
    <3>4. from1[e.first[Frame(stack, i)]] = b \o <<tok>>
      BY <1>13, <2>2 DEF p
    <3> HIDE DEF a, b
    <3>5. a \o (b \o <<tok>>) = (a \o b) \o <<tok>>
      <4>1. <<tok>> \in Seq(U)
        OBVIOUS
      <4> QED
        BY <3>3, <4>1, ConcatAssociative
    <3>6. said[k] \o <<tok>> = Append(said[k], tok)
      BY <3>3, AppendIsConcat
    <3>7. said1[mark1[i]] = a
      BY <2>1, <2>2 DEF a
    <3> QED
      BY <1>15, <3>1, <3>2, <3>4, <3>5, <3>6, <3>7
  <2>3. CASE i # l
    <3>1. i + 1 \in 0 .. l
      BY <1>0, <2>3
    <3>2. said1[mark1[i + 1] - 1] = said[mark[i + 1] - 1]
      BY <1>4, <1>15, <3>1
    <3>3. Frame(stack, i) # p /\ Frame(stack, i) \in in \union {Doc}
      BY <1>0, <1>5, <2>3 DEF p
    <3> QED
      BY <1>1, <1>13, <2>1, <3>2, <3>3
  <2> QED
    BY <2>2, <2>3
<1>17. \A i \in 1 .. l : w[stack[i]] = long[mark1[i]]
  <2>1. SUFFICES ASSUME NEW i \in 1 .. l PROVE w[stack[i]] = long[mark1[i]]
    OBVIOUS
  <2>2. i \in 0 .. l /\ stack[i] \in Nodes /\ stack[i] # n
    BY <1>5
  <2>3. w[stack[i]] = v[stack[i]]
    BY <1>7, <2>2
  <2>4. v[stack[i]] = text[mark[i]] /\ mark[i] \in 1 .. k /\ mark1[i] = mark[i]
    BY <1>1, <1>4, <1>15, <2>2
  <2> QED
    BY <1>3, <2>3, <2>4
<1>18. \A m \in all : \E j \in 1 .. k + 1 : w[m] = long[j] /\ ~Blank(long[j])
  <2>1. SUFFICES ASSUME NEW m \in all PROVE \E j \in 1 .. k + 1 : w[m] = long[j] /\ ~Blank(long[j])
    OBVIOUS
  <2>2. CASE m = n
    <3>1. k + 1 \in 1 .. k + 1
      BY <1>3
    <3> QED
      BY <1>3, <1>7, <2>2, <3>1
  <2>3. CASE m # n
    <3>1. m \in in /\ w[m] = v[m]
      BY <1>5, <1>7, <2>3 DEF all
    <3>2. PICK j \in 1 .. k : v[m] = text[j] /\ ~Blank(text[j])
      BY <1>1, <3>1
    <3>3. j \in 1 .. k + 1
      BY <1>3
    <3> QED
      BY <1>3, <3>1, <3>2, <3>3
  <2> QED
    BY <2>2, <2>3
<1>19. ASSUME stack = <<>>, e.first[Doc] = Nil \/ w[e.last[Doc]].kind = "declaration",
              NEW j \in 1 .. k + 1
       PROVE  Blank(long[j]) \/ long[j].kind = "declaration"
  <2>1. p = Doc
    <3>1. l = 0
      BY <1>19 DEF l
    <3> QED
      BY <1>5, <3>1 DEF p
  <2>2. e.first[Doc] # Nil /\ e.last[Doc] = n
    <3>1. /\ e.first[Doc] = IF d.last[Doc] = Nil THEN n ELSE d.first[Doc]
          /\ e.last[Doc] = n
      BY <1>11, <2>1 DEF Appended, Parents
    <3>2. d.first[Doc] = Nil <=> d.last[Doc] = Nil
      BY <1>6 DEF Agree
    <3> QED
      BY <1>5, <3>1, <3>2
  <2>3. tok.kind = "declaration"
    BY <1>7, <1>19, <2>2
  <2>4. j \in 1 .. k \/ j = k + 1
    BY <1>3
  <2> QED
    BY <1>1, <1>3, <2>3, <2>4 DEF stack
<1>20. Accounts(e, stack, from1, said1, mark1)
  BY <1>16 DEF Accounts, l
<1>21. Tells(e, w, all, stack, long, U, from1, said1, mark1)
  BY <1>0, <1>3, <1>12, <1>15, <1>17, <1>18, <1>19, <1>20 DEF Tells, l
<1> QED
  BY <1>21 DEF stack, long, w, all

(* Only the pointers matter. *)
LEMMA TellsSame ==
  ASSUME NEW d, NEW e, SamePointers(d, e), NEW v, NEW in, NEW stack, NEW text, NEW U,
         NEW from, NEW said, NEW mark, Tells(d, v, in, stack, text, U, from, said, mark)
  PROVE  Tells(e, v, in, stack, text, U, from, said, mark)
<1>1. e.first = d.first /\ e.next = d.next /\ e.last = d.last
  BY DEF SamePointers
<1>2. Lists(e, v, U, from) /\ Accounts(e, stack, from, said, mark)
  BY <1>1 DEF Tells, Lists, Accounts
<1> QED
  BY <1>1, <1>2 DEF Tells

(* An element that opens is the innermost frame. *)
LEMMA TellsOpen ==
  ASSUME NEW d, NEW in, Good(d, in), NEW v, v = [m \in Nodes |-> v[m]],
         NEW text, NEW U, NEW from, NEW said, NEW mark,
         Tells(d, v, in, d.unlinked, text, U, from, said, mark),
         NEW tok \in U, tok.kind = "open", NEW n \in Nodes \ in, NEW e, SamePointers(d, e)
  PROVE  \E from1, said1, mark1 :
           Tells(e, [v EXCEPT ![n] = tok], in \union {n}, Append(d.unlinked, n),
                 Append(text, tok), U, from1, said1, mark1)
<1>. DEFINE stack == d.unlinked
            l == Len(stack)
            k == Len(text)
            long == Append(text, tok)
            w == [v EXCEPT ![n] = tok]
            all == in \union {n}
            new == Append(stack, n)
            from1 == [from EXCEPT ![n] = Enclosed(tok, <<>>)]
<1>0. /\ Universe(U) /\ text \in Seq(U) /\ Lists(d, v, U, from) /\ Says(text, U, said)
      /\ Nested(text, l, mark) /\ l \in Nat
  BY FramesApart DEF Tells
<1>1. /\ \A i \in 0 .. l : said[mark[i]] \o from[d.first[Frame(stack, i)]] = said[mark[i + 1] - 1]
      /\ \A i \in 1 .. l : v[stack[i]] = text[mark[i]]
      /\ \A m \in in : \E j \in 1 .. k : v[m] = text[j] /\ ~Blank(text[j])
  BY DEF Tells, Accounts
<1>2. Rise(tok) = 1 /\ ~Blank(tok) /\ tok.kind # "close"
  BY DEF Rise, Blank
<1>3. /\ k \in Nat /\ long \in Seq(U) /\ Len(long) = k + 1
      /\ \A i \in 1 .. k : long[i] = text[i]
      /\ long[k + 1] = tok
  BY <1>0, OneMore
<1>4. /\ \A i \in 0 .. l : mark[i] \in 0 .. k /\ mark[i + 1] - 1 \in 0 .. k
      /\ mark[l + 1] = k + 1
      /\ \A i \in 1 .. l : mark[i] \in 1 .. k
  BY <1>0, MarksIn DEF Nested
<1>5. /\ \A i \in 0 .. l : Frame(stack, i) \in in \union {Doc}
      /\ \A i \in 1 .. l : stack[i] \in in
      /\ in \subseteq Nodes /\ Doc \notin Nodes /\ Nil \notin Nodes /\ Nil # Doc
  BY FramesApart
<1>6. /\ IsForest(d, in)
      /\ Len(new) = l + 1 /\ new[l + 1] = n /\ \A i \in 1 .. l : new[i] = stack[i]
  <2>1. stack \in Seq(in)
    BY DEF Good, Listed
  <2>2. stack \in Seq(Nodes)
    BY <1>5, <2>1
  <2> QED
    BY <2>2 DEF Good
<1>7. w[n] = tok /\ \A m \in Nodes : m # n => w[m] = v[m]
  <2>1. DOMAIN v = Nodes
    OBVIOUS
  <2> QED
    BY <2>1
<1>8. /\ Lists(d, w, U, from1) /\ d.first[n] = Nil
      /\ \A q \in in \union {Doc} : from1[d.first[q]] = from[d.first[q]]
  <2>1. Universe(U) /\ IsForest(d, in) /\ Lists(d, v, U, from)
    BY <1>0, <1>6
  <2> QED
    BY <2>1, NewListed
<1>9. \A i \in 0 .. l : Frame(new, i) = Frame(stack, i)
  BY <1>0, <1>6 DEF Frame
<1>10. Frame(new, l + 1) = n
  BY <1>0, <1>6 DEF Frame
<1> HIDE DEF stack, l, k, long, w, all, new, from1
<1>11. PICK said1, mark1 : Longer(text, tok, U, l, said, mark, said1, mark1)
  BY <1>0, <1>2, OneTokenMore
<1>12. /\ Says(long, U, said1) /\ Nested(long, l + 1, mark1)
       /\ \A j \in 0 .. k : said1[j] = said[j]
       /\ said1 \in [Nat -> Seq(U)]
       /\ \A i \in 0 .. l + 1 : mark1[i] = mark[i]
       /\ mark1[(l + 1) + 1] = k + 2
  BY <1>2, <1>11 DEF Longer, k, long, Says
<1>13. ASSUME NEW i \in 0 .. l
       PROVE  said1[mark1[i]] \o from1[d.first[Frame(new, i)]] = said1[mark1[i + 1] - 1]
  <2>1. i \in 0 .. l + 1 /\ i + 1 \in 0 .. l + 1
    BY <1>0
  <2>2. said1[mark1[i]] = said[mark[i]] /\ said1[mark1[i + 1] - 1] = said[mark[i + 1] - 1]
    BY <1>4, <1>12, <2>1
  <2>3. from1[d.first[Frame(new, i)]] = from[d.first[Frame(stack, i)]]
    BY <1>5, <1>8, <1>9
  <2> QED
    BY <1>1, <2>2, <2>3
<1>14. said1[mark1[l + 1]] \o from1[d.first[Frame(new, l + 1)]] = said1[mark1[(l + 1) + 1] - 1]
  <2>1. from1[d.first[Frame(new, l + 1)]] = <<>>
    BY <1>8, <1>10 DEF Lists
  <2>2. mark1[l + 1] = k + 1 /\ mark1[(l + 1) + 1] - 1 = k + 1
    <3>1. l + 1 \in 0 .. l + 1
      BY <1>0
    <3> QED
      BY <1>3, <1>4, <1>12, <3>1
  <2>3. said1[k + 1] \in Seq(U)
    BY <1>3, <1>12
  <2> QED
    BY <2>1, <2>2, <2>3, ConcatEmptySeq
<1>15. Accounts(d, new, from1, said1, mark1)
  <2>1. \A i \in 0 .. l + 1 : i \in 0 .. l \/ i = l + 1
    BY <1>0
  <2>2. \A i \in 0 .. l + 1 :
          said1[mark1[i]] \o from1[d.first[Frame(new, i)]] = said1[mark1[i + 1] - 1]
    BY <1>13, <1>14, <2>1
  <2> QED
    BY <1>6, <2>2 DEF Accounts
<1>16. \A i \in 1 .. l + 1 : w[new[i]] = long[mark1[i]]
  <2>1. SUFFICES ASSUME NEW i \in 1 .. l + 1 PROVE w[new[i]] = long[mark1[i]]
    OBVIOUS
  <2>2. mark1[i] = mark[i]
    BY <1>0, <1>12
  <2>3. CASE i = l + 1
    BY <1>3, <1>4, <1>6, <1>7, <2>2, <2>3
  <2>4. CASE i # l + 1
    <3>1. i \in 1 .. l
      BY <1>0, <2>4
    <3>2. new[i] = stack[i] /\ stack[i] \in Nodes /\ stack[i] # n
      BY <1>5, <1>6, <3>1
    <3>3. w[new[i]] = text[mark[i]] /\ mark[i] \in 1 .. k
      BY <1>1, <1>4, <1>7, <3>1, <3>2
    <3> QED
      BY <1>3, <2>2, <3>3
  <2> QED
    BY <2>3, <2>4
<1>17. \A m \in all : \E j \in 1 .. k + 1 : w[m] = long[j] /\ ~Blank(long[j])
  <2>1. SUFFICES ASSUME NEW m \in all PROVE \E j \in 1 .. k + 1 : w[m] = long[j] /\ ~Blank(long[j])
    OBVIOUS
  <2>2. CASE m = n
    <3>1. k + 1 \in 1 .. k + 1
      BY <1>3
    <3> QED
      BY <1>2, <1>3, <1>7, <2>2, <3>1
  <2>3. CASE m # n
    <3>1. m \in in /\ w[m] = v[m]
      BY <1>5, <1>7, <2>3 DEF all
    <3>2. PICK j \in 1 .. k : v[m] = text[j] /\ ~Blank(text[j])
      BY <1>1, <3>1
    <3>3. j \in 1 .. k + 1
      BY <1>3
    <3> QED
      BY <1>3, <3>1, <3>2, <3>3
  <2> QED
    BY <2>2, <2>3
<1>18. new # <<>>
  <2>1. Len(new) # 0
    BY <1>0, <1>6
  <2> QED
    BY <2>1
<1>19. Tells(d, w, all, new, long, U, from1, said1, mark1)
  BY <1>0, <1>3, <1>6, <1>8, <1>12, <1>15, <1>16, <1>17, <1>18 DEF Tells
<1>20. Tells(e, w, all, new, long, U, from1, said1, mark1)
  BY <1>19, TellsSame
<1> QED
  BY <1>20 DEF stack, long, w, all, new

(* A closing tag ends the innermost frame: the element is in its parent.    *)
LEMMA TellsClose ==
  ASSUME NEW d, NEW in, Good(d, in), d.unlinked # <<>>, NEW v,
         NEW text, NEW U, NEW from, NEW said, NEW mark,
         Tells(d, v, in, d.unlinked, text, U, from, said, mark),
         NEW tok \in U, tok.kind = "close", NEW n, n = Last(d.unlinked), tok.name = v[n].name,
         NEW p, p = Frame(d.unlinked, Len(d.unlinked) - 1), NEW e, Appended(d, p, n, e)
  PROVE  \E from1, said1, mark1 :
           Tells(e, v, in, Front(d.unlinked), Append(text, tok), U, from1, said1, mark1)
<1>. DEFINE stack == d.unlinked
            l == Len(stack)
            k == Len(text)
            long == Append(text, tok)
            new == Front(stack)
            t == v[n]
<1>0. /\ Universe(U) /\ text \in Seq(U) /\ Lists(d, v, U, from) /\ Says(text, U, said)
      /\ Nested(text, l, mark) /\ l \in Nat
  BY FramesApart DEF Tells
<1>1. /\ \A i \in 0 .. l : said[mark[i]] \o from[d.first[Frame(stack, i)]] = said[mark[i + 1] - 1]
      /\ \A i \in 1 .. l : v[stack[i]] = text[mark[i]]
      /\ \A m \in in : \E j \in 1 .. k : v[m] = text[j] /\ ~Blank(text[j])
  BY DEF Tells, Accounts
<1>2. Rise(tok) = -1 /\ ~Blank(tok) /\ Plain(tok) = Closing(tok.name)
  BY DEF Rise, Blank, Plain
<1>3. /\ k \in Nat /\ long \in Seq(U) /\ Len(long) = k + 1
      /\ \A i \in 1 .. k : long[i] = text[i]
      /\ long[k + 1] = tok
  BY <1>0, OneMore
<1>4. /\ \A i \in 0 .. l : mark[i] \in 0 .. k /\ mark[i + 1] - 1 \in 0 .. k
      /\ mark[l + 1] - 1 = k
      /\ \A i \in 1 .. l : mark[i] \in 1 .. k /\ text[mark[i]].kind = "open"
  BY <1>0, MarksIn DEF Nested
<1>5. /\ \A i \in 0 .. l : Frame(stack, i) \in in \union {Doc}
      /\ \A i \in 1 .. l : /\ Frame(stack, i) = stack[i] /\ stack[i] \in in
                           /\ d.parent[stack[i]] = Nil
      /\ \A i, j \in 0 .. l : Frame(stack, i) = Frame(stack, j) => i = j
      /\ in \subseteq Nodes /\ Doc \notin Nodes /\ Nil \notin Nodes /\ Nil # Doc
      /\ Frame(stack, 0) = Doc
  BY FramesApart DEF Frame
<1>6. /\ d \in Stores /\ IsForest(d, in) /\ Agree(d, in) /\ stack \in Seq(in) /\ IsInjective(stack)
  BY DEF Good, Listed, IsForest
<1>7. /\ l \in Nat \ {0} /\ l \in 1 .. l /\ l - 1 \in 0 .. l /\ l - 1 \in Nat /\ (l - 1) + 1 = l
      /\ n = stack[l] /\ Len(new) = l - 1
      /\ \A i \in 1 .. l - 1 : new[i] = stack[i]
  <2>1. l \in Nat \ {0} /\ Len(new) = l - 1
    BY <1>6, LastTakenOff
  <2>2. \A i \in 1 .. l - 1 : new[i] = stack[i]
    BY <1>6, <2>1 DEF Front
  <2>3. n = stack[l]
    BY DEF Last
  <2>4. l \in 1 .. l /\ l - 1 \in 0 .. l /\ l - 1 \in Nat /\ (l - 1) + 1 = l
    BY <2>1
  <2> QED
    BY <2>1, <2>2, <2>3, <2>4
<1>8. /\ n \in in /\ d.parent[n] = Nil /\ p \in in \union {Doc} /\ p # n
      /\ t = text[mark[l]] /\ t.kind = "open" /\ mark[l] \in 1 .. k
  <2>1. n = Frame(stack, l)
    BY <1>5, <1>7
  <2>2. p = Frame(stack, l - 1)
    OBVIOUS
  <2>3. l \in 0 .. l /\ l # l - 1
    BY <1>7
  <2>4. p # n
    BY <1>5, <1>7, <2>1, <2>2, <2>3
  <2>5. p \in in \union {Doc}
    BY <1>5, <1>7, <2>2
  <2>6. n \in in /\ d.parent[n] = Nil
    BY <1>5, <1>7
  <2>7. v[stack[l]] = text[mark[l]] /\ mark[l] \in 1 .. k /\ text[mark[l]].kind = "open"
    BY <1>1, <1>4, <1>7
  <2>8. t = text[mark[l]]
    BY <1>7, <2>7
  <2> QED
    BY <2>4, <2>5, <2>6, <2>7, <2>8
<1>9. p # Doc => d.parent[p] = Nil /\ v[p].kind = "open"
  <2>1. SUFFICES ASSUME p # Doc PROVE d.parent[p] = Nil /\ v[p].kind = "open"
    OBVIOUS
  <2>2. l - 1 # 0
    BY <1>5, <2>1
  <2>3. l - 1 \in 1 .. l
    <3> HIDE DEF l
    <3> QED
      BY <1>7, <2>2
  <2>4. p = stack[l - 1]
    BY <1>5, <2>3
  <2>5. d.parent[stack[l - 1]] = Nil
    BY <1>5, <2>3
  <2>6. v[stack[l - 1]] = text[mark[l - 1]] /\ text[mark[l - 1]].kind = "open"
    BY <1>1, <1>4, <2>3
  <2> QED
    BY <2>4, <2>5, <2>6
<1> HIDE DEF stack, l, k, long, new, t
<1>10. \A i \in 0 .. l - 1 : Frame(new, i) = Frame(stack, i)
  BY <1>7 DEF Frame
<1>11. PICK from1 : Lists(e, v, U, from1) /\ Grown(d, from, in, p, from[n], e, from1)
  <2>1. Universe(U) /\ Lists(d, v, U, from) /\ IsForest(d, in)
    BY <1>0, <1>6
  <2> QED
    BY <1>8, <1>9, <2>1, EndListed
<1>12. /\ from1[e.first[p]] = from[d.first[p]] \o from[n]
       /\ \A q \in in \union {Doc} : q # p => from1[e.first[q]] = from[d.first[q]]
  BY <1>11 DEF Grown
<1>13. PICK said1, mark1 : Longer(text, tok, U, l, said, mark, said1, mark1)
  BY <1>0, <1>7, OneTokenMore
<1>14. /\ Says(long, U, said1) /\ Nested(long, l - 1, mark1)
       /\ \A j \in 0 .. k : said1[j] = said[j]
       /\ said1[k + 1] = Append(said[k], Closing(tok.name))
       /\ \A i \in 0 .. l - 1 : mark1[i] = mark[i]
       /\ mark1[(l - 1) + 1] = k + 2
  <2>1. l + Rise(tok) = l - 1
    BY <1>2, <1>7
  <2> QED
    BY <1>2, <1>13, <2>1 DEF Longer, k, long
<1>15. said1[mark1[l - 1]] \o from1[e.first[Frame(new, l - 1)]] = said1[mark1[(l - 1) + 1] - 1]
  <2>. DEFINE a == said[mark[l - 1]]
              b == from[d.first[p]]
              f == from[d.first[n]]
              c == Closing(tok.name)
  <2>1. /\ p \in Parents /\ n \in Parents /\ n \in Nodes
        /\ d.first[p] \in Nodes \union {Nil} /\ d.first[n] \in Nodes \union {Nil}
    BY <1>5, <1>6, <1>8, StoreTypes DEF Parents
  <2>2. \A j \in 0 .. k : said[j] \in Seq(U)
    BY <1>0, <1>3 DEF Says
  <2>3. a \in Seq(U) /\ b \in Seq(U) /\ f \in Seq(U) /\ t \in U /\ c \in U
    <3>1. b \in Seq(U) /\ f \in Seq(U) /\ t \in U
      BY <1>0, <2>1 DEF Lists, t
    <3>2. c \in U
      BY <1>0 DEF Universe
    <3>3. a \in Seq(U)
      BY <1>4, <1>7, <2>2
    <3> QED
      BY <3>1, <3>2, <3>3
  <2>4. a \o b = said[mark[l] - 1]
    <3>1. said[mark[l - 1]] \o from[d.first[Frame(stack, l - 1)]] = said[mark[(l - 1) + 1] - 1]
      BY <1>1, <1>7
    <3>2. p = Frame(stack, l - 1)
      BY DEF stack, l
    <3> QED
      BY <1>7, <3>1, <3>2
  <2>5. said[mark[l]] = Append(said[mark[l] - 1], t)
    <3>1. ~Blank(t) /\ Plain(t) = t
      BY <1>8 DEF Blank, Plain
    <3>2. mark[l] \in 1 .. Len(text)
      BY <1>8 DEF k
    <3> QED
      BY <1>0, <1>8, <3>1, <3>2 DEF Says
  <2>6. said[mark[l]] \o f = said[k]
    <3>1. l \in 0 .. l /\ n = Frame(stack, l)
      BY <1>5, <1>7
    <3>2. said[mark[l]] \o from[d.first[Frame(stack, l)]] = said[mark[l + 1] - 1]
      BY <1>1, <3>1
    <3> QED
      BY <1>4, <3>1, <3>2
  <2>7. from[n] = Enclosed(t, f)
    <3>1. d.next[n] = Nil
      BY <1>6, <1>8 DEF Agree
    <3>2. from[n] = Enclosed(t, f) \o <<>>
      BY <1>0, <2>1, <3>1 DEF Lists, t
    <3>3. Enclosed(t, f) \in Seq(U)
      BY <1>0, <2>3, EnclosedIs
    <3> QED
      BY <3>2, <3>3, ConcatEmptySeq
  <2>8. Frame(new, l - 1) = p /\ mark1[l - 1] = mark[l - 1] /\ l - 1 \in 0 .. l - 1
    BY <1>7, <1>10, <1>14 DEF stack, l
  <2>9. said1[mark1[l - 1]] = a /\ mark1[(l - 1) + 1] - 1 = k + 1
    BY <1>3, <1>4, <1>7, <1>14, <2>8
  <2>10. from1[e.first[Frame(new, l - 1)]] = b \o from[n]
    BY <1>12, <2>8
  <2> HIDE DEF a, b, f, c
  <2>11. a \o (b \o Enclosed(t, f)) = Append(said[k], c)
    <3>. DEFINE x == <<t>>
                y == <<c>>
                ab == a \o b
                xf == x \o f
                z == xf \o y
    <3>1. x \in Seq(U) /\ y \in Seq(U)
      BY <2>3
    <3>2. Enclosed(t, f) = z
      <4>1. c = Closing(t.name)
        BY DEF c, t
      <4> QED
        BY <1>8, <4>1 DEF Enclosed
    <3>3. ab \in Seq(U)
      BY <2>3, ConcatProperties
    <3>4. said[k] = (ab \o x) \o f
      <4>1. Append(ab, t) = ab \o x
        BY <2>3, <3>3, AppendIsConcat
      <4> QED
        BY <2>4, <2>5, <2>6, <4>1
    <3> HIDE DEF x, y
    <3>5. xf \in Seq(U) /\ z \in Seq(U)
      BY <2>3, <3>1, ConcatProperties
    <3> HIDE DEF ab
    <3>6. (ab \o x) \o f = ab \o xf
      <4>1. f \in Seq(U)
        BY <2>3
      <4>2. (ab \o x) \o f = ab \o (x \o f)
        BY ONLY <3>1, <3>3, <4>1, ConcatAssociative
      <4> QED
        BY <4>2 DEF xf
    <3> HIDE DEF xf
    <3>7. (ab \o xf) \o y = ab \o z
      BY <3>1, <3>3, <3>5, ConcatAssociative
    <3> HIDE DEF z
    <3>8. ab \o z = a \o (b \o z)
      <4>1. a \in Seq(U) /\ b \in Seq(U)
        BY <2>3
      <4>2. (a \o b) \o z = a \o (b \o z)
        BY ONLY <3>5, <4>1, ConcatAssociative
      <4> QED
        BY <4>2 DEF ab
    <3>9. Append(said[k], c) = said[k] \o y
      <4>1. said[k] \in Seq(U)
        BY <1>3, <2>2
      <4> QED
        BY <2>3, <4>1, AppendIsConcat DEF y
    <3> QED
      BY <3>2, <3>4, <3>6, <3>7, <3>8, <3>9
  <2>13. said1[k + 1] = Append(said[k], c)
    BY <1>14 DEF c
  <2> QED
    BY <2>7, <2>9, <2>10, <2>11, <2>13
<1>16. ASSUME NEW i \in 0 .. l - 1, i # l - 1
       PROVE  said1[mark1[i]] \o from1[e.first[Frame(new, i)]] = said1[mark1[i + 1] - 1]
  <2>1. i \in 0 .. l /\ i + 1 \in 0 .. l - 1
    BY <1>7, <1>16
  <2>2. said1[mark1[i]] = said[mark[i]] /\ said1[mark1[i + 1] - 1] = said[mark[i + 1] - 1]
    BY <1>4, <1>14, <2>1
  <2>3. /\ Frame(new, i) = Frame(stack, i) /\ Frame(stack, i) # p
        /\ Frame(stack, i) \in in \union {Doc}
    <3>1. p = Frame(stack, l - 1)
      BY DEF stack, l
    <3> QED
      BY <1>5, <1>7, <1>10, <1>16, <2>1, <3>1
  <2> QED
    BY <1>1, <1>12, <2>1, <2>2, <2>3
<1>17. Accounts(e, new, from1, said1, mark1)
  <2>1. \A i \in 0 .. l - 1 :
          said1[mark1[i]] \o from1[e.first[Frame(new, i)]] = said1[mark1[i + 1] - 1]
    BY <1>15, <1>16
  <2> QED
    BY <1>7, <2>1 DEF Accounts
<1>18. \A i \in 1 .. l - 1 : v[new[i]] = long[mark1[i]]
  <2>1. SUFFICES ASSUME NEW i \in 1 .. l - 1 PROVE v[new[i]] = long[mark1[i]]
    OBVIOUS
  <2>2. i \in 1 .. l /\ i \in 0 .. l - 1
    BY <1>7
  <2>3. v[stack[i]] = text[mark[i]] /\ mark[i] \in 1 .. k /\ mark1[i] = mark[i]
    BY <1>1, <1>4, <1>14, <2>2
  <2> QED
    BY <1>3, <1>7, <2>3
<1>19. \A m \in in : \E j \in 1 .. k + 1 : v[m] = long[j] /\ ~Blank(long[j])
  <2>1. SUFFICES ASSUME NEW m \in in PROVE \E j \in 1 .. k + 1 : v[m] = long[j] /\ ~Blank(long[j])
    OBVIOUS
  <2>2. PICK j \in 1 .. k : v[m] = text[j] /\ ~Blank(text[j])
    BY <1>1
  <2>3. j \in 1 .. k + 1
    BY <1>3
  <2> QED
    BY <1>3, <2>2, <2>3
<1>20. ASSUME new = <<>>, e.first[Doc] = Nil \/ v[e.last[Doc]].kind = "declaration"
       PROVE  FALSE
  <2>1. l - 1 = 0
    BY <1>7, <1>20
  <2>2. p = Doc
    BY <1>5, <2>1 DEF stack, l
  <2>3. /\ e.first[Doc] = IF d.last[Doc] = Nil THEN n ELSE d.first[Doc]
        /\ e.last[Doc] = n
    BY <2>2 DEF Appended, Parents
  <2>4. d.first[Doc] = Nil <=> d.last[Doc] = Nil
    BY <1>6 DEF Agree
  <2>5. n # Nil
    BY <1>5, <1>8
  <2> QED
    BY <1>8, <1>20, <2>3, <2>4, <2>5 DEF t
<1>21. Tells(e, v, in, new, long, U, from1, said1, mark1)
  BY <1>0, <1>3, <1>7, <1>11, <1>14, <1>17, <1>18, <1>19, <1>20 DEF Tells
<1> QED
  BY <1>21 DEF stack, long, new
-----------------------------------------------------------------------------
(* The invariant of the text, and the steps of the reading. *)

(* Runs of characters are apart, in what comes and where it begins. *)
Bordered(text, coming) ==
  /\ Parted(coming)
  /\ text # <<>> /\ coming # <<>> =>
       ~(text[Len(text)].kind = "text" /\ coming[1].kind = "text")

(* The document is the longest well-formed beginning of the text. *)
Holds(d, v, text, whole) ==
  \E U, from : /\ Universe(U) /\ Lists(d, v, U, from)
               /\ from[d.first[Doc]] = Significant(text)[Best(text, whole)]

(* The text so far is correct, and its nodes tell it. *)
ReadingTells ==
  phase = "reading" =>
    /\ AllCorrect(input, ~more) /\ Bordered(input, rest)
    /\ ~more => \E j \in 1 .. Len(input) : ~Blank(input[j])
    /\ \E U, from, said, mark :
         rest \in Seq(U) /\ Tells(doc, value, live, frames, input, U, from, said, mark)

(* A text that is not accepted is reported, if need be by a frame around.   *)
FailingTells ==
  phase = "failing" =>
    /\ ~Accepted(input, ~more) /\ Holds(doc, value, input, ~more)
    /\ error # "none" \/ frames # <<>>

EndedTells ==
  phase = "ended" =>
    Accepted(input, ~more) /\ Holds(doc, value, input, ~more) /\ error = "none"

(* What is printed is no text to be read yet, and its runs are apart. *)
PrintingTells == (phase = "printing" => origin = "none") /\ Parted(out)

TextInv ==
  ReadingTells /\ FailingTells /\ EndedTells /\ PrintingTells /\ ParsesWhatIsThere

(* A token read, and what is still to come. *)
LEMMA TokenRead ==
  ASSUME NEW U, Universe(U), rest \in Seq(U), input \in Seq(U), Bordered(input, rest),
         NEW tok \in Coming, NEW last \in BOOLEAN, Read(tok, last)
  PROVE  /\ tok \in U /\ rest' \in Seq(U) /\ Bordered(input', rest')
         /\ input' = Append(input, tok) /\ more /\ more' = ~last /\ origin' = origin
         /\ Blank(tok) /\ input # <<>> => \E j \in 1 .. Len(input) : ~Blank(input[j])
<1>1. /\ input' = Append(input, tok) /\ more /\ more' = ~last /\ origin' = origin
      /\ rest' = IF rest = <<>> THEN rest ELSE Tail(rest)
      /\ Chosen(tok, last)
  BY DEF Read
<1>2. Blank(tok) => tok.kind = "text"
  BY DEF Blank
<1>3. ASSUME input # <<>>
      PROVE  Len(input) \in 1 .. Len(input) /\ Last(input) = input[Len(input)]
  BY <1>3 DEF Last
<1>4. CASE rest = <<>>
  <2>1. tok \in U /\ rest' = <<>>
    BY <1>1, <1>4, TokensAssumption DEF Coming, Universe
  <2>2. rest' \in Seq(U) /\ Bordered(input', rest')
    BY <2>1 DEF Bordered, Parted
  <2>3. ASSUME Blank(tok), input # <<>>
        PROVE  \E j \in 1 .. Len(input) : ~Blank(input[j])
    <3>1. Last(input).kind # "text"
      BY <1>1, <1>2, <1>4, <2>3 DEF Chosen
    <3> QED
      BY <1>3, <2>3, <3>1 DEF Blank
  <2> QED
    BY <1>1, <2>1, <2>2, <2>3
<1>5. CASE rest # <<>>
  <2>1. tok = rest[1] /\ rest' = Tail(rest) /\ tok \in U /\ rest' \in Seq(U)
        /\ Len(rest) \in Nat \ {0} /\ Len(rest') = Len(rest) - 1
        /\ \A i \in 1 .. Len(rest') : rest'[i] = rest[i + 1]
    BY <1>1, <1>5 DEF Coming
  <2>2. \A i \in 1 .. Len(rest) - 1 : ~(rest[i].kind = "text" /\ rest[i + 1].kind = "text")
    BY DEF Bordered, Parted
  <2>3. Parted(rest')
    <3>1. ASSUME NEW i \in 1 .. Len(rest') - 1
          PROVE  ~(rest'[i].kind = "text" /\ rest'[i + 1].kind = "text")
      <4>1. i \in 1 .. Len(rest') /\ i + 1 \in 1 .. Len(rest') /\ i + 1 \in 1 .. Len(rest) - 1
        BY <2>1
      <4> QED
        BY <2>1, <2>2, <4>1
    <3> QED
      BY <3>1 DEF Parted
  <2>4. ASSUME rest' # <<>>
        PROVE  ~(tok.kind = "text" /\ rest'[1].kind = "text")
    <3>1. Len(rest') # 0
      BY <2>1, <2>4
    <3>2. 1 \in 1 .. Len(rest') /\ 1 \in 1 .. Len(rest) - 1
      BY <2>1, <3>1
    <3> QED
      BY <2>1, <2>2, <3>2
  <2>5. input'[Len(input')] = tok
    BY <1>1, <2>1
  <2>6. Bordered(input', rest')
    BY <2>3, <2>4, <2>5 DEF Bordered
  <2>7. ASSUME Blank(tok), input # <<>>
        PROVE  \E j \in 1 .. Len(input) : ~Blank(input[j])
    <3>1. input[Len(input)].kind # "text"
      BY <1>2, <1>5, <2>1, <2>7 DEF Bordered
    <3> QED
      BY <1>3, <2>7, <3>1 DEF Blank
  <2> QED
    BY <1>1, <2>1, <2>6, <2>7
<1> QED
  BY <1>4, <1>5

(* When the token that comes next is correct. *)
LEMMA CorrectHere ==
  ASSUME NEW U, NEW text \in Seq(U), NEW tok \in U, NEW open \in Nat, NEW mark,
         Nested(text, open, mark), NEW last \in BOOLEAN, tok.kind = "close" => open > 0
  PROVE  Correct(Append(text, tok), last, Len(text) + 1) <=>
           /\ Blank(tok) \/ Failure(tok, last) = "none"
           /\ tok.kind = "open" => ~last /\ open + 2 < MaxDepth
           /\ tok.kind = "close" => text[mark[open]].name = tok.name
           /\ tok.kind = "declaration" =>
                \A j \in 1 .. Len(text) : Blank(text[j]) \/ text[j].kind = "declaration"
<1>. DEFINE k == Len(text)
            long == Append(text, tok)
<1>1. /\ k \in Nat /\ Len(long) = k + 1 /\ long[k + 1] = tok
      /\ \A i \in 1 .. k : long[i] = text[i]
  BY OneMore
<1>2. Level(long, k + 1) = open
  <2>1. Level(text, k + 1) = open
    BY DEF Nested
  <2>2. k + 1 \in 1 .. k + 1
    BY <1>1
  <2> QED
    BY <2>1, <2>2, LevelsAfter
<1>3. tok.kind = "close" => long[Opener(long, k + 1)] = text[mark[open]]
  <2>1. SUFFICES ASSUME tok.kind = "close" PROVE long[Opener(long, k + 1)] = text[mark[open]]
    OBVIOUS
  <2>2. open \in Nat \ {0}
    BY <2>1
  <2>3. mark[open] \in 1 .. k /\ Opener(long, k + 1) = mark[open]
    BY <2>2, OpenerNext
  <2> HIDE DEF k, long
  <2> QED
    BY <1>1, <2>3
<1>4. 1 .. (k + 1) - 1 = 1 .. k
  BY <1>1
<1> HIDE DEF k, long
<1>5. Correct(long, last, k + 1) <=>
        /\ Blank(tok) \/ Failure(tok, last) = "none"
        /\ tok.kind = "open" => ~last /\ open + 2 < MaxDepth
        /\ tok.kind = "close" => text[mark[open]].name = tok.name
        /\ tok.kind = "declaration" =>
             \A j \in 1 .. k : long[j].kind = "declaration" \/ Blank(long[j])
  <2>1. (last /\ k + 1 = Len(long)) = last
    BY <1>1
  <2>2. long[k + 1] = tok /\ Level(long, k + 1) = open
    BY <1>1, <1>2
  <2> QED
    BY <1>3, <1>4, <2>1, <2>2 DEF Correct
<1> QED
  BY <1>1, <1>5 DEF k, long

(* The places in front stay correct. *)
LEMMA CorrectBefore ==
  ASSUME NEW U, NEW text \in Seq(U), NEW tok \in U, NEW open, NEW mark,
         Nested(text, open, mark), NEW last \in BOOLEAN, AllCorrect(text, FALSE),
         Correct(Append(text, tok), last, Len(text) + 1)
  PROVE  AllCorrect(Append(text, tok), last)
<1>. DEFINE k == Len(text)
            long == Append(text, tok)
<1>1. k \in Nat /\ Len(long) = k + 1
  BY OneMore
<1>2. ASSUME NEW i \in 1 .. k
      PROVE  Correct(long, last, i)
  <2>1. text[i].kind = "close" => Opener(text, i) \in 1 .. i - 1
    BY DEF Nested
  <2>2. Correct(long, last, i) = Correct(text, FALSE, i)
    BY <2>1, CorrectAfter
  <2> QED
    BY <2>2 DEF AllCorrect
<1>3. \A i \in 1 .. k + 1 : i \in 1 .. k \/ i = k + 1
  BY <1>1
<1>4. \A i \in 1 .. k + 1 : Correct(long, last, i)
  BY <1>2, <1>3
<1> QED
  BY <1>1, <1>4 DEF AllCorrect

(* The first and the last child of the document show whether declarations   *)
(* and white space are all that was read.                                   *)
LEMMA LocatedIs ==
  ASSUME DocumentInv, NEW U, NEW from, NEW said, NEW mark,
         Tells(doc, value, live, frames, input, U, from, said, mark), NEW tok
  PROVE  WellLocated(tok) <=>
           (tok.kind = "declaration" =>
              \A j \in 1 .. Len(input) : Blank(input[j]) \/ input[j].kind = "declaration")
<1>1. /\ Typed(doc, live) /\ Agree(doc, live) /\ Nil \notin live
  BY StoreAssumption DEF DocumentInv, TreesAreSound, Good, IsForest, Typed
<1>2. SUFFICES ASSUME tok.kind = "declaration"
               PROVE  WellLocated(tok) <=>
                 \A j \in 1 .. Len(input) : Blank(input[j]) \/ input[j].kind = "declaration"
  BY DEF WellLocated
<1>3. ASSUME WellLocated(tok)
      PROVE  \A j \in 1 .. Len(input) : Blank(input[j]) \/ input[j].kind = "declaration"
  <2>1. /\ frames = <<>>
        /\ doc.first[Doc] = Nil \/ value[doc.last[Doc]].kind = "declaration"
    BY <1>2, <1>3 DEF WellLocated
  <2> QED
    BY <2>1 DEF Tells
<1>4. ASSUME ~WellLocated(tok)
      PROVE  \E j \in 1 .. Len(input) : ~(Blank(input[j]) \/ input[j].kind = "declaration")
  <2>1. CASE frames # <<>>
    <3>1. frames \in Seq(live)
      BY DEF DocumentInv, TreesAreSound, FramesFollow, Good, Listed
    <3>2. 1 \in 1 .. Len(frames)
      BY <2>1, <3>1
    <3>3. mark[1] \in 1 .. Len(input) /\ input[mark[1]].kind = "open"
      BY <3>2 DEF Tells, Nested
    <3> QED
      BY <3>3 DEF Blank
  <2>2. CASE frames = <<>>
    <3>1. PICK n \in {doc.first[Doc], doc.last[Doc]} :
            doc.first[Doc] # Nil /\ value[n].kind # "declaration"
      BY <1>2, <1>4, <2>2 DEF WellLocated
    <3>2. n \in live
      <4>1. doc.first[Doc] \in live \union {Nil} /\ doc.last[Doc] \in live \union {Nil}
            /\ (doc.first[Doc] = Nil <=> doc.last[Doc] = Nil)
        BY <1>1 DEF Typed, Agree
      <4> QED
        BY <3>1, <4>1
    <3>3. PICK j \in 1 .. Len(input) : value[n] = input[j] /\ ~Blank(input[j])
      BY <3>2 DEF Tells
    <3> QED
      BY <3>1, <3>3
  <2> QED
    BY <2>1, <2>2
<1> QED
  BY <1>3, <1>4

(* What the children of the document tell ends where the first open element *)
(* begins.                                                                  *)
LEMMA DocumentTells ==
  ASSUME NEW d \in Stores, NEW v, NEW in, NEW stack, Len(stack) \in Nat, NEW text, NEW U,
         NEW from, NEW said, NEW mark, Tells(d, v, in, stack, text, U, from, said, mark)
  PROVE  from[d.first[Doc]] = said[mark[1] - 1]
<1>1. 0 \in 0 .. Len(stack) /\ Frame(stack, 0) = Doc /\ 0 + 1 = 1
  BY DEF Frame
<1>2. said[mark[0]] \o from[d.first[Frame(stack, 0)]] = said[mark[0 + 1] - 1]
  BY <1>1 DEF Tells, Accounts
<1>3. said[mark[0]] = <<>>
  BY DEF Tells, Says, Nested
<1>4. from[d.first[Doc]] \in Seq(U)
  BY StoreTypes DEF Tells, Lists, Parents
<1>. DEFINE x == from[d.first[Doc]]
<1>5. <<>> \o x = said[mark[1] - 1]
  BY <1>1, <1>2, <1>3
<1> HIDE DEF x
<1>6. <<>> \o x = x
  BY <1>4, ConcatEmptySeq DEF x
<1> QED
  BY <1>5, <1>6 DEF x

(* With a token that is not correct where it stands the document is what it *)
(* was in front of the first open element.                                  *)
LEMMA NoMoreTold ==
  ASSUME DocumentInv, NEW U, NEW from, NEW said, NEW mark,
         Tells(doc, value, live, frames, input, U, from, said, mark), AllCorrect(input, FALSE),
         NEW tok \in U, NEW last \in BOOLEAN, ~Correct(Append(input, tok), last, Len(input) + 1),
         tok.kind = "close" /\ frames = <<>> => Failure(tok, last) # "none"
  PROVE  /\ ~Accepted(Append(input, tok), last)
         /\ from[doc.first[Doc]]
              = Significant(Append(input, tok))[Best(Append(input, tok), last)]
<1>. DEFINE long == Append(input, tok)
            b == mark[1] - 1
            said1 == [said EXCEPT ![Len(input) + 1] =
                        IF Blank(tok) THEN said[Len(input)]
                        ELSE Append(said[Len(input)], Plain(tok))]
<1>1. /\ Universe(U) /\ input \in Seq(U) /\ Says(input, U, said)
      /\ Nested(input, Len(frames), mark) /\ Len(frames) \in Nat
      /\ (Len(frames) = 0 => frames = <<>>)
  <2>1. frames \in Seq(live)
    BY DEF DocumentInv, TreesAreSound, FramesFollow, Good, Listed
  <2> QED
    BY <2>1 DEF Tells
<1>2. ~Accepted(long, last) /\ Best(long, last) = b
  BY <1>1, Refused
<1>3. Len(input) \in Nat /\ Len(long) = Len(input) + 1
  BY <1>1, OneMore
<1>4. b \in 0 .. Len(input)
  BY <1>1, NestedEnds
<1>5. Says(long, U, said1)
  <2>1. Plain(tok) \in U
    BY <1>1 DEF Universe, Plain
  <2> QED
    BY <1>1, <2>1, SaysAfter
<1>6. said1[b] = said[b]
  <2>1. said \in [Nat -> Seq(U)]
    BY <1>1 DEF Says
  <2> HIDE DEF b
  <2>2. b # Len(input) + 1
    BY <1>3, <1>4
  <2> QED
    BY <2>1, <2>2
<1> HIDE DEF said1
<1>7. b \in 0 .. Len(long)
  BY <1>3, <1>4
<1>8. long \in Seq(U)
  BY <1>1, OneMore
<1>9. Significant(long)[b] = said1[b]
  BY <1>5, <1>7, <1>8, SignificantIs
<1>10. from[doc.first[Doc]] = said[b]
  <2>1. doc \in Stores
    BY DEF DocumentInv, TreesAreSound, Good, IsForest
  <2> QED
    BY <1>1, <2>1, DocumentTells
<1> QED
  BY <1>2, <1>6, <1>9, <1>10

(* Three ways on. *)
LEMMA StillReading ==
  ASSUME TextInv, UNCHANGED out, phase' = "reading", AllCorrect(input', ~more'),
         Bordered(input', rest'), ~more' => \E j \in 1 .. Len(input') : ~Blank(input'[j]),
         NEW U, NEW from, NEW said, NEW mark, rest' \in Seq(U),
         Tells(doc', value', live', frames', input', U, from, said, mark)
  PROVE  TextInv'
<1>1. ReadingTells'
  BY DEF ReadingTells
<1>2. FailingTells' /\ EndedTells' /\ ParsesWhatIsThere'
  BY DEF FailingTells, EndedTells, ParsesWhatIsThere
<1>3. PrintingTells'
  BY DEF TextInv, PrintingTells
<1> QED
  BY <1>1, <1>2, <1>3 DEF TextInv

(* A token is refused, or the text ends too early. *)
LEMMA NowFailing ==
  ASSUME TextInv, UNCHANGED out, phase' = "failing", ~Accepted(input', ~more'),
         Holds(doc', value', input', ~more'), error' # "none" \/ frames' # <<>>
  PROVE  TextInv'
<1>1. FailingTells'
  BY DEF FailingTells
<1>2. ReadingTells' /\ EndedTells' /\ ParsesWhatIsThere'
  BY DEF ReadingTells, EndedTells, ParsesWhatIsThere
<1>3. PrintingTells'
  BY DEF TextInv, PrintingTells
<1> QED
  BY <1>1, <1>2, <1>3 DEF TextInv

(* The text ends where it may. *)
LEMMA NowEnded ==
  ASSUME TextInv, UNCHANGED out, phase' = "ended", Accepted(input', ~more'),
         Holds(doc', value', input', ~more'), error' = "none"
  PROVE  TextInv'
<1>1. EndedTells'
  BY DEF EndedTells
<1>2. ReadingTells' /\ FailingTells' /\ ParsesWhatIsThere'
  BY DEF ReadingTells, FailingTells, ParsesWhatIsThere
<1>3. PrintingTells'
  BY DEF TextInv, PrintingTells
<1> QED
  BY <1>1, <1>2, <1>3 DEF TextInv

(* What is known when a token is read: of the text, of the token and of the *)
(* state.                                                                   *)
Starts(tok, last, U, from, said, mark) ==
  /\ Universe(U) /\ input \in Seq(U) /\ Says(input, U, said)
  /\ Nested(input, Len(frames), mark) /\ Lists(doc, value, U, from)
  /\ Tells(doc, value, live, frames, input, U, from, said, mark)
  /\ AllCorrect(input, FALSE)
  /\ tok \in U /\ rest' \in Seq(U) /\ Bordered(input', rest')
  /\ input' = Append(input, tok) /\ more' = ~last
  /\ Blank(tok) /\ input # <<>> => \E j \in 1 .. Len(input) : ~Blank(input[j])
  /\ phase = "reading" /\ error = "none" /\ UNCHANGED out
  /\ Good(doc, live) /\ doc \in Stores /\ doc.unlinked = frames
  /\ value = [m \in Nodes |-> value[m]]
  /\ frames \in Seq(live) /\ Len(frames) \in Nat /\ Unused \in Nodes \ live
  /\ (Len(frames) = 0 <=> frames = <<>>)

(* When one is read that is so. *)
LEMMA ReadingFrom ==
  ASSUME DocumentInv, TextInv, UNCHANGED printerVars, NEW tok \in Coming, NEW last \in BOOLEAN,
         Read(tok, last)
  PROVE  \E U, from, said, mark : Starts(tok, last, U, from, said, mark)
<1>1. /\ phase = "reading" /\ error = "none" /\ Unused \in Nodes \ live /\ frames \in Seq(live)
  BY Reading
<1>2. PICK U, from, said, mark :
        rest \in Seq(U) /\ Tells(doc, value, live, frames, input, U, from, said, mark)
  BY <1>1 DEF TextInv, ReadingTells
<1>3. AllCorrect(input, ~more) /\ Bordered(input, rest)
  BY <1>1 DEF TextInv, ReadingTells
<1>4. /\ Universe(U) /\ input \in Seq(U) /\ Says(input, U, said)
      /\ Nested(input, Len(frames), mark) /\ Lists(doc, value, U, from)
  BY <1>2 DEF Tells
<1>5. /\ tok \in U /\ rest' \in Seq(U) /\ Bordered(input', rest')
      /\ input' = Append(input, tok) /\ more /\ more' = ~last
      /\ Blank(tok) /\ input # <<>> => \E j \in 1 .. Len(input) : ~Blank(input[j])
  BY <1>2, <1>3, <1>4, TokenRead
<1>6. AllCorrect(input, FALSE)
  BY <1>3, <1>5
<1>7. /\ Good(doc, live) /\ doc \in Stores /\ doc.unlinked = frames
      /\ value = [m \in Nodes |-> value[m]]
  BY DEF DocumentInv, TreesAreSound, FramesFollow, ValuesFollow, Valued, Good, IsForest
<1>8. Len(frames) \in Nat /\ (Len(frames) = 0 <=> frames = <<>>)
  BY <1>1
<1>9. UNCHANGED out
  BY DEF printerVars
<1> QED
  BY <1>1, <1>2, <1>4, <1>5, <1>6, <1>7, <1>8, <1>9 DEF Starts

(* White space between tags. *)
LEMMA BlankTells ==
  ASSUME DocumentInv, TextInv, UNCHANGED printerVars, NEW tok \in Coming, NEW last \in BOOLEAN,
         ReadBlank(tok, last)
  PROVE  TextInv'
<1>0. Blank(tok) /\ Read(tok, last) /\ UNCHANGED <<doc, live, value, frames, depth>>
  BY DEF ReadBlank
<1>. DEFINE long == Append(input, tok)
<1>1. PICK U, from, said, mark : Starts(tok, last, U, from, said, mark)
  BY <1>0, ReadingFrom
<1>a. /\ Universe(U) /\ input \in Seq(U) /\ Says(input, U, said)
      /\ Nested(input, Len(frames), mark) /\ Lists(doc, value, U, from)
      /\ AllCorrect(input, FALSE) /\ tok \in U
  BY <1>1 DEF Starts
<1>b. Tells(doc, value, live, frames, input, U, from, said, mark)
  BY <1>1 DEF Starts
<1>c. /\ Good(doc, live) /\ doc \in Stores /\ doc.unlinked = frames
      /\ value = [m \in Nodes |-> value[m]]
      /\ frames \in Seq(live) /\ Len(frames) \in Nat /\ Unused \in Nodes \ live
      /\ (Len(frames) = 0 <=> frames = <<>>)
  BY <1>1 DEF Starts
<1>d. input' = Append(input, tok) /\ more' = ~last /\ UNCHANGED out
  BY <1>1 DEF Starts
<1>e. rest' \in Seq(U) /\ Bordered(input', rest')
  BY <1>1 DEF Starts
<1>f. phase = "reading" /\ error = "none"
  BY <1>1 DEF Starts
<1>2. Correct(long, last, Len(input) + 1)
  <2>1. tok.kind = "text"
    BY <1>0 DEF Blank
  <2>2. Correct(long, last, Len(input) + 1) <=>
          /\ Blank(tok) \/ Failure(tok, last) = "none"
          /\ tok.kind = "open" => ~last /\ Len(frames) + 2 < MaxDepth
          /\ tok.kind = "close" => input[mark[Len(frames)]].name = tok.name
          /\ tok.kind = "declaration" =>
               \A j \in 1 .. Len(input) : Blank(input[j]) \/ input[j].kind = "declaration"
    BY <1>a, <1>c, <2>1, CorrectHere
  <2> QED
    BY <1>0, <2>1, <2>2
<1>3. AllCorrect(long, last)
  BY <1>a, <1>2, CorrectBefore
<1>4. PICK said1, mark1 : Tells(doc, value, live, frames, long, U, from, said1, mark1)
  <2>1. Tells(doc, value, live, doc.unlinked, input, U, from, said, mark)
    BY <1>b, <1>c
  <2>2. \E said1, mark1 : Tells(doc, value, live, doc.unlinked, long, U, from, said1, mark1)
    BY <1>0, <1>a, <1>c, <2>1, TellsBlank
  <2> QED
    BY <1>c, <2>2
<1>5. Len(input) \in Nat /\ Len(long) = Len(input) + 1 /\ long \in Seq(U)
      /\ \A i \in 1 .. Len(input) : long[i] = input[i]
  BY <1>a, OneMore
<1> HIDE DEF long
<1>6. input' = long /\ AllCorrect(input', ~more')
  BY <1>3, <1>d DEF long
<1>7. CASE ~(last /\ input = <<>>)
  <2>1. phase' = "reading"
    BY <1>0, <1>7, <1>f DEF ReadBlank, GoesOn
  <2>2. ASSUME ~more'
        PROVE  \E j \in 1 .. Len(input') : ~Blank(input'[j])
    <3>1. input # <<>>
      BY <1>7, <1>d, <2>2
    <3>2. PICK j \in 1 .. Len(input) : ~Blank(input[j])
      BY <1>0, <1>1, <3>1 DEF Starts
    <3>3. j \in 1 .. Len(long)
      BY <1>5
    <3> QED
      BY <1>5, <1>6, <3>2, <3>3
  <2>3. Tells(doc', value', live', frames', input', U, from, said1, mark1)
    BY <1>0, <1>4, <1>6
  <2> QED
    BY <1>6, <1>d, <1>e, <2>1, <2>2, <2>3, StillReading
<1>8. CASE last /\ input = <<>>
  <2>1. phase' = "failing" /\ error' = "EMPTY_DOCUMENT"
    BY <1>8 DEF ReadBlank, Fails
  <2>2. Len(input) = 0
    BY <1>8
  <2>3. frames = <<>> /\ Len(frames) = 0
    <3>1. ASSUME Len(frames) # 0
          PROVE  FALSE
      <4>1. Len(frames) \in Nat \ {0}
        BY <1>c, <3>1
      <4>2. 1 \in 1 .. Len(frames)
        BY <4>1
      <4>3. mark[1] \in 1 .. Len(input)
        BY ONLY <1>a, <4>2 DEF Nested
      <4> QED
        BY <2>2, <4>3
    <3> QED
      BY <1>c, <3>1
  <2>4. Nested(long, 0, mark1) /\ Says(long, U, said1)
    BY <1>4, <2>3 DEF Tells
  <2>5. Len(long) = 1 /\ long[1] = tok
    BY <1>5, <1>a, <2>2, OneMore DEF long
  <2>6. said1[Len(long)] = <<>>
    <3>1. 1 \in 1 .. Len(long)
      BY <2>5
    <3>2. said1[1] = said1[1 - 1]
      BY <1>0, <2>4, <2>5, <3>1 DEF Says
    <3>3. 1 - 1 = 0
      OBVIOUS
    <3> QED
      BY <2>4, <2>5, <3>2, <3>3 DEF Says
  <2>7. ~Accepted(long, TRUE) /\ Best(long, TRUE) = Len(long)
    <3>1. AllCorrect(long, TRUE)
      BY <1>3, <1>8
    <3> QED
      BY <1>5, <2>4, <2>6, <3>1, BlankRefused
  <2>8. from[doc.first[Doc]] = <<>>
    <3>1. from[doc.first[Doc]] = said1[mark1[1] - 1]
      BY <1>4, <1>c, DocumentTells
    <3>2. mark1[0 + 1] = Len(long) + 1
      BY <2>4 DEF Nested
    <3>3. mark1[1] - 1 = Len(long)
      BY <2>5, <3>2
    <3> QED
      BY <2>6, <3>1, <3>3
  <2>9. Significant(long)[Best(long, TRUE)] = <<>>
    <3>1. Len(long) \in 0 .. Len(long)
      BY <2>5
    <3>2. Significant(long)[Len(long)] = said1[Len(long)]
      BY <1>5, <2>4, <3>1, SignificantIs
    <3> QED
      BY <2>6, <2>7, <3>2
  <2>10. Holds(doc, value, long, TRUE)
    BY <1>a, <2>8, <2>9 DEF Holds
  <2>11. ~Accepted(input', ~more') /\ Holds(doc', value', input', ~more')
    BY <1>0, <1>6, <1>8, <1>d, <2>7, <2>10
  <2>12. error' # "none"
    BY <2>1
  <2> QED
    BY <1>d, <2>1, <2>11, <2>12, NowFailing
<1> QED
  BY <1>7, <1>8

(* A token is refused: what is left in use must tell of the document what it *)
(* told before.                                                             *)
LEMMA RefusedTells ==
  ASSUME DocumentInv, TextInv, NEW tok, NEW last \in BOOLEAN,
         NEW U, NEW from, NEW said, NEW mark, Starts(tok, last, U, from, said, mark),
         ~Correct(Append(input, tok), last, Len(input) + 1),
         tok.kind = "close" /\ frames = <<>> => Failure(tok, last) # "none",
         phase' = "failing", error' # "none",
         NEW now, Lists(doc', value', U, now), now[doc'.first[Doc]] = from[doc.first[Doc]]
  PROVE  TextInv'
<1>. DEFINE long == Append(input, tok)
<1>1. Universe(U) /\ AllCorrect(input, FALSE) /\ tok \in U
  BY DEF Starts
<1>2. Tells(doc, value, live, frames, input, U, from, said, mark)
  BY DEF Starts
<1>3. input' = long /\ more' = ~last /\ UNCHANGED out
  BY DEF Starts
<1>4. ~Accepted(long, last) /\ from[doc.first[Doc]] = Significant(long)[Best(long, last)]
  BY <1>1, <1>2, NoMoreTold
<1> HIDE DEF long
<1>5. last = ~more'
  BY <1>3
<1>6. ~Accepted(input', ~more')
  BY <1>3, <1>4, <1>5
<1>7. Holds(doc', value', input', ~more')
  BY <1>1, <1>3, <1>4, <1>5 DEF Holds
<1> QED
  BY <1>3, <1>6, <1>7, NowFailing

(* Nothing came of the node. *)
LEMMA PassingTells ==
  ASSUME DocumentInv, TextInv, NEW tok, NEW last \in BOOLEAN,
         NEW U, NEW from, NEW said, NEW mark, Starts(tok, last, U, from, said, mark),
         ~Correct(Append(input, tok), last, Len(input) + 1),
         tok.kind = "close" /\ frames = <<>> => Failure(tok, last) # "none",
         phase' = "failing", error' # "none",
         doc' = Discarded(Created(doc, Unused), Unused), value' = value
  PROVE  TextInv'
<1>1. Good(doc, live) /\ Unused \in Nodes \ live /\ Lists(doc, value, U, from)
  BY DEF Starts
<1>2. SamePointers(doc, doc')
  BY <1>1, PassingNode
<1>3. Lists(doc', value', U, from) /\ doc'.first = doc.first
  BY <1>1, <1>2 DEF Lists, SamePointers
<1> QED
  BY <1>3, RefusedTells

(* A node that is made of a token or comes to nothing. *)
LEMMA LeafTells ==
  ASSUME DocumentInv, TextInv, UNCHANGED printerVars, NEW tok \in Coming, NEW last \in BOOLEAN,
         ReadLeaf(tok, last)
  PROVE  TextInv'
<1>. DEFINE n == Unused
            bad == Failure(tok, last) # "none" \/ ~WellLocated(tok)
            long == Append(input, tok)
<1>0. /\ tok.kind \notin {"open", "close"} /\ ~Blank(tok) /\ Read(tok, last)
      /\ doc' = IF bad THEN Discarded(Created(doc, n), n)
                ELSE EndInserted(Created(doc, n), Top, n)
      /\ live' = IF bad THEN live ELSE live \union {n}
      /\ value' = IF bad THEN value ELSE [value EXCEPT ![n] = tok]
      /\ UNCHANGED frames
      /\ IF bad THEN Fails(IF Failure(tok, last) # "none" THEN Failure(tok, last)
                           ELSE "PARSING_DECLARATION")
         ELSE GoesOn
  BY DEF ReadLeaf
<1>1. PICK U, from, said, mark : Starts(tok, last, U, from, said, mark)
  BY <1>0, ReadingFrom
<1>a. /\ Universe(U) /\ input \in Seq(U) /\ Says(input, U, said)
      /\ Nested(input, Len(frames), mark) /\ Lists(doc, value, U, from)
      /\ AllCorrect(input, FALSE) /\ tok \in U
  BY <1>1 DEF Starts
<1>b. Tells(doc, value, live, frames, input, U, from, said, mark)
  BY <1>1 DEF Starts
<1>c. /\ Good(doc, live) /\ doc \in Stores /\ doc.unlinked = frames
      /\ value = [m \in Nodes |-> value[m]]
      /\ frames \in Seq(live) /\ Len(frames) \in Nat /\ Unused \in Nodes \ live
      /\ (Len(frames) = 0 <=> frames = <<>>)
  BY <1>1 DEF Starts
<1>d. input' = Append(input, tok) /\ more' = ~last /\ UNCHANGED out
  BY <1>1 DEF Starts
<1>e. rest' \in Seq(U) /\ Bordered(input', rest')
  BY <1>1 DEF Starts
<1>f. phase = "reading" /\ error = "none"
  BY <1>1 DEF Starts
<1>2. tok.kind # "close" /\ tok.kind # "open"
  BY <1>0
<1>3. Correct(long, last, Len(input) + 1) <=> ~bad
  <2>1. Correct(long, last, Len(input) + 1) <=>
          /\ Blank(tok) \/ Failure(tok, last) = "none"
          /\ tok.kind = "open" => ~last /\ Len(frames) + 2 < MaxDepth
          /\ tok.kind = "close" => input[mark[Len(frames)]].name = tok.name
          /\ tok.kind = "declaration" =>
               \A j \in 1 .. Len(input) : Blank(input[j]) \/ input[j].kind = "declaration"
    BY <1>a, <1>c, <1>2, CorrectHere
  <2>2. WellLocated(tok) <=>
          (tok.kind = "declaration" =>
             \A j \in 1 .. Len(input) : Blank(input[j]) \/ input[j].kind = "declaration")
    BY <1>b, LocatedIs
  <2> QED
    BY <1>0, <1>2, <2>1, <2>2
<1>4. Len(input) \in Nat /\ Len(long) = Len(input) + 1 /\ long[Len(input) + 1] = tok
  BY <1>a, OneMore
<1>5. CASE bad
  <2>1. /\ doc' = Discarded(Created(doc, n), n) /\ value' = value
        /\ phase' = "failing" /\ error' # "none"
    <3>1. "PARSING_DECLARATION" # "none"
      OBVIOUS
    <3> QED
      BY <1>0, <1>5, <3>1 DEF Fails
  <2>2. ~Correct(long, last, Len(input) + 1)
    BY <1>3, <1>5
  <2> HIDE DEF bad, long
  <2> QED
    BY <1>1, <1>2, <2>1, <2>2, PassingTells DEF n, long
<1>6. CASE ~bad
  <2>1. /\ doc' = EndInserted(Created(doc, n), Top, n) /\ live' = live \union {n}
        /\ value' = [value EXCEPT ![n] = tok] /\ phase' = "reading" /\ frames' = frames
    BY <1>0, <1>f, <1>6 DEF GoesOn
  <2>2. WellLocated(tok)
    BY <1>6
  <2>3. AllCorrect(long, last)
    BY <1>a, <1>3, <1>6, CorrectBefore
  <2> HIDE DEF bad
  <2>4. Top = Frame(frames, Len(frames))
    BY <1>c DEF Top, Frame, Last
  <2>5. Top \in live \union {Doc}
    BY TopIs
  <2>6. Appended(doc, Top, n, doc')
    BY <1>c, <2>1, <2>5, LeafInserted
  <2>7. tok.kind = "declaration" =>
          doc.unlinked = <<>> /\ (doc.first[Doc] = Nil \/ value[doc.last[Doc]].kind = "declaration")
    BY <1>c, <2>2 DEF WellLocated
  <2>8. PICK from1, said1, mark1 :
          Tells(doc', value', live', frames', long, U, from1, said1, mark1)
    <3>1. Tells(doc, value, live, doc.unlinked, input, U, from, said, mark)
      BY <1>b, <1>c
    <3>2. Appended(doc, Frame(doc.unlinked, Len(doc.unlinked)), n, doc')
      BY <1>c, <2>4, <2>6
    <3>3. n \in Nodes \ live
      BY <1>c
    <3> HIDE DEF n
    <3>4. \E from1, said1, mark1 :
            Tells(doc', [value EXCEPT ![n] = tok], live \union {n}, doc.unlinked,
                  Append(input, tok), U, from1, said1, mark1)
      BY <1>0, <1>a, <1>c, <2>7, <3>1, <3>2, <3>3, TellsLeaf
    <3> QED
      BY <1>c, <2>1, <3>4
  <2> HIDE DEF long
  <2>9. \E j \in 1 .. Len(input') : ~Blank(input'[j])
    <3>1. Len(input) + 1 \in 1 .. Len(long)
      BY <1>4
    <3> QED
      BY <1>0, <1>d, <1>4, <3>1 DEF long
  <2>10. AllCorrect(input', ~more')
    BY <1>d, <2>3 DEF long
  <2>11. Tells(doc', value', live', frames', input', U, from1, said1, mark1)
    BY <1>d, <2>8 DEF long
  <2> QED
    BY <1>d, <1>e, <2>1, <2>9, <2>10, <2>11, StillReading
<1> QED
  BY <1>5, <1>6

(* A tag that opens an element and ends the text, or is faulty. *)
LEMMA VainOpenTells ==
  ASSUME DocumentInv, TextInv, UNCHANGED printerVars, NEW tok \in Coming, NEW last \in BOOLEAN,
         ReadVainOpen(tok, last)
  PROVE  TextInv'
<1>0. /\ tok.kind = "open" /\ Read(tok, last) /\ (Failure(tok, last) # "none" \/ last)
      /\ phase' = "failing" /\ error' # "none"
      /\ doc' = Discarded(Created(doc, Unused), Unused) /\ value' = value
  <2>1. "MISMATCHED_ELEMENT" # "none"
    OBVIOUS
  <2> QED
    BY <2>1 DEF ReadVainOpen, Fails
<1>. DEFINE long == Append(input, tok)
<1>1. PICK U, from, said, mark : Starts(tok, last, U, from, said, mark)
  BY <1>0, ReadingFrom
<1>2. /\ input \in Seq(U) /\ tok \in U /\ Nested(input, Len(frames), mark)
      /\ Len(frames) \in Nat
  BY <1>1 DEF Starts
<1>3. Correct(long, last, Len(input) + 1) =>
        /\ Blank(tok) \/ Failure(tok, last) = "none"
        /\ tok.kind = "open" => ~last /\ Len(frames) + 2 < MaxDepth
  BY <1>0, <1>2, CorrectHere
<1>4. ~Correct(long, last, Len(input) + 1)
  BY <1>0, <1>3 DEF Blank
<1> HIDE DEF long
<1> QED
  BY <1>0, <1>1, <1>4, PassingTells DEF long

(* A tag that opens an element whose content is next. *)
LEMMA OpenTells ==
  ASSUME DocumentInv, TextInv, UNCHANGED printerVars, NEW tok \in Coming, NEW last \in BOOLEAN,
         ReadOpen(tok, last)
  PROVE  TextInv'
<1>. DEFINE n == Unused
            long == Append(input, tok)
<1>0. /\ tok.kind = "open" /\ Read(tok, last) /\ Failure(tok, last) = "none" /\ ~last
      /\ doc' = Created(doc, n) /\ live' = live \union {n}
      /\ value' = [value EXCEPT ![n] = tok]
      /\ frames' = Append(frames, n) /\ depth' = depth + 1
      /\ IF TooDeep(depth') THEN Fails("DEPTH_EXCEEDED") ELSE GoesOn
  BY DEF ReadOpen
<1>1. PICK U, from, said, mark : Starts(tok, last, U, from, said, mark)
  BY <1>0, ReadingFrom
<1>a. /\ Universe(U) /\ input \in Seq(U) /\ Says(input, U, said)
      /\ Nested(input, Len(frames), mark) /\ Lists(doc, value, U, from)
      /\ AllCorrect(input, FALSE) /\ tok \in U
  BY <1>1 DEF Starts
<1>b. Tells(doc, value, live, frames, input, U, from, said, mark)
  BY <1>1 DEF Starts
<1>c. /\ Good(doc, live) /\ doc \in Stores /\ doc.unlinked = frames
      /\ value = [m \in Nodes |-> value[m]]
      /\ frames \in Seq(live) /\ Len(frames) \in Nat /\ Unused \in Nodes \ live
      /\ (Len(frames) = 0 <=> frames = <<>>)
  BY <1>1 DEF Starts
<1>d. input' = Append(input, tok) /\ more' = ~last /\ UNCHANGED out
  BY <1>1 DEF Starts
<1>e. rest' \in Seq(U) /\ Bordered(input', rest')
  BY <1>1 DEF Starts
<1>f. phase = "reading" /\ error = "none"
  BY <1>1 DEF Starts
<1>2. Correct(long, last, Len(input) + 1) <=> ~TooDeep(depth')
  <2>1. Correct(long, last, Len(input) + 1) <=>
          /\ Blank(tok) \/ Failure(tok, last) = "none"
          /\ tok.kind = "open" => ~last /\ Len(frames) + 2 < MaxDepth
          /\ tok.kind = "close" => input[mark[Len(frames)]].name = tok.name
          /\ tok.kind = "declaration" =>
               \A j \in 1 .. Len(input) : Blank(input[j]) \/ input[j].kind = "declaration"
    <3>1. tok.kind # "close"
      BY <1>0
    <3> QED
      BY <1>a, <1>c, <3>1, CorrectHere
  <2>2. depth = Len(frames) + 1 /\ depth < MaxDepth /\ MaxDepth \in Nat
    BY <1>0, Reading, TokensAssumption
  <2>3. TooDeep(depth') <=> Len(frames) + 2 = MaxDepth
    BY <1>0, <2>2, <1>c DEF TooDeep
  <2>4. TooDeep(depth') <=> ~(Len(frames) + 2 < MaxDepth)
    BY <2>2, <2>3, <1>c
  <2> QED
    BY <1>0, <2>1, <2>4
<1>3. SamePointers(doc, doc') /\ IsForest(doc, live)
  BY <1>0, <1>c, CreatedIs DEF Good
<1> HIDE DEF n
<1>4. n \in Nodes \ live
  BY <1>c DEF n
<1>5. CASE TooDeep(depth')
  <2>1. phase' = "failing" /\ error' = "DEPTH_EXCEEDED" /\ value' = [value EXCEPT ![n] = tok]
    BY <1>0, <1>5 DEF Fails
  <2>2. error' # "none"
    BY <2>1
  <2>. DEFINE now == [from EXCEPT ![n] = Enclosed(tok, <<>>)]
  <2>3. /\ Lists(doc, [value EXCEPT ![n] = tok], U, now)
        /\ \A q \in live \union {Doc} : now[doc.first[q]] = from[doc.first[q]]
    <3>1. value = [m \in Nodes |-> value[m]]
      BY <1>c
    <3>2. Universe(U) /\ Lists(doc, value, U, from) /\ tok \in U
      BY <1>a
    <3> QED
      BY <1>3, <1>4, <3>1, <3>2, NewListed
  <2> HIDE DEF now
  <2>4. Lists(doc', value', U, now) /\ now[doc'.first[Doc]] = from[doc.first[Doc]]
    BY <1>3, <2>1, <2>3 DEF Lists, SamePointers
  <2>5. ~Correct(long, last, Len(input) + 1)
    BY <1>2, <1>5
  <2>6. tok.kind # "close"
    BY <1>0
  <2> HIDE DEF long
  <2> QED
    BY <1>1, <2>1, <2>2, <2>4, <2>5, <2>6, RefusedTells DEF long
<1>6. CASE ~TooDeep(depth')
  <2>1. phase' = "reading"
    BY <1>0, <1>f, <1>6 DEF GoesOn
  <2>2. AllCorrect(long, last)
    BY <1>a, <1>2, <1>6, CorrectBefore
  <2>3. PICK from1, said1, mark1 :
          Tells(doc', value', live', frames', long, U, from1, said1, mark1)
    <3>1. Tells(doc, value, live, doc.unlinked, input, U, from, said, mark)
      BY <1>b, <1>c
    <3>2. \E from1, said1, mark1 :
            Tells(doc', [value EXCEPT ![n] = tok], live \union {n}, Append(doc.unlinked, n),
                  Append(input, tok), U, from1, said1, mark1)
      BY <1>0, <1>a, <1>c, <1>3, <1>4, <3>1, TellsOpen
    <3> QED
      BY <1>0, <1>c, <3>2
  <2> HIDE DEF long
  <2>4. AllCorrect(input', ~more')
    BY <1>d, <2>2 DEF long
  <2>5. Tells(doc', value', live', frames', input', U, from1, said1, mark1)
    BY <1>d, <2>3 DEF long
  <2>6. more'
    BY <1>0, <1>d
  <2> QED
    BY <1>d, <1>e, <2>1, <2>4, <2>5, <2>6, StillReading
<1> QED
  BY <1>5, <1>6

(* A token with a fault of its own is not correct anywhere. *)
LEMMA FaultyIncorrect ==
  ASSUME NEW U, NEW text \in Seq(U), NEW tok \in U, NEW last \in BOOLEAN,
         ~Blank(tok), Failure(tok, last) # "none"
  PROVE  ~Correct(Append(text, tok), last, Len(text) + 1)
<1>. DEFINE long == Append(text, tok)
            k == Len(text)
<1>1. k \in Nat /\ Len(long) = k + 1 /\ long[k + 1] = tok
  BY OneMore
<1> HIDE DEF long, k
<1>2. (last /\ k + 1 = Len(long)) = last
  BY <1>1
<1>3. ~Correct(long, last, k + 1)
  BY <1>1, <1>2 DEF Correct
<1> QED
  BY <1>3 DEF long, k

(* The innermost open element is deleted with what is below it. *)
LEMMA LastUnlisted ==
  ASSUME NEW d, Good(d, live), d.unlinked = frames, frames # <<>>,
         NEW U, Universe(U), NEW from, Lists(d, value, U, from),
         Subtree(d, Top) = Subtree(doc, Top), NEW e, e = Discarded(d, Top)
  PROVE  \E now : /\ Lists(e, Forgotten(Subtree(doc, Top)), U, now)
                  /\ now[e.first[Doc]] = from[d.first[Doc]]
<1>1. Last(d.unlinked) = Top
  BY ParentApart
<1>2. IsWithout(d, Subtree(d, Top), Nil, e)
  BY <1>1, LastDiscarded
<1>3. /\ d.unlinked \in Seq(live) /\ IsInjective(d.unlinked)
      /\ ToSet(d.unlinked) = RootsOf(d, live) /\ IsForest(d, live)
  BY DEF Good, Listed
<1>4. Top \in live /\ d.parent[Top] = Nil
  <2>1. Top \in ToSet(d.unlinked)
    BY <1>1, <1>3, LastTakenOff
  <2> QED
    BY <1>3, <2>1 DEF RootsOf
<1>5. Forgotten(Subtree(doc, Top)) = Emptied(value, Subtree(d, Top))
  BY DEF Forgotten, Emptied
<1>. DEFINE c == Top
<1>6. c \in live /\ d.parent[c] = Nil /\ IsWithout(d, Subtree(d, c), Nil, e) /\ IsForest(d, live)
  BY <1>2, <1>3, <1>4
<1> HIDE DEF c
<1>7. \E now : /\ Lists(e, Emptied(value, Subtree(d, c)), U, now)
              /\ now[e.first[Doc]] = from[d.first[Doc]]
  BY <1>6, TreeUnlisted
<1> QED
  BY <1>5, <1>7 DEF c

(* A closing tag that closes nothing ends what is read. *)
LEMMA StrayTells ==
  ASSUME DocumentInv, TextInv, NEW tok, NEW last \in BOOLEAN,
         NEW U, NEW from, NEW said, NEW mark, Starts(tok, last, U, from, said, mark),
         tok.kind = "close", Failure(tok, last) = "none", frames = <<>>,
         SamePointers(doc, doc'), value' = value, phase' = "ended", error' = error
  PROVE  TextInv'
<1>. DEFINE long == Append(input, tok)
            k == Len(input)
            next_ == IF Blank(tok) THEN said[k] ELSE Append(said[k], Plain(tok))
            said1 == [said EXCEPT ![k + 1] = next_]
<1>1. /\ Universe(U) /\ input \in Seq(U) /\ Says(input, U, said) /\ tok \in U
      /\ Lists(doc, value, U, from) /\ AllCorrect(input, FALSE) /\ doc \in Stores
      /\ error = "none"
  BY DEF Starts
<1>2. Tells(doc, value, live, frames, input, U, from, said, mark)
  BY DEF Starts
<1>3. input' = long /\ more' = ~last /\ UNCHANGED out
  BY DEF Starts
<1>4. Len(frames) = 0 /\ Nested(input, 0, mark)
  BY DEF Starts
<1>5. Accepted(long, last) /\ Best(long, last) = k
  BY <1>1, <1>4, StrayAccepted
<1>6. from[doc.first[Doc]] = said[k]
  <2>1. Len(frames) \in Nat
    BY <1>4
  <2>2. from[doc.first[Doc]] = said[mark[1] - 1]
    BY <1>1, <1>2, <2>1, DocumentTells
  <2>3. k \in Nat /\ mark[0 + 1] = k + 1
    BY <1>1, <1>4 DEF Nested
  <2>4. mark[1] - 1 = k
    BY <2>3
  <2> QED
    BY <2>2, <2>4
<1>7. k \in Nat /\ Len(long) = k + 1 /\ long \in Seq(U)
  BY <1>1, OneMore
<1>8. Says(long, U, said1)
  <2>1. Plain(tok) \in U
    BY <1>1 DEF Universe, Plain
  <2> QED
    BY <1>1, <2>1, SaysAfter
<1> HIDE DEF k, next_, long
<1>9. said1[k] = said[k]
  <2>1. said \in [Nat -> Seq(U)]
    BY <1>1 DEF Says
  <2> QED
    BY <1>7, <2>1
<1> HIDE DEF said1
<1>10. Significant(long)[k] = said1[k]
  <2>1. k \in 0 .. Len(long)
    BY <1>7
  <2> QED
    BY <1>7, <1>8, <2>1, SignificantIs
<1>11. Lists(doc', value', U, from) /\ doc'.first = doc.first
  BY <1>1 DEF Lists, SamePointers
<1>12. last = ~more'
  BY <1>3
<1>13. Accepted(input', ~more')
  BY <1>3, <1>5, <1>12
<1>14. from[doc'.first[Doc]] = Significant(long)[Best(long, last)]
  BY <1>5, <1>6, <1>9, <1>10, <1>11
<1>15. Holds(doc', value', input', ~more')
  BY <1>1, <1>3, <1>11, <1>12, <1>14 DEF Holds
<1> QED
  BY <1>1, <1>3, <1>13, <1>15, NowEnded

(* A closing tag. *)
LEMMA CloseTells ==
  ASSUME DocumentInv, TextInv, UNCHANGED printerVars, NEW tok \in Coming, NEW last \in BOOLEAN,
         ReadClose(tok, last)
  PROVE  TextInv'
<1>. DEFINE long == Append(input, tok)
            d == IF Failure(tok, last) = "none"
                 THEN LooseRemoved(Created(doc, Unused), Unused)
                 ELSE Discarded(Created(doc, Unused), Unused)
<1>0. tok.kind = "close" /\ Read(tok, last)
  BY DEF ReadClose
<1>1. PICK U, from, said, mark : Starts(tok, last, U, from, said, mark)
  BY <1>0, ReadingFrom
<1>a. /\ Universe(U) /\ input \in Seq(U) /\ Says(input, U, said)
      /\ Nested(input, Len(frames), mark) /\ Lists(doc, value, U, from)
      /\ AllCorrect(input, FALSE) /\ tok \in U
  BY <1>1 DEF Starts
<1>b. Tells(doc, value, live, frames, input, U, from, said, mark)
  BY <1>1 DEF Starts
<1>c. /\ Good(doc, live) /\ doc \in Stores /\ doc.unlinked = frames
      /\ value = [m \in Nodes |-> value[m]]
      /\ frames \in Seq(live) /\ Len(frames) \in Nat /\ Unused \in Nodes \ live
      /\ (Len(frames) = 0 <=> frames = <<>>)
  BY <1>1 DEF Starts
<1>d. input' = Append(input, tok) /\ more' = ~last /\ UNCHANGED out
  BY <1>1 DEF Starts
<1>e. rest' \in Seq(U) /\ Bordered(input', rest')
  BY <1>1 DEF Starts
<1>f. phase = "reading" /\ error = "none"
  BY <1>1 DEF Starts
<1>2. \/ /\ Failure(tok, last) # "none" /\ Fails(Failure(tok, last))
         /\ doc' = d /\ value' = value
      \/ /\ Failure(tok, last) = "none" /\ frames = <<>>
         /\ doc' = d /\ value' = value /\ phase' = "ended" /\ error' = error
      \/ /\ Failure(tok, last) = "none" /\ frames # <<>> /\ Matches(Top, tok)
         /\ doc' = EndInserted(d, Parent, Top) /\ live' = live /\ value' = value
         /\ Leave /\ GoesOn
      \/ /\ Failure(tok, last) = "none" /\ frames # <<>> /\ ~Matches(Top, tok)
         /\ doc' = Discarded(d, Top) /\ value' = Forgotten(Subtree(doc, Top))
         /\ Fails("MISMATCHED_ELEMENT")
  BY DEF ReadClose
<1>3. /\ Good(d, live) /\ d.unlinked = frames
      /\ \A m : Subtree(d, m) = Subtree(doc, m)
  BY ClosingRead
<1>4. ~Blank(tok) /\ tok.kind # "open" /\ tok.kind # "declaration"
  BY <1>0 DEF Blank
<1>5. CASE /\ Failure(tok, last) # "none" /\ Fails(Failure(tok, last))
           /\ doc' = d /\ value' = value
  <2>1. /\ doc' = Discarded(Created(doc, Unused), Unused) /\ value' = value
        /\ phase' = "failing" /\ error' # "none"
    BY <1>5 DEF Fails
  <2>2. ~Correct(long, last, Len(input) + 1)
    BY <1>a, <1>4, <1>5, FaultyIncorrect
  <2> HIDE DEF long, d
  <2> QED
    BY <1>1, <1>5, <2>1, <2>2, PassingTells DEF long
<1>6. SamePointers(doc, d)
  <2>1. \/ d = Discarded(Created(doc, Unused), Unused)
        \/ d = LooseRemoved(Created(doc, Unused), Unused)
    OBVIOUS
  <2> HIDE DEF d
  <2> QED
    BY <1>c, <2>1, PassingNode
<1> HIDE DEF d
<1>7. CASE /\ Failure(tok, last) = "none" /\ frames = <<>>
           /\ doc' = d /\ value' = value /\ phase' = "ended" /\ error' = error
  BY <1>0, <1>1, <1>6, <1>7, StrayTells
<1>8. ASSUME Failure(tok, last) = "none", frames # <<>>
      PROVE  /\ Correct(long, last, Len(input) + 1) <=> Matches(Top, tok)
             /\ Len(frames) \in Nat \ {0} /\ Top = frames[Len(frames)]
  <2>1. Len(frames) \in Nat \ {0} /\ Top = frames[Len(frames)]
    BY <1>c, <1>8 DEF Top, Last
  <2>2. Correct(long, last, Len(input) + 1) <=>
          /\ Blank(tok) \/ Failure(tok, last) = "none"
          /\ tok.kind = "open" => ~last /\ Len(frames) + 2 < MaxDepth
          /\ tok.kind = "close" => input[mark[Len(frames)]].name = tok.name
          /\ tok.kind = "declaration" =>
               \A j \in 1 .. Len(input) : Blank(input[j]) \/ input[j].kind = "declaration"
    <3>1. tok.kind = "close" => Len(frames) > 0
      BY <2>1
    <3> QED
      BY <1>a, <1>c, <3>1, CorrectHere
  <2>3. value[Top] = input[mark[Len(frames)]]
    BY <1>b, <2>1 DEF Tells
  <2> HIDE DEF long
  <2> QED
    BY <1>0, <1>4, <1>8, <2>1, <2>2, <2>3 DEF Matches
<1>9. CASE /\ Failure(tok, last) = "none" /\ frames # <<>> /\ Matches(Top, tok)
           /\ doc' = EndInserted(d, Parent, Top) /\ live' = live /\ value' = value
           /\ Leave /\ GoesOn
  <2>1. phase' = "reading" /\ frames' = Front(frames)
    BY <1>f, <1>9 DEF GoesOn, Leave
  <2>2. AllCorrect(long, last)
    BY <1>a, <1>8, <1>9, CorrectBefore
  <2>3. /\ Last(d.unlinked) = Top
        /\ Parent \in live \union {Doc} /\ Parent \notin Subtree(d, Top)
    BY <1>3, <1>9, ParentApart
  <2>4. Appended(d, Parent, Top, doc')
    BY <1>3, <1>9, <2>3, LastInserted
  <2>5. Parent = Frame(frames, Len(frames) - 1)
    <3>. DEFINE k == Len(frames)
    <3>1. k \in Nat \ {0} /\ Parent = IF k < 2 THEN Doc ELSE frames[k - 1]
      BY <1>8, <1>9 DEF Parent
    <3> HIDE DEF k
    <3>2. k < 2 <=> k - 1 = 0
      BY <3>1
    <3>3. Parent = Frame(frames, k - 1)
      BY <3>1, <3>2 DEF Frame
    <3> QED
      BY <3>3 DEF k
  <2>6. Tells(d, value, live, d.unlinked, input, U, from, said, mark)
    BY <1>3, <1>6, <1>b, TellsSame
  <2>7. \E from1, said1, mark1 :
          Tells(doc', value, live, Front(d.unlinked), Append(input, tok), U, from1, said1, mark1)
    <3>1. Parent = Frame(d.unlinked, Len(d.unlinked) - 1) /\ d.unlinked # <<>>
      BY <1>3, <1>9, <2>5
    <3>2. tok.name = value[Top].name /\ Top = Last(d.unlinked)
      BY <1>9, <2>3 DEF Matches
    <3>3. Good(d, live) /\ tok \in U
      BY <1>3, <1>a
    <3> QED
      BY <1>0, <2>4, <2>6, <3>1, <3>2, <3>3, TellsClose
  <2>8. PICK from1, said1, mark1 :
          Tells(doc', value', live', frames', long, U, from1, said1, mark1)
    BY <1>3, <1>9, <2>1, <2>7
  <2>9. \E j \in 1 .. Len(input') : ~Blank(input'[j])
    <3>1. Len(input) \in Nat /\ Len(long) = Len(input) + 1 /\ long[Len(input) + 1] = tok
      BY <1>a, OneMore
    <3>2. Len(input) + 1 \in 1 .. Len(long)
      BY <3>1
    <3> HIDE DEF long
    <3> QED
      BY <1>4, <1>d, <3>1, <3>2 DEF long
  <2> HIDE DEF long
  <2>10. AllCorrect(input', ~more')
    BY <1>d, <2>2 DEF long
  <2>11. Tells(doc', value', live', frames', input', U, from1, said1, mark1)
    BY <1>d, <2>8 DEF long
  <2> QED
    BY <1>d, <1>e, <2>1, <2>9, <2>10, <2>11, StillReading
<1>10. CASE /\ Failure(tok, last) = "none" /\ frames # <<>> /\ ~Matches(Top, tok)
            /\ doc' = Discarded(d, Top) /\ value' = Forgotten(Subtree(doc, Top))
            /\ Fails("MISMATCHED_ELEMENT")
  <2>1. phase' = "failing" /\ error' = "MISMATCHED_ELEMENT"
    BY <1>10 DEF Fails
  <2>2. error' # "none"
    BY <2>1
  <2>3. ~Correct(long, last, Len(input) + 1)
    BY <1>8, <1>10
  <2>4. Lists(d, value, U, from) /\ d.first = doc.first
    BY <1>6, <1>a DEF Lists, SamePointers
  <2>5. PICK now : Lists(doc', value', U, now) /\ now[doc'.first[Doc]] = from[d.first[Doc]]
    BY <1>3, <1>10, <1>a, <2>4, LastUnlisted
  <2>6. now[doc'.first[Doc]] = from[doc.first[Doc]]
    BY <2>4, <2>5
  <2> HIDE DEF long
  <2> QED
    BY <1>1, <1>10, <2>1, <2>2, <2>3, <2>5, <2>6, RefusedTells DEF long
<1> QED
  BY <1>2, <1>5, <1>7, <1>9, <1>10

(* The elements that are open when something failed are deleted one by one. *)
LEMMA UnwindTells ==
  ASSUME DocumentInv, TextInv, UNCHANGED printerVars, Unwind
  PROVE  TextInv'
<1>1. /\ phase = "failing" /\ phase' = "failing" /\ frames # <<>> /\ error' # "none"
      /\ doc' = Discarded(doc, Top) /\ value' = Forgotten(Subtree(doc, Top))
      /\ UNCHANGED <<input, more, out>>
  <2>1. "PARSING" # "none"
    OBVIOUS
  <2> QED
    BY <2>1 DEF Unwind, Reported, printerVars
<1>2. ~Accepted(input, ~more) /\ Holds(doc, value, input, ~more)
  BY <1>1 DEF TextInv, FailingTells
<1>3. PICK U, from : /\ Universe(U) /\ Lists(doc, value, U, from)
                     /\ from[doc.first[Doc]] = Significant(input)[Best(input, ~more)]
  BY <1>2 DEF Holds
<1>4. Good(doc, live) /\ doc.unlinked = frames
  BY DEF DocumentInv, TreesAreSound, FramesFollow
<1>5. PICK now : Lists(doc', value', U, now) /\ now[doc'.first[Doc]] = from[doc.first[Doc]]
  BY <1>1, <1>3, <1>4, LastUnlisted
<1>6. Holds(doc', value', input', ~more')
  BY <1>1, <1>3, <1>5 DEF Holds
<1> QED
  BY <1>1, <1>2, <1>6, NowFailing
-----------------------------------------------------------------------------
(* The end of a text, of a call, and the beginning of the next. *)

(* What was said once stays said. *)
LEMMA SaidOnce ==
  ASSUME NEW U, NEW text \in Seq(U), NEW said, Says(text, U, said),
         NEW j \in 1 .. Len(text), ~Blank(text[j])
  PROVE  said[Len(text)] # <<>>
<1>. DEFINE n == Len(text)
            S == {k \in 0 .. n : k < j \/ said[k] # <<>>}
<1>1. n \in Nat /\ 0 \in S /\ j \in 1 .. n
  OBVIOUS
<1>2. /\ said \in [Nat -> Seq(U)]
      /\ \A i \in 1 .. n :
           said[i] = IF Blank(text[i]) THEN said[i - 1] ELSE Append(said[i - 1], Plain(text[i]))
  BY DEF Says
<1>3. ASSUME NEW k \in 0 .. n - 1, k \in S
      PROVE  k + 1 \in S
  <2>1. k + 1 \in 1 .. n /\ k \in Nat /\ (k + 1) - 1 = k /\ k + 1 \in 0 .. n
    BY <1>1
  <2>2. said[k + 1] = IF Blank(text[k + 1]) THEN said[k] ELSE Append(said[k], Plain(text[k + 1]))
    BY <1>2, <2>1
  <2>3. said[k] \in Seq(U)
    BY <1>2, <2>1
  <2>. DEFINE x == Plain(text[k + 1])
  <2>4. Append(said[k], x) # <<>>
    <3> HIDE DEF x
    <3>1. Len(Append(said[k], x)) = Len(said[k]) + 1 /\ Len(said[k]) \in Nat
      BY <2>3
    <3>. DEFINE a == Append(said[k], x)
    <3>2. Len(a) # 0
      BY <3>1
    <3> HIDE DEF a
    <3>3. a # <<>>
      BY <3>2
    <3> QED
      BY <3>3 DEF a
  <2> HIDE DEF x
  <2>5. CASE k + 1 < j
    BY <2>1, <2>5
  <2>6. CASE k + 1 = j
    <3>1. said[k + 1] = Append(said[k], x)
      BY <2>2, <2>6 DEF x
    <3> QED
      BY <2>1, <2>4, <3>1
  <2>7. CASE k + 1 > j
    <3>1. said[k] # <<>>
      BY <1>1, <1>3, <2>1, <2>7
    <3>2. said[k + 1] # <<>>
      BY <2>2, <2>4, <3>1 DEF x
    <3> QED
      BY <2>1, <3>2
  <2> QED
    BY <1>1, <2>1, <2>5, <2>6, <2>7
<1> HIDE DEF n, S
<1>4. 0 .. n \subseteq S
  BY <1>1, <1>3, AllUpTo
<1>5. n \in S
  BY <1>1, <1>4
<1>6. ~(n < j)
  BY <1>1
<1>7. said[n] # <<>>
  BY <1>5, <1>6 DEF S
<1> QED
  BY <1>7 DEF n

(* The end of the text, in the document or in an element. *)
LEMMA EndOfInputTells ==
  ASSUME DocumentInv, TextInv, UNCHANGED printerVars, EndOfInput
  PROVE  TextInv'
<1>1. /\ phase = "reading" /\ more = FALSE /\ error = "none"
      /\ phase' = IF frames = <<>> THEN "ended" ELSE "failing"
      /\ UNCHANGED <<doc, value, input, more, frames, error, out>>
  BY DEF EndOfInput, printerVars, vars, DocumentInv, FramesFollow
<1>2. PICK U, from, said, mark : Tells(doc, value, live, frames, input, U, from, said, mark)
  BY <1>1 DEF TextInv, ReadingTells
<1>3. AllCorrect(input, TRUE)
  <2>1. ~more = TRUE
    BY <1>1
  <2>2. AllCorrect(input, ~more)
    BY <1>1 DEF TextInv, ReadingTells
  <2> QED
    BY <2>1, <2>2
<1>4. PICK j \in 1 .. Len(input) : ~Blank(input[j])
  BY <1>1 DEF TextInv, ReadingTells
<1>5. /\ Universe(U) /\ input \in Seq(U) /\ Says(input, U, said)
      /\ Nested(input, Len(frames), mark) /\ Lists(doc, value, U, from)
  BY <1>2 DEF Tells
<1>6. /\ doc \in Stores /\ Len(frames) \in Nat /\ (Len(frames) = 0 <=> frames = <<>>)
  <2>1. frames \in Seq(live) /\ doc \in Stores
    BY DEF DocumentInv, TreesAreSound, FramesFollow, Good, Listed, IsForest
  <2> QED
    BY <2>1
<1>7. from[doc.first[Doc]] = said[mark[1] - 1]
  BY <1>2, <1>6, DocumentTells
<1>8. mark[1] - 1 \in 0 .. Len(input) /\ Significant(input)[mark[1] - 1] = said[mark[1] - 1]
  BY <1>5, <1>6, NestedEnds, SignificantIs
<1>9. (~more' = TRUE) /\ input' = input
  BY <1>1
<1>10. Lists(doc', value', U, from) /\ doc'.first = doc.first
  BY <1>1, <1>5
<1>11. ASSUME Best(input, TRUE) = mark[1] - 1
       PROVE  Holds(doc', value', input', ~more')
  <2>1. from[doc'.first[Doc]] = Significant(input)[Best(input, TRUE)]
    BY <1>7, <1>8, <1>10, <1>11
  <2> QED
    BY <1>5, <1>9, <1>10, <2>1 DEF Holds
<1>12. CASE frames = <<>>
  <2>1. Nested(input, 0, mark) /\ Len(frames) = 0
    BY <1>5, <1>6, <1>12
  <2>2. said[Len(input)] # <<>>
    BY <1>4, <1>5, SaidOnce
  <2>3. Accepted(input, TRUE) /\ Best(input, TRUE) = Len(input)
    BY <1>3, <1>5, <2>1, <2>2, WholeAccepted
  <2>4. mark[1] - 1 = Len(input)
    <3>1. mark[0 + 1] = Len(input) + 1
      BY <2>1 DEF Nested
    <3>2. Len(input) \in Nat
      BY <1>5
    <3> QED
      BY <3>1, <3>2
  <2>5. Accepted(input', ~more')
    BY <1>9, <2>3
  <2>6. Holds(doc', value', input', ~more')
    BY <1>11, <2>3, <2>4
  <2>7. phase' = "ended" /\ error' = "none" /\ UNCHANGED out
    BY <1>1, <1>12
  <2> QED
    BY <2>5, <2>6, <2>7, NowEnded
<1>13. CASE frames # <<>>
  <2>1. Len(frames) \in Nat \ {0}
    BY <1>6, <1>13
  <2>2. ~Accepted(input, TRUE) /\ Best(input, TRUE) = mark[1] - 1
    BY <1>3, <1>5, <2>1, CutShort
  <2>3. ~Accepted(input', ~more')
    BY <1>9, <2>2
  <2>4. Holds(doc', value', input', ~more')
    BY <1>11, <2>2
  <2>5. phase' = "failing" /\ frames' # <<>> /\ UNCHANGED out
    BY <1>1, <1>13
  <2> QED
    BY <2>3, <2>4, <2>5, NowFailing
<1> QED
  BY <1>12, <1>13

(* Between calls nothing else is claimed. *)
LEMMA NowIdle ==
  ASSUME phase' = "idle", Parted(out'), ParsesWhatIsThere'
  PROVE  TextInv'
<1>1. ReadingTells' /\ FailingTells' /\ EndedTells' /\ PrintingTells'
  BY DEF ReadingTells, FailingTells, EndedTells, PrintingTells
<1> QED
  BY <1>1 DEF TextInv

(* The end of the call. *)
LEMMA FinishTells ==
  ASSUME DocumentInv, TextInv, UNCHANGED printerVars, Finish
  PROVE  TextInv'
<1>1. /\ phase = "ended" \/ (phase = "failing" /\ frames = <<>>)
      /\ phase' = "idle" /\ UNCHANGED <<input, more, error, via, out>>
      /\ IF error # "none" /\ via = "Parse"
         THEN live' = {} /\ value' = [n \in Nodes |-> NoToken]
         ELSE UNCHANGED <<doc, value>>
  BY DEF Finish, printerVars
<1>2. DocumentInv'
  BY FinishKeeps
<1>3. doc' \in Stores /\ Typed(doc', live') /\ doc \in Stores
  BY <1>2 DEF DocumentInv, TreesAreSound, Good, IsForest
<1>4. /\ error = "none" <=> Accepted(input, ~more)
      /\ Holds(doc, value, input, ~more)
  BY <1>1 DEF TextInv, EndedTells, FailingTells
<1>5. PICK U, from : /\ Universe(U) /\ Lists(doc, value, U, from)
                     /\ from[doc.first[Doc]] = Significant(input)[Best(input, ~more)]
  BY <1>4 DEF Holds
<1>6. Listing' = IF error # "none" /\ via = "Parse" THEN <<>>
                 ELSE Significant(input)[Best(input, ~more)]
  <2>0. Listing' = TextOf(doc', value')
    BY DEF Listing
  <2>1. CASE error # "none" /\ via = "Parse"
    <3>1. live' = {} /\ value' = [n \in Nodes |-> NoToken]
      BY <1>1, <2>1
    <3>2. PICK now : Lists(doc', value', U, now) /\ now[doc'.first[Doc]] = <<>>
      BY <1>3, <1>5, <3>1, NoneListed
    <3>3. TextOf(doc', value') = <<>>
      BY <1>3, <1>5, <3>2, TextIs
    <3> QED
      BY <2>0, <2>1, <3>3
  <2>2. CASE ~(error # "none" /\ via = "Parse")
    <3>1. TextOf(doc, value) = from[doc.first[Doc]]
      BY <1>3, <1>5, TextIs
    <3>2. doc' = doc /\ value' = value
      BY <1>1, <2>2
    <3> QED
      BY <1>5, <2>0, <2>2, <3>1, <3>2
  <2> QED
    BY <2>1, <2>2
<1>7. ParsesWhatIsThere'
  BY <1>1, <1>4, <1>6 DEF ParsesWhatIsThere
<1>8. Parted(out')
  BY <1>1 DEF TextInv, PrintingTells
<1> QED
  BY <1>1, <1>7, <1>8, NowIdle

(* Some universe holds the tokens of a text. *)
LEMMA UniverseFor ==
  ASSUME NEW text, IsText(text)
  PROVE  \E U : Universe(U) /\ text \in Seq(U)
<1>1. PICK S : text \in Seq(S) /\ \A t \in S : IsToken(t)
  BY DEF IsText
<1>. DEFINE W == {NoToken} \union TokenType \union S
            U == W \union {Closing(t.name) : t \in W}
<1>2. text \in Seq(U)
  BY <1>1
<1>3. \A t \in W : Closing(t.name).name = t.name
  BY DEF Closing, Tok
<1>4. NoToken \in W /\ TokenType \subseteq W
  OBVIOUS
<1> HIDE DEF W
<1>5. ASSUME NEW t \in U
      PROVE  Closing(t.name) \in U
  <2>1. CASE t \in W
    BY <2>1
  <2>2. CASE t \notin W
    <3>1. PICK w \in W : t = Closing(w.name)
      BY <2>2
    <3>2. t.name = w.name
      BY <1>3, <3>1
    <3> QED
      BY <3>2
  <2> QED
    BY <2>1, <2>2
<1>6. Universe(U)
  BY <1>4, <1>5 DEF Universe
<1> QED
  BY <1>2, <1>6

(* Of a text of which nothing was read nothing was said. *)
LEMMA NothingSaid ==
  ASSUME NEW U
  PROVE  \E said, mark : /\ <<>> \in Seq(U) /\ Len(<<>>) = 0
                         /\ Says(<<>>, U, said) /\ Nested(<<>>, 0, mark)
                         /\ said[0] = <<>> /\ mark[0] = 0 /\ mark[1] = 1
                         /\ \A whole \in BOOLEAN : AllCorrect(<<>>, whole)
<1>. DEFINE said == [k \in Nat |-> <<>>]
            mark == [k \in Nat |-> IF k = 1 THEN 1 ELSE 0]
<1>1. <<>> \in Seq(U) /\ Len(<<>>) = 0 /\ 1 .. 0 = {}
  OBVIOUS
<1>2. said[0] = <<>> /\ said \in [Nat -> Seq(U)]
  BY <1>1
<1>3. mark[0] = 0 /\ mark[1] = 1 /\ mark \in [Nat -> Nat] /\ 0 + 1 = 1
  OBVIOUS
<1>4. Level(<<>>, 1) = 0
  BY LevelMoves
<1> HIDE DEF said, mark
<1>5. Says(<<>>, U, said)
  BY <1>1, <1>2 DEF Says
<1>6. Nested(<<>>, 0, mark)
  <2>1. mark[0 + 1] = Len(<<>>) + 1 /\ Level(<<>>, Len(<<>>) + 1) = 0
    BY <1>1, <1>3, <1>4
  <2> QED
    BY <1>1, <1>3, <2>1 DEF Nested
<1>7. \A whole \in BOOLEAN : AllCorrect(<<>>, whole)
  BY <1>1 DEF AllCorrect
<1> QED
  BY <1>1, <1>2, <1>3, <1>5, <1>6, <1>7

(* The beginning of a call: nothing is read, and nothing is left. *)
LEMMA BeginTells ==
  ASSUME DocumentInv, NEW v \in {"Parse", "LoadFile"}, NEW who, NEW text, IsText(text),
         Parted(text), Begin(v, who, text), Parted(out')
  PROVE  TextInv'
<1>1. /\ value' = [n \in Nodes |-> NoToken] /\ via' = v /\ input' = <<>> /\ rest' = text
      /\ frames' = <<>> /\ more' \in BOOLEAN
      /\ IF more' THEN phase' = "reading" ELSE phase' = "idle" /\ error' = "EMPTY_DOCUMENT"
  BY DEF Begin
<1>2. live' = {} /\ doc' \in Stores /\ Typed(doc', {})
  <2>1. Good(doc', live') /\ live' = {}
    BY ClearLeaves DEF DocumentInv, Begin
  <2> QED
    BY <2>1 DEF Good, IsForest
<1>3. PICK U : Universe(U) /\ text \in Seq(U)
  BY UniverseFor
<1>4. PICK from : /\ Lists(doc', value', U, from)
                  /\ from[doc'.first[Doc]] = <<>> /\ doc'.first[Doc] = Nil
  BY <1>1, <1>2, <1>3, NoneListed
<1>5. PICK said, mark : /\ <<>> \in Seq(U) /\ Len(<<>>) = 0
                        /\ Says(<<>>, U, said) /\ Nested(<<>>, 0, mark)
                        /\ said[0] = <<>> /\ mark[0] = 0 /\ mark[1] = 1
                        /\ \A whole \in BOOLEAN : AllCorrect(<<>>, whole)
  BY NothingSaid
<1>6. CASE more'
  <2>1. Accounts(doc', <<>>, from, said, mark)
    <3>1. ASSUME NEW i \in 0 .. Len(<<>>)
          PROVE  said[mark[i]] \o from[doc'.first[Frame(<<>>, i)]] = said[mark[i + 1] - 1]
      <4>1. i = 0 /\ i + 1 = 1 /\ mark[i + 1] - 1 = 0
        BY <1>5
      <4>2. Frame(<<>>, i) = Doc
        BY <4>1 DEF Frame
      <4>3. <<>> \o <<>> = <<>>
        OBVIOUS
      <4> QED
        BY <1>4, <1>5, <4>1, <4>2, <4>3
    <3> QED
      BY <3>1 DEF Accounts
  <2>2. Tells(doc', value', live', frames', input', U, from, said, mark)
    <3>1. 1 .. Len(<<>>) = {}
      BY <1>5
    <3>2. \A i \in 1 .. Len(<<>>) : value'[<<>>[i]] = <<>>[mark[i]]
      BY <3>1
    <3> QED
      BY <1>1, <1>2, <1>3, <1>4, <1>5, <2>1, <3>1, <3>2 DEF Tells
  <2>3. AllCorrect(input', ~more') /\ Bordered(input', rest')
    BY <1>1, <1>5 DEF Bordered
  <2>4. ReadingTells'
    BY <1>1, <1>3, <1>6, <2>2, <2>3 DEF ReadingTells
  <2>5. phase' = "reading"
    BY <1>1, <1>6
  <2>6. FailingTells' /\ EndedTells' /\ PrintingTells' /\ ParsesWhatIsThere'
    BY <2>5 DEF FailingTells, EndedTells, PrintingTells, ParsesWhatIsThere
  <2> QED
    BY <2>4, <2>6 DEF TextInv
<1>7. CASE ~more'
  <2>1. said[Len(<<>>)] = <<>> /\ AllCorrect(<<>>, TRUE)
    BY <1>5
  <2>2. ~Accepted(<<>>, TRUE) /\ Best(<<>>, TRUE) = Len(<<>>)
    BY <1>5, <2>1, BlankRefused
  <2>3. Significant(<<>>)[0] = <<>>
    <3>. DEFINE nothing == <<>>
    <3>1. nothing \in Seq(U) /\ Says(nothing, U, said) /\ 0 \in 0 .. Len(nothing)
      BY <1>5
    <3> HIDE DEF nothing
    <3>2. Significant(nothing)[0] = said[0]
      BY <3>1, SignificantIs
    <3> QED
      BY <1>5, <3>2 DEF nothing
  <2>4. Significant(<<>>)[Best(<<>>, TRUE)] = <<>>
    BY <1>5, <2>2, <2>3
  <2>5. Listing' = <<>>
    <3>1. TextOf(doc', value') = <<>>
      BY <1>2, <1>3, <1>4, TextIs
    <3> QED
      BY <3>1 DEF Listing
  <2>6. phase' = "idle" /\ error' # "none"
    <3>1. "EMPTY_DOCUMENT" # "none"
      OBVIOUS
    <3> QED
      BY <1>1, <1>7, <3>1
  <2>7. (~more' = TRUE) /\ input' = <<>>
    BY <1>1, <1>7
  <2>8. ~Accepted(input', ~more') /\ Significant(input')[Best(input', ~more')] = <<>>
    BY <2>2, <2>4, <2>7
  <2>9. ParsesWhatIsThere'
    BY <2>5, <2>6, <2>8 DEF ParsesWhatIsThere
  <2> QED
    BY <2>6, <2>9, NowIdle
<1> QED
  BY <1>6, <1>7

-----------------------------------------------------------------------------
(* What is printed has its runs of characters apart. *)

(* A token added, unless it is characters after characters. *)
LEMMA PartedMore ==
  ASSUME NEW text, IsText(text), Parted(text), NEW t,
         t.kind = "text" /\ text # <<>> => Last(text).kind # "text"
  PROVE  Parted(Append(text, t))
<1>1. PICK S : text \in Seq(S)
  BY DEF IsText
<1>. DEFINE n == Len(text)
            long == Append(text, t)
<1>2. /\ n \in Nat /\ Len(long) = n + 1 /\ long[n + 1] = t
      /\ \A i \in 1 .. n : long[i] = text[i]
  BY <1>1
<1>3. n # 0 => text # <<>> /\ Last(text) = text[n]
  BY <1>1 DEF Last
<1>4. \A i \in 1 .. n - 1 : ~(text[i].kind = "text" /\ text[i + 1].kind = "text")
  BY DEF Parted
<1> HIDE DEF n, long
<1>5. ASSUME NEW i \in 1 .. Len(long) - 1
      PROVE  ~(long[i].kind = "text" /\ long[i + 1].kind = "text")
  <2>1. CASE i = n
    <3>1. n # 0 /\ i \in 1 .. n
      BY <1>2, <2>1
    <3>2. long[i] = Last(text) /\ long[i + 1] = t /\ text # <<>>
      BY <1>2, <1>3, <2>1, <3>1
    <3> QED
      BY <3>2
  <2>2. CASE i # n
    <3>1. i \in 1 .. n - 1 /\ i \in 1 .. n /\ i + 1 \in 1 .. n
      BY <1>2, <2>2
    <3>2. long[i] = text[i] /\ long[i + 1] = text[i + 1]
      BY <1>2, <3>1
    <3> QED
      BY <1>4, <3>1, <3>2
  <2> QED
    BY <2>1, <2>2
<1>6. Parted(long)
  BY <1>5 DEF Parted
<1> QED
  BY <1>6 DEF long

(* Its last token changed, into characters only if it was some. *)
LEMMA PartedChanged ==
  ASSUME NEW text, IsText(text), Parted(text), text # <<>>, NEW t,
         t.kind = "text" => Last(text).kind = "text"
  PROVE  Parted(Append(Front(text), t))
<1>1. PICK S : text \in Seq(S) /\ \A u \in S : IsToken(u)
  BY DEF IsText
<1>. DEFINE n == Len(text)
            short == Front(text)
<1>2. n \in Nat \ {0} /\ Last(text) = text[n]
  BY <1>1 DEF Last
<1>3. /\ short \in Seq(S) /\ Len(short) = n - 1
      /\ \A i \in 1 .. n - 1 : short[i] = text[i]
  <2>. DEFINE m == n - 1
  <2>1. \A i \in 1 .. n : text[i] \in S
    BY <1>1
  <2>2. short = SubSeq(text, 1, m)
    BY DEF Front
  <2> HIDE DEF n, short
  <2>3. /\ m \in Int /\ 1 \in Int /\ \A i \in 1 .. m : text[i] \in S
        /\ m - 1 + 1 = m /\ (IF 1 <= m THEN m - 1 + 1 ELSE 0) = m
        /\ \A i \in 1 .. m : 1 + i - 1 = i
    BY <1>2, <2>1
  <2> HIDE DEF m
  <2>4. /\ SubSeq(text, 1, m) \in Seq(S)
        /\ Len(SubSeq(text, 1, m)) = IF 1 <= m THEN m - 1 + 1 ELSE 0
        /\ \A i \in 1 .. m - 1 + 1 : SubSeq(text, 1, m)[i] = text[1 + i - 1]
    BY <2>3, SubSeqProperties
  <2>5. short \in Seq(S) /\ Len(short) = m /\ \A i \in 1 .. m : short[i] = text[i]
    BY <2>2, <2>3, <2>4
  <2> QED
    BY <2>5 DEF m
<1>4. IsText(short)
  BY <1>1, <1>3 DEF IsText
<1>5. \A i \in 1 .. n - 1 : ~(text[i].kind = "text" /\ text[i + 1].kind = "text")
  BY DEF Parted
<1> HIDE DEF n, short
<1>6. Parted(short)
  <2>1. ASSUME NEW i \in 1 .. Len(short) - 1
        PROVE  ~(short[i].kind = "text" /\ short[i + 1].kind = "text")
    <3>1. i \in 1 .. n - 1 /\ i + 1 \in 1 .. n - 1
      BY <1>2, <1>3
    <3>2. short[i] = text[i] /\ short[i + 1] = text[i + 1]
      BY <1>3, <3>1
    <3> QED
      BY <1>5, <3>1, <3>2
  <2> QED
    BY <2>1 DEF Parted
<1>7. ASSUME t.kind = "text", short # <<>>
      PROVE  Last(short).kind # "text"
  <2>1. Len(short) # 0 /\ Last(short) = short[Len(short)]
    BY <1>3, <1>7 DEF Last
  <2>2. n - 1 \in 1 .. n - 1 /\ (n - 1) + 1 = n
    BY <1>2, <1>3, <2>1
  <2>3. short[n - 1] = text[n - 1] /\ text[n].kind = "text"
    BY <1>2, <1>3, <1>7, <2>2
  <2>4. text[n - 1].kind # "text"
    BY <1>5, <2>2, <2>3
  <2> QED
    BY <1>3, <2>1, <2>3, <2>4
<1>8. Parted(Append(short, t))
  BY <1>4, <1>6, <1>7, PartedMore
<1> QED
  BY <1>8 DEF short

(* A token put. *)
LEMMA PartedPut ==
  ASSUME NEW text, IsText(text), Parted(text), NEW t, IsToken(t)
  PROVE  Parted(Put(text, t))
<1>1. CASE text # <<>> /\ t.kind = "text" /\ Last(text).kind = "text"
  <2>. DEFINE u == [t EXCEPT !.name = Last(text).name \o @]
  <2>1. Put(text, t) = Append(Front(text), u)
    BY <1>1 DEF Put
  <2> HIDE DEF u
  <2> QED
    BY <1>1, <2>1, PartedChanged
<1>2. CASE ~(text # <<>> /\ t.kind = "text" /\ Last(text).kind = "text")
  <2>1. Put(text, t) = Append(text, t)
    BY <1>2 DEF Put
  <2> QED
    BY <1>2, <2>1, PartedMore
<1> QED
  BY <1>1, <1>2

(* A line break, if any. *)
LEMMA PartedLine ==
  ASSUME NEW text, IsText(text), Parted(text), NEW wanted
  PROVE  Parted(OnNewLine(text, wanted))
<1>1. IsToken(WhiteSpace)
  BY DEF IsToken, WhiteSpace, Tok, Kinds, Faults
<1>2. Parted(Put(text, WhiteSpace))
  BY <1>1, PartedPut
<1> QED
  BY <1>2 DEF OnNewLine

(* A tag's end. *)
LEMMA PartedSealed ==
  ASSUME TextsFollow, Parted(out)
  PROVE  Parted(Sealed(out))
<1>1. CASE justOpened
  <2>. DEFINE u == [Last(out) EXCEPT !.fault = "none"]
  <2>1. IsText(out) /\ out # <<>>
    BY <1>1 DEF TextsFollow
  <2>2. IsToken(Last(out))
    BY <2>1, TextShortened
  <2>3. u.kind = Last(out).kind
    BY <2>2 DEF IsToken, Tok
  <2>4. Sealed(out) = Append(Front(out), u)
    BY <1>1 DEF Sealed
  <2> HIDE DEF u
  <2> QED
    BY <2>1, <2>3, <2>4, PartedChanged
<1>2. CASE ~justOpened
  BY <1>2 DEF Sealed
<1> QED
  BY <1>1, <1>2

(* A visit prints a token. *)
LEMMA VisitParted ==
  ASSUME DocumentInv, Parted(out), NEW n \in Nodes,
         EnterElement(n) \/ ExitElement(n) \/ VisitText(n) \/ VisitOther(n)
  PROVE  Parted(out')
<1>1. TextsFollow /\ ValuesFollow
  BY DEF DocumentInv
<1>2. value[n].kind \in Kinds => IsToken(value[n])
  <2>1. "none" \notin Kinds
    BY DEF Kinds
  <2>2. NoToken.kind = "none"
    BY DEF NoToken, Tok
  <2> QED
    BY <1>1, <2>1, <2>2 DEF ValuesFollow, Valued
<1>. DEFINE text == OnNewLine(Sealed(out), textDepth < 0 /\ ~isFirst)
<1>3. IsText(Sealed(out)) /\ Parted(Sealed(out))
  BY <1>1, SealedKept, PartedSealed
<1>4. IsText(text) /\ Parted(text)
  BY <1>3, LineKept, PartedLine
<1>5. CASE EnterElement(n)
  <2>. DEFINE t == Tok("open", value[n].name, value[n].attrs, "unterminated")
  <2>1. IsToken(t)
    BY DEF IsToken, Tok, Kinds, Faults
  <2>2. out' = Put(text, t)
    BY <1>5 DEF EnterElement
  <2> HIDE DEF t, text
  <2> QED
    BY <1>4, <2>1, <2>2, PartedPut
<1>6. CASE ExitElement(n)
  <2>. DEFINE u == [Last(out) EXCEPT !.kind = "closed", !.fault = "none"]
              closed == Append(Front(out), u)
              t == Tok("close", Last(names), <<>>, "none")
              line == OnNewLine(out, textDepth < 0)
              tag == IF justOpened THEN closed ELSE Put(line, t)
  <2>1. justOpened => IsText(closed) /\ Parted(closed)
    <3>1. SUFFICES ASSUME justOpened PROVE IsText(closed) /\ Parted(closed)
      OBVIOUS
    <3>2. IsText(out) /\ out # <<>> /\ "closed" \in Kinds
      BY <1>1, <3>1 DEF TextsFollow, Kinds
    <3>3. IsText(closed)
      BY <3>2, LastRewritten
    <3>4. IsToken(Last(out))
      BY <3>2, TextShortened
    <3>5. u.kind = "closed"
      BY <3>4 DEF IsToken, Tok
    <3>6. "closed" # "text"
      OBVIOUS
    <3> HIDE DEF u
    <3>7. Parted(closed)
      BY <3>2, <3>5, <3>6, PartedChanged
    <3> QED
      BY <3>3, <3>7
  <2>2. IsToken(t)
    BY DEF IsToken, Tok, Kinds, Faults
  <2>3. IsText(line) /\ Parted(line)
    BY <1>1, LineKept, PartedLine DEF TextsFollow
  <2>4. out' = OnNewLine(tag, indent' = 0)
    BY <1>6 DEF ExitElement
  <2> HIDE DEF closed, t, line
  <2>5. IsText(tag) /\ Parted(tag)
    BY <2>1, <2>2, <2>3, TokenPut, PartedPut
  <2> HIDE DEF tag
  <2> QED
    BY <2>4, <2>5, PartedLine
<1>7. CASE VisitText(n)
  <2>1. IsToken(value[n])
    BY <1>2, <1>7 DEF VisitText, Kinds
  <2>2. out' = Put(Sealed(out), value[n])
    BY <1>7 DEF VisitText
  <2> QED
    BY <1>3, <2>1, <2>2, PartedPut
<1>8. CASE VisitOther(n)
  <2>1. IsToken(value[n])
    BY <1>2, <1>8 DEF VisitOther, Kinds
  <2>2. out' = Put(text, value[n])
    BY <1>8 DEF VisitOther
  <2> HIDE DEF text
  <2> QED
    BY <1>4, <2>1, <2>2, PartedPut
<1> QED
  BY <1>5, <1>6, <1>7, <1>8
-----------------------------------------------------------------------------
(* Every call. *)

(* Before the first call. *)
LEMMA TextAtFirst == PrintInit => TextInv
<1>. SUFFICES ASSUME PrintInit
              PROVE  TextInv
  OBVIOUS
<1>1. phase = "idle" /\ origin = "none" /\ out = <<>>
  BY DEF PrintInit, ParseInit
<1>2. Parted(out)
  BY <1>1 DEF Parted
<1> QED
  BY <1>1, <1>2
     DEF TextInv, ReadingTells, FailingTells, EndedTells, PrintingTells, ParsesWhatIsThere

(* A call or a step of one. *)
LEMMA TextKept ==
  ASSUME DocumentInv, TextInv, DocumentNext
  PROVE  TextInv'
<1>1. ASSUME Client
      PROVE  TextInv'
  <2>1. out' = <<>>
    BY <1>1 DEF Client
  <2>2. Parted(out') /\ Parted(<<>>) /\ IsText(<<>>)
    BY <2>1, EmptyText DEF Parted
  <2>3. ASSUME NEW v \in {"Parse", "LoadFile"}, Begin(v, "client", <<>>)
        PROVE  TextInv'
    BY <2>2, <2>3, BeginTells
  <2>4. ASSUME NEW v \in {"Parse", "LoadFile"}, NEW text \in Samples \union {<<>>},
               Begin(v, "sample", text)
        PROVE  TextInv'
    <3>1. IsText(text) /\ Parted(text)
      BY <2>2, TokenTypes, TokensAssumption
    <3> QED
      BY <2>2, <2>4, <3>1, BeginTells
  <2>5. ASSUME phase' = "idle", origin' \in {"none", "edited"}
        PROVE  TextInv'
    <3>1. ParsesWhatIsThere'
      BY <2>5 DEF ParsesWhatIsThere
    <3> QED
      BY <2>2, <2>5, <3>1, NowIdle
  <2>6. ASSUME NEW why, LoadFileFails(why)
        PROVE  TextInv'
    BY <2>5, <2>6 DEF LoadFileFails
  <2>7. ASSUME NEW n \in Nodes, ClientDeletes(n)
        PROVE  TextInv'
    BY <2>5, <2>7 DEF ClientDeletes
  <2>8. ASSUME SaveFails
        PROVE  TextInv'
    BY <2>5, <2>8 DEF SaveFails
  <2> QED
    BY <1>1, <2>3, <2>4, <2>6, <2>7, <2>8 DEF Client
<1>2. ASSUME ParseStep, UNCHANGED printerVars
      PROVE  TextInv'
  <2>1. ASSUME NEW tok \in Coming, NEW last \in BOOLEAN, ReadToken(tok, last)
        PROVE  TextInv'
    BY <1>2, <2>1, BlankTells, LeafTells, VainOpenTells, OpenTells, CloseTells DEF ReadToken
  <2> QED
    BY <1>2, <2>1, EndOfInputTells, UnwindTells, FinishTells DEF ParseStep
<1>3. ASSUME phase' = "printing", origin' = "none", Parted(out')
      PROVE  TextInv'
  BY <1>3 DEF TextInv, ReadingTells, FailingTells, EndedTells, PrintingTells, ParsesWhatIsThere
<1>4. ASSUME NEW n \in Nodes,
             EnterElement(n) \/ ExitElement(n) \/ VisitText(n) \/ VisitOther(n)
      PROVE  TextInv'
  <2>1. phase = "printing" /\ UNCHANGED <<phase, origin>>
    BY <1>4 DEF EnterElement, ExitElement, VisitText, VisitOther, Visiting, parseVars, parserVars
  <2>2. origin = "none" /\ Parted(out)
    BY <2>1 DEF TextInv, PrintingTells
  <2>3. Parted(out')
    BY <1>4, <2>2, VisitParted
  <2> QED
    BY <1>3, <2>1, <2>2, <2>3
<1>5. ASSUME Printed
      PROVE  TextInv'
  <2>1. phase = "printing" /\ phase' = "idle" /\ UNCHANGED <<origin, out>>
    BY <1>5 DEF Printed, printerVars
  <2>2. origin' = "none" /\ Parted(out')
    BY <2>1 DEF TextInv, PrintingTells
  <2>3. ParsesWhatIsThere'
    BY <2>2 DEF ParsesWhatIsThere
  <2> QED
    BY <2>1, <2>2, <2>3, NowIdle
<1>6. ASSUME NEW c, Save(c)
      PROVE  TextInv'
  <2>1. phase' = "printing" /\ origin' = "none" /\ out' = <<>>
    BY <1>6 DEF Save
  <2>2. Parted(out')
    BY <2>1 DEF Parted
  <2> QED
    BY <1>3, <2>1, <2>2
<1>7. ASSUME NEW v \in {"Parse", "LoadFile"}, Reload(v)
      PROVE  TextInv'
  <2>1. Begin(v, "saved", out) /\ out' = out
    BY <1>7 DEF Reload, printerVars
  <2>2. IsText(out) /\ Parted(out) /\ Parted(out')
    BY <2>1 DEF DocumentInv, TextsFollow, TextInv, PrintingTells
  <2> QED
    BY <2>1, <2>2, BeginTells
<1> QED
  BY <1>1, <1>2, <1>4, <1>5, <1>6, <1>7 DEF DocumentNext, Step, PrintStep

(* Nothing done, nothing told. *)
LEMMA TextStutters ==
  ASSUME TextInv, UNCHANGED allVars
  PROVE  TextInv'
<1>1. UNCHANGED <<doc, live, value, input, rest, origin, more, frames, error, via, phase, out>>
  BY DEF allVars, parseVars, vars, parserVars, printerVars
<1>2. ReadingTells' /\ FailingTells' /\ EndedTells'
  BY <1>1 DEF TextInv, ReadingTells, FailingTells, EndedTells
<1>3. PrintingTells'
  BY <1>1 DEF TextInv, PrintingTells
<1>4. Listing' = Listing
  BY <1>1 DEF Listing
<1>5. ParsesWhatIsThere'
  BY <1>1, <1>4 DEF TextInv, ParsesWhatIsThere
<1> QED
  BY <1>2, <1>3, <1>5 DEF TextInv

(* Loading succeeds exactly if the text, up to a closing tag that closes    *)
(* nothing, is well formed within the depth limit, and then the document is *)
(* that text; a failed Parse leaves nothing, a failed LoadFile the longest  *)
(* well-formed beginning: whatever the tokens, the texts and the limit are. *)
THEOREM ParsesWhatIsThereHolds == DocumentSpec => []ParsesWhatIsThere
<1>1. PrintInit => TextInv
  BY TextAtFirst
<1>2. DocumentInv /\ TextInv /\ [DocumentNext]_allVars => TextInv'
  BY TextKept, TextStutters
<1>3. TextInv => ParsesWhatIsThere
  BY DEF TextInv
<1> QED
  BY <1>1, <1>2, <1>3, DocumentIsSound, PTL DEF DocumentSpec
=============================================================================
