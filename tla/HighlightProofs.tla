---------------------------- MODULE HighlightProofs ----------------------------
(***************************************************************************)
(* Theorems about Highlight, for every text and every verdict.  With plain *)
(* highlights a browser shows the text that was submitted, bold only what  *)
(* a highlight covers, and all of a highlight that crosses no other.       *)
(*                                                                         *)
(* The text so far is a marking of the submitted one: the markings are the *)
(* smallest set that holds the empty string at the end of the text and is  *)
(* closed under writing a character or a tag in front.  What a browser     *)
(* shows of a marking, and what ReplaceAll makes of one, follow by         *)
(* induction on the positions of a string, the last first.                 *)
(***************************************************************************)
EXTENDS Highlight, FiniteSetTheorems, SequenceTheorems, TLAPS

-----------------------------------------------------------------------------
(* Induction over sets of numbers                                          *)

LEMMA Upward ==
  ASSUME NEW S, 0 \in S, \A m \in Nat : m \in S => m + 1 \in S
  PROVE  Nat \subseteq S
  <1> DEFINE R == OpToRel(<, Nat)
             T == Nat \ S
  <1>1. IsWellFoundedOn(R, Nat)
    BY NatLessThanWellFounded
  <1>2. ASSUME T # {} PROVE FALSE
    <2>1. T \subseteq Nat
      OBVIOUS
    <2> HIDE DEF R, T
    <2>2. PICK m \in T : \A y \in T : ~(<<y, m>> \in R)
      BY <1>1, <1>2, <2>1, WFMin
    <2>3. m \in Nat /\ m \notin S /\ m # 0
      BY <2>2 DEF T
    <2>4. m - 1 \in Nat /\ m - 1 < m /\ (m - 1) + 1 = m
      BY <2>3
    <2>5. m - 1 \in T
      BY <2>3, <2>4 DEF T
    <2>6. <<m - 1, m>> \in R
      BY <2>3, <2>4 DEF R, OpToRel
    <2> QED BY <2>2, <2>5, <2>6
  <1> QED BY <1>2

\* From n down to 1, knowing of all that lie above.
LEMMA Downward ==
  ASSUME NEW n \in Nat, NEW S,
         \A i \in 1 .. n : (\A j \in 1 .. n : i < j => j \in S) => i \in S
  PROVE  1 .. n \subseteq S
  <1> DEFINE U == {m \in Nat : \A j \in 1 .. n : j > n - m => j \in S}
  <1>1. 0 \in U
    OBVIOUS
  <1>2. ASSUME NEW m \in Nat, m \in U PROVE m + 1 \in U
    <2> SUFFICES ASSUME NEW j \in 1 .. n, j > n - (m + 1) PROVE j \in S
      OBVIOUS
    <2>1. CASE j > n - m
      BY <1>2, <2>1
    <2>2. CASE ~(j > n - m)
      <3>1. \A k \in 1 .. n : j < k => k > n - m
        BY <2>2
      <3>2. \A k \in 1 .. n : j < k => k \in S
        BY <1>2, <3>1
      <3> QED BY <3>2
    <2> QED BY <2>1, <2>2
  <1> HIDE DEF U
  <1>3. n \in U
    BY <1>1, <1>2, Upward
  <1> QED BY <1>3 DEF U

-----------------------------------------------------------------------------
(* Sequences                                                               *)

Suffix(s, i) == SubSeq(s, i, Len(s))

Cons(c, u) == <<c>> \o u
Cat(u, v) == u \o v

LEMMA SuffixIs ==
  ASSUME NEW S, NEW s \in Seq(S)
  PROVE  /\ Len(s) \in Nat
         /\ Suffix(s, 1) = s /\ Suffix(s, Len(s) + 1) = <<>>
         /\ \A i \in 1 .. Len(s) + 1 : Suffix(s, i) \in Seq(S)
         /\ \A i \in 1 .. Len(s) : s[i] \in S /\ Suffix(s, i) = Cons(s[i], Suffix(s, i + 1))
  <1>1. Len(s) \in Nat /\ Suffix(s, 1) = s /\ Suffix(s, Len(s) + 1) = <<>>
    BY DEF Suffix
  <1>2. \A i \in 1 .. Len(s) + 1 : Suffix(s, i) \in Seq(S)
    BY DEF Suffix
  <1>3. \A i \in 1 .. Len(s) : s[i] \in S /\ Suffix(s, i) = Cons(s[i], Suffix(s, i + 1))
    BY DEF Suffix, Cons
  <1> QED BY <1>1, <1>2, <1>3

LEMMA ConsIs ==
  ASSUME NEW S, NEW u \in Seq(S), NEW c \in S
  PROVE  Cons(c, u) \in Seq(S) /\ Cons(c, u) # <<>> /\ <<>> \in Seq(S)
  <1>1. <<c>> \o u \in Seq(S) /\ Len(<<c>> \o u) = Len(u) + 1
    OBVIOUS
  <1>2. Len(<<c>> \o u) # 0
    BY <1>1
  <1> QED BY <1>1, <1>2 DEF Cons

LEMMA ConsSame ==
  ASSUME NEW S, NEW u \in Seq(S), NEW v \in Seq(S), NEW c \in S, NEW e \in S,
         Cons(c, u) = Cons(e, v)
  PROVE  c = e /\ u = v
  <1>0. <<c>> \o u = <<e>> \o v
    BY DEF Cons
  <1>1. (<<c>> \o u)[1] = c /\ (<<e>> \o v)[1] = e
    OBVIOUS
  <1>2. Len(<<c>> \o u) = Len(u) + 1 /\ Len(<<e>> \o v) = Len(v) + 1
    OBVIOUS
  <1>3. \A i \in 1 .. Len(u) : (<<c>> \o u)[i + 1] = u[i]
    OBVIOUS
  <1>4. \A i \in 1 .. Len(v) : (<<e>> \o v)[i + 1] = v[i]
    OBVIOUS
  <1>5. Len(u) = Len(v)
    BY <1>0, <1>2
  <1>6. \A i \in 1 .. Len(u) : u[i] = v[i]
    BY <1>0, <1>3, <1>4, <1>5
  <1> QED BY <1>0, <1>1, <1>5, <1>6

LEMMA CatAssociative ==
  ASSUME NEW S, NEW u \in Seq(S), NEW v \in Seq(S), NEW w \in Seq(S)
  PROVE  Cat(u, v) \in Seq(S) /\ Cat(Cat(u, v), w) = Cat(u, Cat(v, w))
  BY DEF Cat

LEMMA ConsCat ==
  ASSUME NEW S, NEW c \in S, NEW u \in Seq(S), NEW v \in Seq(S)
  PROVE  Cat(Cons(c, u), v) = Cons(c, Cat(u, v)) /\ Cat(<<>>, v) = v
  <1>1. PICK w : w = <<c>>
    OBVIOUS
  <1>2. w \in Seq(S)
    BY <1>1
  <1>3. Cons(c, u) = Cat(w, u) /\ Cons(c, Cat(u, v)) = Cat(w, Cat(u, v))
    BY <1>1 DEF Cons, Cat
  <1>4. Cat(<<>>, v) = v
    BY DEF Cat
  <1> QED BY <1>2, <1>3, <1>4, CatAssociative

LEMMA PairOf ==
  ASSUME NEW S, NEW a \in S, NEW b \in S
  PROVE  <<a, b>> = <<a>> \o <<b>>
  <1>1. /\ <<a>> \o <<b>> \in Seq(S) /\ Len(<<a>> \o <<b>>) = 2
        /\ (<<a>> \o <<b>>)[1] = a /\ (<<a>> \o <<b>>)[2] = b
    OBVIOUS
  <1>2. PICK x : x = <<a>> \o <<b>>
    OBVIOUS
  <1>3. x \in Seq(S) /\ Len(x) = 2 /\ x[1] = a /\ x[2] = b
    BY <1>1, <1>2
  <1>4. x = [i \in 1 .. 2 |-> x[i]]
    BY <1>3
  <1>5. x = <<a, b>>
    BY <1>3
  <1> QED BY <1>2, <1>5

\* Tags, written character by character.
Three(a, b, c) == <<a, b, c>>
Four(a, b, c, d) == <<a, b, c, d>>

LEMMA Spelled ==
  ASSUME NEW S, NEW u \in Seq(S), NEW c1 \in S, NEW c2 \in S, NEW c3 \in S
  PROVE  Cat(Three(c1, c2, c3), u) = Cons(c1, Cons(c2, Cons(c3, u)))
  <1>1. PICK a, b, c, bc, abc :
          a = <<c1>> /\ b = <<c2>> /\ c = <<c3>> /\ bc = <<c2, c3>> /\ abc = <<c1, c2, c3>>
    OBVIOUS
  <1>2. a \in Seq(S) /\ b \in Seq(S) /\ c \in Seq(S) /\ bc \in Seq(S)
    BY <1>1
  <1>3. bc = Cat(b, c)
    BY <1>1, PairOf DEF Cat
  <1>4. abc = Cat(a, bc)
    BY <1>1 DEF Cat
  <1>5. Cat(abc, u) = Cat(a, Cat(b, Cat(c, u)))
    BY <1>2, <1>3, <1>4, CatAssociative
  <1>6. \A v : Cat(a, v) = Cons(c1, v) /\ Cat(b, v) = Cons(c2, v) /\ Cat(c, v) = Cons(c3, v)
    BY <1>1 DEF Cat, Cons
  <1> QED BY <1>1, <1>5, <1>6 DEF Three

LEMMA SpelledLonger ==
  ASSUME NEW S, NEW u \in Seq(S), NEW c1 \in S, NEW c2 \in S, NEW c3 \in S, NEW c4 \in S
  PROVE  Cat(Four(c1, c2, c3, c4), u) = Cons(c1, Cons(c2, Cons(c3, Cons(c4, u))))
  <1>1. PICK a, bcd, abcd :
          a = <<c1>> /\ bcd = <<c2, c3, c4>> /\ abcd = <<c1, c2, c3, c4>>
    OBVIOUS
  <1>2. a \in Seq(S) /\ bcd \in Seq(S)
    BY <1>1
  <1>3. abcd = Cat(a, bcd)
    BY <1>1 DEF Cat
  <1>4. Cat(abcd, u) = Cat(a, Cat(bcd, u))
    BY <1>2, <1>3, CatAssociative
  <1>5. Cat(bcd, u) = Cons(c2, Cons(c3, Cons(c4, u)))
    <2>1. bcd = Three(c2, c3, c4)
      BY <1>1 DEF Three
    <2> QED BY <2>1, Spelled
  <1>6. \A v : Cat(a, v) = Cons(c1, v)
    BY <1>1 DEF Cat, Cons
  <1> QED BY <1>1, <1>4, <1>5, <1>6 DEF Four

LEMMA CharactersAre ==
  "<" \in Characters /\ "/" \in Characters /\ "b" \in Characters /\ ">" \in Characters
  BY DEF Characters

LEMMA TagsAre ==
  ASSUME NEW u \in Seq(Characters)
  PROVE  /\ OpenTag \in Seq(Characters) /\ CloseTag \in Seq(Characters)
         /\ Cat(OpenTag, u) \in Seq(Characters) /\ Cat(CloseTag, u) \in Seq(Characters)
         /\ Cat(OpenTag, u) = Cons("<", Cons("b", Cons(">", u)))
         /\ Cat(CloseTag, u) = Cons("<", Cons("/", Cons("b", Cons(">", u))))
  <1>1. OpenTag \in Seq(Characters) /\ CloseTag \in Seq(Characters)
    BY CharactersAre DEF OpenTag, CloseTag
  <1>2. /\ Cat(OpenTag, u) = Cons("<", Cons("b", Cons(">", u)))
        /\ Cat(CloseTag, u) = Cons("<", Cons("/", Cons("b", Cons(">", u))))
    <2>1. OpenTag = Three("<", "b", ">") /\ CloseTag = Four("<", "/", "b", ">")
      BY DEF OpenTag, CloseTag, Three, Four
    <2>2. Cat(Three("<", "b", ">"), u) = Cons("<", Cons("b", Cons(">", u)))
      BY CharactersAre, Spelled
    <2>3. Cat(Four("<", "/", "b", ">"), u) = Cons("<", Cons("/", Cons("b", Cons(">", u))))
      BY CharactersAre, SpelledLonger
    <2> QED BY <2>1, <2>2, <2>3
  <1> QED BY <1>1, <1>2, CatAssociative

-----------------------------------------------------------------------------
(* The two recursive functions                                             *)

Replaced(f, s, p, new, i) ==
  IF p = <<>> THEN new \o (IF i > Len(s) THEN <<>> ELSE <<s[i]>> \o f[i + 1])
  ELSE IF i > Len(s) THEN <<>>
  ELSE IF MatchAt(s, p, i) THEN new \o f[i + Len(p)]
  ELSE <<s[i]>> \o f[i + 1]

Replacing(s, p, new) ==
  CHOOSE f : f = [i \in 1 .. Len(s) + 1 |-> Replaced(f, s, p, new, i)]

LEMMA ReplacedLooksAhead ==
  ASSUME NEW s \in Seq(Characters), NEW p \in Seq(Characters), NEW new, NEW f, NEW g,
         NEW i \in 1 .. Len(s) + 1,
         \A j \in 1 .. Len(s) + 1 : j > i => f[j] = g[j]
  PROVE  Replaced(f, s, p, new, i) = Replaced(g, s, p, new, i)
  <1>1. Len(s) \in Nat /\ Len(p) \in Nat
    OBVIOUS
  <1>2. i <= Len(s) => f[i + 1] = g[i + 1]
    BY <1>1
  <1>3. p # <<>> /\ MatchAt(s, p, i) => f[i + Len(p)] = g[i + Len(p)]
    <2> SUFFICES ASSUME p # <<>>, MatchAt(s, p, i) PROVE f[i + Len(p)] = g[i + Len(p)]
      OBVIOUS
    <2>1. Len(p) # 0
      OBVIOUS
    <2>2. i + Len(p) <= Len(s) + 1
      BY DEF MatchAt
    <2> QED BY <1>1, <2>1, <2>2
  <1> QED BY <1>1, <1>2, <1>3 DEF Replaced

\* String.replace is what its recursion says.
LEMMA ReplacingIs ==
  ASSUME NEW s \in Seq(Characters), NEW p \in Seq(Characters), NEW new
  PROVE  /\ ReplaceAll(s, p, new) = Replacing(s, p, new)[1]
         /\ \A i \in 1 .. Len(s) + 1 :
              Replacing(s, p, new)[i] = Replaced(Replacing(s, p, new), s, p, new, i)
  <1> DEFINE D(m) == {i \in 1 .. Len(s) + 1 : i > Len(s) + 1 - m}
             S == {m \in Nat : \E f : f = [i \in D(m) |-> Replaced(f, s, p, new, i)]}
  <1>0. PICK len \in Nat : len = Len(s)
    OBVIOUS
  <1>1. 0 \in S
    <2>1. D(0) = {}
      BY <1>0
    <2> DEFINE e == [i \in {} |-> 0]
    <2>2. e = [i \in D(0) |-> Replaced(e, s, p, new, i)]
      BY <2>1
    <2> QED BY <2>2
  <1>2. ASSUME NEW m \in Nat, m \in S PROVE m + 1 \in S
    <2>1. PICK f : f = [i \in D(m) |-> Replaced(f, s, p, new, i)]
      BY <1>2
    <2> DEFINE g == [i \in D(m + 1) |-> IF i \in D(m) THEN f[i] ELSE Replaced(f, s, p, new, i)]
    <2>2. \A i \in D(m + 1) : \A j \in 1 .. len + 1 : j > i => j \in D(m)
      BY <1>0
    <2>3. D(m) \subseteq D(m + 1) /\ D(m + 1) \subseteq 1 .. len + 1
      BY <1>0
    <2> HIDE DEF D
    <2>4. \A i \in D(m) : g[i] = f[i]
      BY <2>3
    <2>5. ASSUME NEW i \in D(m + 1) PROVE g[i] = Replaced(g, s, p, new, i)
      <3>1. \A j \in 1 .. Len(s) + 1 : j > i => f[j] = g[j]
        BY <1>0, <2>2, <2>4
      <3> HIDE DEF g
      <3>2. Replaced(f, s, p, new, i) = Replaced(g, s, p, new, i)
        <4>1. i \in 1 .. Len(s) + 1
          BY <1>0, <2>3
        <4> QED BY <3>1, <4>1, ReplacedLooksAhead
      <3>3. i \in D(m) => f[i] = Replaced(f, s, p, new, i)
        BY <2>1
      <3> QED BY <3>2, <3>3 DEF g
    <2>6. g = [i \in D(m + 1) |-> g[i]]
      OBVIOUS
    <2> HIDE DEF g
    <2>7. g = [i \in D(m + 1) |-> Replaced(g, s, p, new, i)]
      BY <2>5, <2>6
    <2> QED BY <2>7
  <1>3. len + 1 \in S
    <2> HIDE DEF S
    <2> QED BY <1>1, <1>2, Upward
  <1>4. D(len + 1) = 1 .. Len(s) + 1
    BY <1>0
  <1>5. \E f : f = [i \in 1 .. Len(s) + 1 |-> Replaced(f, s, p, new, i)]
    BY <1>3, <1>4
  <1>6. Replacing(s, p, new)
        = [i \in 1 .. Len(s) + 1 |-> Replaced(Replacing(s, p, new), s, p, new, i)]
    BY <1>5 DEF Replacing
  <1>7. ReplaceAll(s, p, new) = Replacing(s, p, new)[1]
    BY DEF ReplaceAll, Replacing, Replaced
  <1> QED BY <1>6, <1>7

Glyph(c, isBold) == [char |-> c, bold |-> isBold]

Seen(f, s, x) ==
  IF x[1] > Len(s) THEN <<>>
  ELSE IF IsAt(s, OpenTag, x[1]) THEN f[<<x[1] + Len(OpenTag), x[2] + 1>>]
  ELSE IF IsAt(s, CloseTag, x[1])
    THEN f[<<x[1] + Len(CloseTag), IF x[2] = 0 THEN 0 ELSE x[2] - 1>>]
  ELSE <<Glyph(s[x[1]], x[2] > 0)>> \o f[<<x[1] + 1, x[2]>>]

Showing(s) == CHOOSE f : f = [x \in (1 .. Len(s) + 1) \X Nat |-> Seen(f, s, x)]

LEMMA TagLengths == Len(OpenTag) = 3 /\ Len(CloseTag) = 4
  BY DEF OpenTag, CloseTag

LEMMA SeenLooksAhead ==
  ASSUME NEW s \in Seq(Characters), NEW f, NEW g, NEW i \in 1 .. Len(s) + 1, NEW d \in Nat,
         \A j \in 1 .. Len(s) + 1, e \in Nat : j > i => f[<<j, e>>] = g[<<j, e>>]
  PROVE  Seen(f, s, <<i, d>>) = Seen(g, s, <<i, d>>)
  <1>1. Len(s) \in Nat
    OBVIOUS
  <1>2. i <= Len(s) => f[<<i + 1, d>>] = g[<<i + 1, d>>]
    BY <1>1
  <1>3. IsAt(s, OpenTag, i) => f[<<i + Len(OpenTag), d + 1>>] = g[<<i + Len(OpenTag), d + 1>>]
    BY <1>1, TagLengths DEF IsAt
  <1>4. ASSUME NEW e \in Nat, IsAt(s, CloseTag, i)
        PROVE  f[<<i + Len(CloseTag), e>>] = g[<<i + Len(CloseTag), e>>]
    BY <1>1, <1>4, TagLengths DEF IsAt
  <1>5. (IF d = 0 THEN 0 ELSE d - 1) \in Nat
    OBVIOUS
  <1> QED BY <1>1, <1>2, <1>3, <1>4, <1>5 DEF Seen

\* What a browser shows is what its recursion says.
LEMMA ShowingIs ==
  ASSUME NEW s \in Seq(Characters)
  PROVE  /\ Shown(s) = Showing(s)[<<1, 0>>]
         /\ \A i \in 1 .. Len(s) + 1, d \in Nat :
              Showing(s)[<<i, d>>] = Seen(Showing(s), s, <<i, d>>)
  <1> DEFINE D(m) == {x \in (1 .. Len(s) + 1) \X Nat : x[1] > Len(s) + 1 - m}
             S == {m \in Nat : \E f : f = [x \in D(m) |-> Seen(f, s, x)]}
  <1>0. PICK len \in Nat : len = Len(s)
    OBVIOUS
  <1>1. 0 \in S
    <2>1. D(0) = {}
      BY <1>0
    <2> DEFINE e == [i \in {} |-> 0]
    <2>2. e = [i \in D(0) |-> Seen(e, s, i)]
      BY <2>1
    <2> QED BY <2>2
  <1>2. ASSUME NEW m \in Nat, m \in S PROVE m + 1 \in S
    <2>1. PICK f : f = [x \in D(m) |-> Seen(f, s, x)]
      BY <1>2
    <2> DEFINE g == [x \in D(m + 1) |-> IF x \in D(m) THEN f[x] ELSE Seen(f, s, x)]
    <2>2. \A x \in D(m + 1) : \A j \in 1 .. len + 1, e \in Nat : j > x[1] => <<j, e>> \in D(m)
      BY <1>0
    <2>3. D(m) \subseteq D(m + 1) /\ D(m + 1) \subseteq (1 .. len + 1) \X Nat
      BY <1>0
    <2> HIDE DEF D
    <2>4. \A x \in D(m) : g[x] = f[x]
      BY <2>3
    <2>5. ASSUME NEW x \in D(m + 1) PROVE g[x] = Seen(g, s, x)
      <3>1. PICK i \in 1 .. Len(s) + 1, d \in Nat : x = <<i, d>>
        BY <1>0, <2>3
      <3>2. \A j \in 1 .. Len(s) + 1, e \in Nat : j > i => f[<<j, e>>] = g[<<j, e>>]
        BY <1>0, <2>2, <2>4, <3>1
      <3> HIDE DEF g
      <3>3. Seen(f, s, <<i, d>>) = Seen(g, s, <<i, d>>)
        BY <3>2, SeenLooksAhead, SMTT(30)
      <3>4. x \in D(m) => f[x] = Seen(f, s, x)
        BY <2>1
      <3> QED BY <3>1, <3>3, <3>4 DEF g
    <2>6. g = [x \in D(m + 1) |-> g[x]]
      OBVIOUS
    <2> HIDE DEF g
    <2>7. g = [x \in D(m + 1) |-> Seen(g, s, x)]
      BY <2>5, <2>6
    <2> QED BY <2>7
  <1>3. len + 1 \in S
    <2> HIDE DEF S
    <2> QED BY <1>1, <1>2, Upward
  <1>4. D(len + 1) = (1 .. Len(s) + 1) \X Nat
    BY <1>0
  <1>5. \E f : f = [x \in (1 .. Len(s) + 1) \X Nat |-> Seen(f, s, x)]
    BY <1>3, <1>4
  <1>6. Showing(s) = [x \in (1 .. Len(s) + 1) \X Nat |-> Seen(Showing(s), s, x)]
    BY <1>5 DEF Showing
  <1>7. Shown(s) = Showing(s)[<<1, 0>>]
    BY DEF Shown, Showing, Seen, Glyph
  <1> QED BY <1>6, <1>7

-----------------------------------------------------------------------------
(* Markings                                                                *)

TextCharacters == Characters \ {"<", "/", ">"}

\* A string that shows the text t from its character k on, in tags of depth d,
\* with those characters in bold that are in b.
Markings(t) == Seq(Characters) \X (1 .. Len(t) + 1) \X Nat \X SUBSET (1 .. Len(t))

\* Opening tags may be at the places in O, closing ones at those in C.
Grows(M, t, O, C, u, k, d, b) ==
  /\ k > 1 => << Cons(t[k - 1], u), k - 1, d, IF d > 0 THEN b \cup {k - 1} ELSE b >> \in M
  /\ d > 0 /\ k \in O => <<Cat(OpenTag, u), k, d - 1, b>> \in M
  /\ k \in C => <<Cat(CloseTag, u), k, d + 1, b>> \in M

Closed(M, t, O, C) ==
  /\ << <<>>, Len(t) + 1, 0, {} >> \in M
  /\ \A u \in Seq(Characters), k \in 1 .. Len(t) + 1, d \in Nat, b \in SUBSET (1 .. Len(t)) :
       <<u, k, d, b>> \in M => Grows(M, t, O, C, u, k, d, b)

Marked(t, O, C) ==
  {x \in Markings(t) : \A M \in SUBSET Markings(t) : Closed(M, t, O, C) => x \in M}

LEMMA TextIs ==
  ASSUME NEW t \in Seq(TextCharacters)
  PROVE  /\ t \in Seq(Characters) /\ Len(t) \in Nat
         /\ \A k \in 1 .. Len(t) + 1 : k > 1 => /\ k - 1 \in 1 .. Len(t) /\ (k - 1) + 1 = k
                                                /\ t[k - 1] \in TextCharacters
                                                /\ t[k - 1] \in Characters
  <1>1. Len(t) \in Nat /\ \A k \in 1 .. Len(t) : t[k] \in TextCharacters
    OBVIOUS
  <1>2. t \in Seq(Characters)
    BY DEF TextCharacters
  <1>3. \A k \in 1 .. Len(t) + 1 : k > 1 => k - 1 \in 1 .. Len(t) /\ (k - 1) + 1 = k
    BY <1>1
  <1> QED BY <1>1, <1>2, <1>3 DEF TextCharacters

\* Every marking grows into markings.
LEMMA MarkingsGrow ==
  ASSUME NEW t \in Seq(TextCharacters), NEW O, NEW C
  PROVE  Closed(Markings(t), t, O, C)
  <1>1. << <<>>, Len(t) + 1, 0, {} >> \in Markings(t)
    <2>1. <<>> \in Seq(Characters) /\ Len(t) + 1 \in 1 .. Len(t) + 1 /\ {} \in SUBSET (1 .. Len(t))
      BY TextIs
    <2> QED BY <2>1 DEF Markings
  <1>2. ASSUME NEW u \in Seq(Characters), NEW k \in 1 .. Len(t) + 1, NEW d \in Nat,
               NEW b \in SUBSET (1 .. Len(t))
        PROVE  Grows(Markings(t), t, O, C, u, k, d, b)
    <2>1. ASSUME k > 1
          PROVE  << Cons(t[k - 1], u), k - 1, d, IF d > 0 THEN b \cup {k - 1} ELSE b >>
                 \in Markings(t)
      <3>1. Cons(t[k - 1], u) \in Seq(Characters) /\ k - 1 \in 1 .. Len(t) + 1
            /\ k - 1 \in 1 .. Len(t)
        <4>1. t[k - 1] \in Characters /\ k - 1 \in 1 .. Len(t) /\ Len(t) \in Nat
          BY <2>1, TextIs
        <4>2. Cons(t[k - 1], u) \in Seq(Characters)
          BY <4>1, ConsIs
        <4> QED BY <4>1, <4>2
      <3>2. (IF d > 0 THEN b \cup {k - 1} ELSE b) \in SUBSET (1 .. Len(t))
        BY <3>1
      <3> QED BY <3>1, <3>2 DEF Markings
    <2>2. d + 1 \in Nat /\ (d > 0 => d - 1 \in Nat)
      OBVIOUS
    <2>3. Cat(OpenTag, u) \in Seq(Characters) /\ Cat(CloseTag, u) \in Seq(Characters)
      BY TagsAre
    <2>4. d > 0 => <<Cat(OpenTag, u), k, d - 1, b>> \in Markings(t)
      BY <2>2, <2>3 DEF Markings
    <2>5. <<Cat(CloseTag, u), k, d + 1, b>> \in Markings(t)
      BY <2>2, <2>3 DEF Markings
    <2> QED BY <2>1, <2>4, <2>5 DEF Grows
  <1> QED BY <1>1, <1>2 DEF Closed

LEMMA MarkedIn ==
  ASSUME NEW t, NEW O, NEW C, NEW M \in SUBSET Markings(t), Closed(M, t, O, C)
  PROVE  Marked(t, O, C) \subseteq M
  BY DEF Marked

LEMMA MarkedClosed ==
  ASSUME NEW t \in Seq(TextCharacters), NEW O, NEW C
  PROVE  Closed(Marked(t, O, C), t, O, C)
  <1> DEFINE K == Marked(t, O, C)
  <1>1. << <<>>, Len(t) + 1, 0, {} >> \in K
    BY MarkingsGrow DEF Marked, Closed
  <1>2. ASSUME NEW u \in Seq(Characters), NEW k \in 1 .. Len(t) + 1, NEW d \in Nat,
               NEW b \in SUBSET (1 .. Len(t)), <<u, k, d, b>> \in K
        PROVE  Grows(K, t, O, C, u, k, d, b)
    <2>1. \A M \in SUBSET Markings(t) : Closed(M, t, O, C) => Grows(M, t, O, C, u, k, d, b)
      BY <1>2 DEF Marked, Closed
    <2>2. Grows(Markings(t), t, O, C, u, k, d, b)
      <3>1. <<u, k, d, b>> \in Markings(t)
        BY <1>2 DEF Marked
      <3> QED BY <3>1, MarkingsGrow DEF Closed
    <2>3. PICK v, w, x, B : /\ v = << Cons(t[k - 1], u), k - 1, d, B>>
                               /\ w = <<Cat(OpenTag, u), k, d - 1, b>>
                               /\ x = <<Cat(CloseTag, u), k, d + 1, b>>
                               /\ B = IF d > 0 THEN b \cup {k - 1} ELSE b
      OBVIOUS
    <2>4. \A M : Grows(M, t, O, C, u, k, d, b) <=>
                   /\ k > 1 => v \in M
                   /\ d > 0 /\ k \in O => w \in M
                   /\ k \in C => x \in M
      BY <2>3 DEF Grows
    <2>5. \A e : e \in K <=> e \in Markings(t)
                             /\ \A M \in SUBSET Markings(t) : Closed(M, t, O, C) => e \in M
      BY DEF Marked
    <2> HIDE DEF K
    <2> QED BY <2>1, <2>2, <2>4, <2>5
  <1> QED BY <1>1, <1>2 DEF Closed

\* How a marking has come about: it is empty, or begins with a character of the
\* text, an opening tag or a closing one.
Done(t, u, k, d, b) == u = <<>> /\ k = Len(t) + 1 /\ d = 0 /\ b = {}

CharacterFirst(t, O, C, u, k, d, b) ==
  /\ k \in 1 .. Len(t)
  /\ \E v \in Seq(Characters), e \in SUBSET (1 .. Len(t)) :
       /\ <<v, k + 1, d, e>> \in Marked(t, O, C)
       /\ u = Cons(t[k], v) /\ b = IF d > 0 THEN e \cup {k} ELSE e

OpenFirst(t, O, C, u, k, d, b) ==
  /\ k \in O
  /\ \E v \in Seq(Characters) : <<v, k, d + 1, b>> \in Marked(t, O, C) /\ u = Cat(OpenTag, v)

CloseFirst(t, O, C, u, k, d, b) ==
  /\ k \in C /\ d > 0
  /\ \E v \in Seq(Characters) : <<v, k, d - 1, b>> \in Marked(t, O, C) /\ u = Cat(CloseTag, v)

Came(t, O, C, u, k, d, b) ==
  \/ Done(t, u, k, d, b) \/ CharacterFirst(t, O, C, u, k, d, b)
  \/ OpenFirst(t, O, C, u, k, d, b) \/ CloseFirst(t, O, C, u, k, d, b)

LEMMA MarkedIs ==
  ASSUME NEW t \in Seq(TextCharacters), NEW O, NEW C, NEW u, NEW k, NEW d, NEW b,
         <<u, k, d, b>> \in Marked(t, O, C)
  PROVE  /\ u \in Seq(Characters) /\ k \in 1 .. Len(t) + 1 /\ d \in Nat
         /\ b \in SUBSET (1 .. Len(t)) /\ <<u, k, d, b>> \in Markings(t)
  BY DEF Marked, Markings

LEMMA MarkedCame ==
  ASSUME NEW t \in Seq(TextCharacters), NEW O, NEW C, NEW u, NEW k, NEW d, NEW b,
         <<u, k, d, b>> \in Marked(t, O, C)
  PROVE  Came(t, O, C, u, k, d, b) /\ b \subseteq k .. Len(t)
  <1> DEFINE K == Marked(t, O, C)
             M == {x \in K : Came(t, O, C, x[1], x[2], x[3], x[4]) /\ x[4] \subseteq x[2] .. Len(t)}
  <1>0. Closed(K, t, O, C) /\ K \subseteq Markings(t)
    BY MarkedClosed DEF Marked
  <1>1. << <<>>, Len(t) + 1, 0, {} >> \in M
    BY <1>0 DEF Closed, Came, Done
  <1>2. ASSUME NEW v \in Seq(Characters), NEW j \in 1 .. Len(t) + 1, NEW f \in Nat,
               NEW e \in SUBSET (1 .. Len(t)), <<v, j, f, e>> \in M
        PROVE  Grows(M, t, O, C, v, j, f, e)
    <2>0. /\ <<v, j, f, e>> \in K /\ Grows(K, t, O, C, v, j, f, e) /\ e \subseteq j .. Len(t)
          /\ Len(t) \in Nat
      BY <1>0, <1>2, TextIs DEF Closed
    <2>1. ASSUME j > 1
          PROVE  << Cons(t[j - 1], v), j - 1, f, IF f > 0 THEN e \cup {j - 1} ELSE e >> \in M
      <3>1. PICK i, e2 : i = j - 1 /\ e2 = IF f > 0 THEN e \cup {i} ELSE e
        OBVIOUS
      <3>2. i \in 1 .. Len(t) /\ i + 1 = j
        BY <2>0, <2>1, <3>1
      <3>3. << Cons(t[i], v), i, f, e2 >> \in K
        BY <2>0, <2>1, <3>1 DEF Grows
      <3>4. CharacterFirst(t, O, C, Cons(t[i], v), i, f, e2)
        BY <2>0, <3>1, <3>2 DEF CharacterFirst
      <3>5. e2 \subseteq i .. Len(t)
        BY <2>0, <3>1, <3>2
      <3> QED BY <3>1, <3>3, <3>4, <3>5 DEF Came
    <2>2. ASSUME f > 0, j \in O PROVE <<Cat(OpenTag, v), j, f - 1, e>> \in M
      <3>1. PICK g \in Nat : g = f - 1 /\ g + 1 = f
        BY <2>2
      <3>2. << Cat(OpenTag, v), j, g, e >> \in K
        BY <2>0, <2>2, <3>1 DEF Grows
      <3>3. OpenFirst(t, O, C, Cat(OpenTag, v), j, g, e)
        BY <2>0, <2>2, <3>1 DEF OpenFirst
      <3> QED BY <2>0, <3>1, <3>2, <3>3 DEF Came
    <2>3. ASSUME j \in C PROVE <<Cat(CloseTag, v), j, f + 1, e>> \in M
      <3>1. PICK g \in Nat : g = f + 1 /\ g - 1 = f /\ g > 0
        OBVIOUS
      <3>2. << Cat(CloseTag, v), j, g, e >> \in K
        BY <2>0, <2>3, <3>1 DEF Grows
      <3>3. CloseFirst(t, O, C, Cat(CloseTag, v), j, g, e)
        BY <2>0, <2>3, <3>1 DEF CloseFirst
      <3> QED BY <2>0, <3>1, <3>2, <3>3 DEF Came
    <2> HIDE DEF M
    <2> QED BY <2>1, <2>2, <2>3 DEF Grows
  <1>3. Closed(M, t, O, C)
    <2> HIDE DEF M
    <2> QED BY <1>1, <1>2 DEF Closed
  <1>4. <<u, k, d, b>> \in M
    BY <1>0, <1>3, MarkedIn
  <1> QED BY <1>4

\* More places for tags, more markings.
LEMMA MarkedMore ==
  ASSUME NEW t \in Seq(TextCharacters), NEW O, NEW C, NEW P, NEW D, O \subseteq P, C \subseteq D
  PROVE  Marked(t, O, C) \subseteq Marked(t, P, D)
  <1>1. Closed(Marked(t, P, D), t, P, D) /\ Marked(t, P, D) \subseteq Markings(t)
    BY MarkedClosed DEF Marked
  <1>2. Closed(Marked(t, P, D), t, O, C)
    BY <1>1, ZenonT(40) DEF Closed, Grows
  <1> QED BY <1>1, <1>2, MarkedIn

-----------------------------------------------------------------------------
(* What comes first in a marking                                           *)

LEMMA Ahead ==
  ASSUME NEW s \in Seq(Characters), NEW i \in 1 .. Len(s) + 1, NEW c \in Characters,
         NEW v \in Seq(Characters), Suffix(s, i) = Cons(c, v)
  PROVE  i \in 1 .. Len(s) /\ i + 1 \in 1 .. Len(s) + 1 /\ s[i] = c /\ Suffix(s, i + 1) = v
  <1>1. Len(s) \in Nat /\ Suffix(s, Len(s) + 1) = <<>> /\ Cons(c, v) # <<>>
    BY SuffixIs, ConsIs
  <1>2. i \in 1 .. Len(s) /\ i + 1 \in 1 .. Len(s) + 1
    BY <1>1
  <1>3. s[i] \in Characters /\ Suffix(s, i) = Cons(s[i], Suffix(s, i + 1))
        /\ Suffix(s, i + 1) \in Seq(Characters)
    BY <1>2, SuffixIs
  <1>4. PICK e \in Characters, u \in Seq(Characters) : e = s[i] /\ u = Suffix(s, i + 1)
    BY <1>3
  <1>5. Cons(e, u) = Cons(c, v)
    BY <1>3, <1>4
  <1>6. e = c /\ u = v
    BY <1>5, ConsSame
  <1> QED BY <1>2, <1>4, <1>6

LEMMA OpensAhead ==
  ASSUME NEW s \in Seq(Characters), NEW i \in 1 .. Len(s) + 1, NEW v \in Seq(Characters),
         Suffix(s, i) = Cat(OpenTag, v)
  PROVE  /\ i \in 1 .. Len(s) /\ i + 1 \in 1 .. Len(s) /\ i + 2 \in 1 .. Len(s)
         /\ i + 3 \in 1 .. Len(s) + 1
         /\ s[i] = "<" /\ s[i + 1] = "b" /\ s[i + 2] = ">"
         /\ Suffix(s, i + 3) = v
  <1>1. PICK v2, v1 : v2 = Cons(">", v) /\ v1 = Cons("b", v2)
    OBVIOUS
  <1>2. v2 \in Seq(Characters) /\ v1 \in Seq(Characters)
    BY <1>1, ConsIs, CharactersAre
  <1>3. Suffix(s, i) = Cons("<", v1)
    BY <1>1, TagsAre
  <1>4. i \in 1 .. Len(s) /\ i + 1 \in 1 .. Len(s) + 1 /\ s[i] = "<" /\ Suffix(s, i + 1) = v1
    BY <1>2, <1>3, Ahead, CharactersAre
  <1>5. PICK j : j = i + 1
    OBVIOUS
  <1>6. j \in 1 .. Len(s) + 1 /\ Suffix(s, j) = Cons("b", v2)
    BY <1>1, <1>4, <1>5
  <1>7. j \in 1 .. Len(s) /\ j + 1 \in 1 .. Len(s) + 1 /\ s[j] = "b" /\ Suffix(s, j + 1) = v2
    BY <1>2, <1>6, Ahead, CharactersAre
  <1>8. PICK n : n = j + 1
    OBVIOUS
  <1>9. n \in 1 .. Len(s) + 1 /\ Suffix(s, n) = Cons(">", v)
    BY <1>1, <1>7, <1>8
  <1>10. n \in 1 .. Len(s) /\ n + 1 \in 1 .. Len(s) + 1 /\ s[n] = ">" /\ Suffix(s, n + 1) = v
    BY <1>9, Ahead, CharactersAre
  <1>11. n = i + 2 /\ n + 1 = i + 3
    BY <1>5, <1>8
  <1> QED BY <1>4, <1>5, <1>7, <1>10, <1>11

LEMMA ClosesAhead ==
  ASSUME NEW s \in Seq(Characters), NEW i \in 1 .. Len(s) + 1, NEW v \in Seq(Characters),
         Suffix(s, i) = Cat(CloseTag, v)
  PROVE  /\ i \in 1 .. Len(s) /\ i + 1 \in 1 .. Len(s) /\ i + 2 \in 1 .. Len(s)
         /\ i + 3 \in 1 .. Len(s) /\ i + 4 \in 1 .. Len(s) + 1
         /\ s[i] = "<" /\ s[i + 1] = "/" /\ s[i + 2] = "b" /\ s[i + 3] = ">"
         /\ Suffix(s, i + 4) = v
  <1>1. PICK v3, v2, v1 : v3 = Cons(">", v) /\ v2 = Cons("b", v3) /\ v1 = Cons("/", v2)
    OBVIOUS
  <1>2. v3 \in Seq(Characters) /\ v2 \in Seq(Characters) /\ v1 \in Seq(Characters)
    <2>1. v3 \in Seq(Characters)
      BY <1>1, ConsIs, CharactersAre
    <2>2. v2 \in Seq(Characters)
      BY <1>1, <2>1, ConsIs, CharactersAre
    <2> QED BY <1>1, <2>1, <2>2, ConsIs, CharactersAre
  <1>3. Suffix(s, i) = Cons("<", v1)
    BY <1>1, TagsAre
  <1>4. i \in 1 .. Len(s) /\ i + 1 \in 1 .. Len(s) + 1 /\ s[i] = "<" /\ Suffix(s, i + 1) = v1
    BY <1>2, <1>3, Ahead, CharactersAre
  <1>5. PICK j : j = i + 1
    OBVIOUS
  <1>6. j \in 1 .. Len(s) + 1 /\ Suffix(s, j) = Cons("/", v2)
    BY <1>1, <1>4, <1>5
  <1>7. j \in 1 .. Len(s) /\ j + 1 \in 1 .. Len(s) + 1 /\ s[j] = "/" /\ Suffix(s, j + 1) = v2
    BY <1>2, <1>6, Ahead, CharactersAre
  <1>8. PICK n : n = j + 1
    OBVIOUS
  <1>9. n \in 1 .. Len(s) + 1 /\ Suffix(s, n) = Cons("b", v3)
    BY <1>1, <1>7, <1>8
  <1>10. n \in 1 .. Len(s) /\ n + 1 \in 1 .. Len(s) + 1 /\ s[n] = "b" /\ Suffix(s, n + 1) = v3
    BY <1>2, <1>9, Ahead, CharactersAre
  <1>11. PICK m : m = n + 1
    OBVIOUS
  <1>12. m \in 1 .. Len(s) + 1 /\ Suffix(s, m) = Cons(">", v)
    BY <1>1, <1>10, <1>11
  <1>13. m \in 1 .. Len(s) /\ m + 1 \in 1 .. Len(s) + 1 /\ s[m] = ">" /\ Suffix(s, m + 1) = v
    BY <1>12, Ahead, CharactersAre
  <1>14. n = i + 2 /\ m = i + 3 /\ m + 1 = i + 4
    BY <1>5, <1>8, <1>11
  <1> QED BY <1>4, <1>5, <1>7, <1>10, <1>13, <1>14

LEMMA ThreeAre ==
  ASSUME NEW S, NEW w \in Seq(S), Len(w) = 3, NEW a, NEW b, NEW c
  PROVE  w = <<a, b, c>> <=> w[1] = a /\ w[2] = b /\ w[3] = c
  <1>1. w = [i \in 1 .. 3 |-> w[i]]
    OBVIOUS
  <1>2. w = <<w[1], w[2], w[3]>>
    BY <1>1
  <1> QED BY <1>2

LEMMA FourAre ==
  ASSUME NEW S, NEW w \in Seq(S), Len(w) = 4, NEW a, NEW b, NEW c, NEW d
  PROVE  w = <<a, b, c, d>> <=> w[1] = a /\ w[2] = b /\ w[3] = c /\ w[4] = d
  <1>1. w = [i \in 1 .. 4 |-> w[i]]
    OBVIOUS
  <1>2. w = <<w[1], w[2], w[3], w[4]>>
    BY <1>1
  <1> QED BY <1>2

\* Where IsAt finds a tag.
LEMMA TagFound ==
  ASSUME NEW s \in Seq(Characters), NEW i \in 1 .. Len(s)
  PROVE  /\ IsAt(s, OpenTag, i) <=> /\ i + 2 \in 1 .. Len(s)
                                    /\ s[i] = "<" /\ s[i + 1] = "b" /\ s[i + 2] = ">"
         /\ IsAt(s, CloseTag, i) <=> /\ i + 3 \in 1 .. Len(s)
                                     /\ s[i] = "<" /\ s[i + 1] = "/" /\ s[i + 2] = "b"
                                     /\ s[i + 3] = ">"
  <1>1. IsAt(s, OpenTag, i) <=> /\ i + 2 \in 1 .. Len(s)
                                /\ s[i] = "<" /\ s[i + 1] = "b" /\ s[i + 2] = ">"
    <2>1. i + 3 <= Len(s) + 1 <=> i + 2 \in 1 .. Len(s)
      OBVIOUS
    <2>2. ASSUME i + 2 \in 1 .. Len(s)
          PROVE  SubSeq(s, i, i + 3 - 1) = OpenTag
                 <=> s[i] = "<" /\ s[i + 1] = "b" /\ s[i + 2] = ">"
      <3>1. PICK w : w = SubSeq(s, i, i + 3 - 1)
        OBVIOUS
      <3>2. w \in Seq(Characters) /\ Len(w) = 3
            /\ w[1] = s[i] /\ w[2] = s[i + 1] /\ w[3] = s[i + 2]
        <4>1. w \in Seq(Characters) /\ Len(w) = 3
          BY <2>2, <3>1
        <4>2. w[1] = s[i] /\ w[2] = s[i + 1] /\ w[3] = s[i + 2]
          BY <2>2, <3>1
        <4> QED BY <4>1, <4>2
      <3>3. w = Three("<", "b", ">") <=> w[1] = "<" /\ w[2] = "b" /\ w[3] = ">"
        BY <3>2, ThreeAre DEF Three
      <3>4. Three("<", "b", ">") = OpenTag
        BY DEF Three, OpenTag
      <3> QED BY <3>1, <3>2, <3>3, <3>4
    <2> QED BY <2>1, <2>2, TagLengths DEF IsAt
  <1>2. IsAt(s, CloseTag, i) <=> /\ i + 3 \in 1 .. Len(s)
                                 /\ s[i] = "<" /\ s[i + 1] = "/" /\ s[i + 2] = "b"
                                 /\ s[i + 3] = ">"
    <2>1. i + 4 <= Len(s) + 1 <=> i + 3 \in 1 .. Len(s)
      OBVIOUS
    <2>2. ASSUME i + 3 \in 1 .. Len(s)
          PROVE  SubSeq(s, i, i + 4 - 1) = CloseTag
                 <=> s[i] = "<" /\ s[i + 1] = "/" /\ s[i + 2] = "b" /\ s[i + 3] = ">"
      <3>1. PICK w : w = SubSeq(s, i, i + 4 - 1)
        OBVIOUS
      <3>2. w \in Seq(Characters) /\ Len(w) = 4
            /\ w[1] = s[i] /\ w[2] = s[i + 1] /\ w[3] = s[i + 2] /\ w[4] = s[i + 3]
        <4>1. w \in Seq(Characters) /\ Len(w) = 4
          BY <2>2, <3>1
        <4>2. w[1] = s[i] /\ w[2] = s[i + 1] /\ w[3] = s[i + 2] /\ w[4] = s[i + 3]
          BY <2>2, <3>1
        <4> QED BY <4>1, <4>2
      <3>3. w = Four("<", "/", "b", ">")
            <=> w[1] = "<" /\ w[2] = "/" /\ w[3] = "b" /\ w[4] = ">"
        BY <3>2, FourAre DEF Four
      <3>4. Four("<", "/", "b", ">") = CloseTag
        BY DEF Four, CloseTag
      <3> QED BY <3>1, <3>2, <3>3, <3>4
    <2> QED BY <2>1, <2>2, TagLengths DEF IsAt
  <1> QED BY <1>1, <1>2

-----------------------------------------------------------------------------
(* What a browser shows of a marking                                       *)

Glyphs(t, k, b) == [j \in 1 .. Len(t) + 1 - k |-> Glyph(t[k + j - 1], k + j - 1 \in b)]

LEMMA GlyphsAre ==
  ASSUME NEW t \in Seq(TextCharacters), NEW b, NEW e, NEW k \in 1 .. Len(t),
         \A x \in k + 1 .. Len(t) : x \in b <=> x \in e
  PROVE  <<Glyph(t[k], k \in b)>> \o Glyphs(t, k + 1, e) = Glyphs(t, k, b)
  <1>1. PICK len \in Nat : len = Len(t)
    OBVIOUS
  <1>2. PICK G : G = {Glyph(t[x], x \in b) : x \in 1 .. len}
                     \cup {Glyph(t[x], x \in e) : x \in 1 .. len}
    OBVIOUS
  <1>3. PICK v, w : v = Glyphs(t, k + 1, e) /\ w = Glyphs(t, k, b)
    OBVIOUS
  <1>4. PICK n \in Nat : n = len - k
    <2>1. len - k \in Nat
      BY <1>1
    <2> QED BY <2>1
  <1>5. Len(t) + 1 - (k + 1) = n /\ Len(t) + 1 - k = n + 1
    BY <1>1, <1>4
  <1>6. v = [j \in 1 .. n |-> Glyph(t[(k + 1) + j - 1], (k + 1) + j - 1 \in e)]
    BY <1>3, <1>5 DEF Glyphs
  <1>7. w = [j \in 1 .. n + 1 |-> Glyph(t[k + j - 1], k + j - 1 \in b)]
    BY <1>3, <1>5 DEF Glyphs
  <1>8. v \in Seq(G) /\ Len(v) = n
    <2>1. \A j \in 1 .. n : (k + 1) + j - 1 \in 1 .. len
      BY <1>1, <1>4
    <2>2. \A j \in 1 .. n : Glyph(t[(k + 1) + j - 1], (k + 1) + j - 1 \in e) \in G
      BY <1>2, <2>1
    <2>3. v \in [1 .. n -> G]
      BY <1>6, <2>2
    <2> QED BY <2>3
  <1>9. w \in Seq(G) /\ Len(w) = n + 1
    <2>1. \A j \in 1 .. n + 1 : k + j - 1 \in 1 .. len
      BY <1>1, <1>4
    <2> QED BY <1>2, <1>7, <2>1
  <1>10. PICK g : g = Glyph(t[k], k \in b)
    OBVIOUS
  <1>11. g \in G
    BY <1>1, <1>2, <1>10
  <1>12. w[1] = g
    BY <1>1, <1>7, <1>10
  <1>13. \A j \in 1 .. n : w[j + 1] = v[j]
    <2> SUFFICES ASSUME NEW j \in 1 .. n PROVE w[j + 1] = v[j]
      OBVIOUS
    <2>1. PICK x : x = k + j
      OBVIOUS
    <2>2. /\ k + (j + 1) - 1 = x /\ (k + 1) + j - 1 = x
          /\ x \in k + 1 .. Len(t) /\ j + 1 \in 1 .. n + 1
      BY <1>1, <1>4, <2>1
    <2>3. w[j + 1] = Glyph(t[x], x \in b)
      BY <1>7, <2>2
    <2>4. v[j] = Glyph(t[x], x \in e)
      BY <1>6, <2>2
    <2>5. (x \in b) = (x \in e)
      BY <2>2
    <2> QED BY <2>3, <2>4, <2>5
  <1>14. <<g>> \o v = w
    <2>1. <<g>> \o v \in Seq(G) /\ Len(<<g>> \o v) = n + 1
      BY <1>8, <1>11
    <2>2. (<<g>> \o v)[1] = g /\ \A j \in 1 .. n : (<<g>> \o v)[j + 1] = v[j]
      BY <1>8, <1>11
    <2>3. PICK y : y = <<g>> \o v
      OBVIOUS
    <2>4. \A j \in 1 .. n + 1 : y[j] = w[j]
      <3> SUFFICES ASSUME NEW j \in 1 .. n + 1 PROVE y[j] = w[j]
        OBVIOUS
      <3>1. CASE j = 1
        BY <1>12, <2>2, <2>3, <3>1
      <3>2. CASE j # 1
        <4>1. PICK m \in 1 .. n : j = m + 1
          <5>1. j - 1 \in 1 .. n /\ j = (j - 1) + 1
            BY <3>2
          <5> QED BY <5>1
        <4> QED BY <1>13, <2>2, <2>3, <4>1
      <3> QED BY <3>1, <3>2
    <2> QED BY <1>9, <2>1, <2>3, <2>4
  <1> QED BY <1>3, <1>10, <1>14

LEMMA NoGlyphs ==
  ASSUME NEW t \in Seq(TextCharacters), NEW b
  PROVE  Glyphs(t, Len(t) + 1, b) = <<>>
  <1>1. PICK len \in Nat : len = Len(t)
    OBVIOUS
  <1>2. 1 .. Len(t) + 1 - (Len(t) + 1) = {}
    BY <1>1
  <1> QED BY <1>2 DEF Glyphs

\* A browser shows the text, and in bold the characters in b.
LEMMA ShowsMarking ==
  ASSUME NEW t \in Seq(TextCharacters), NEW O, NEW C, NEW s \in Seq(Characters),
         NEW i \in 1 .. Len(s) + 1, NEW k, NEW d, NEW b,
         <<Suffix(s, i), k, d, b>> \in Marked(t, O, C)
  PROVE  Showing(s)[<<i, d>>] = Glyphs(t, k, b)
  <1> DEFINE K == Marked(t, O, C)
             P == {j \in 1 .. Len(s) + 1 : \A k1, d1, b1 :
                     <<Suffix(s, j), k1, d1, b1>> \in K
                     => Showing(s)[<<j, d1>>] = Glyphs(t, k1, b1)}
  <1>0. PICK n \in Nat : n = Len(s) + 1
    BY SuffixIs
  <1>1. ASSUME NEW j \in 1 .. n, \A j1 \in 1 .. n : j < j1 => j1 \in P
        PROVE  j \in P
    <2> SUFFICES ASSUME NEW k1, NEW d1, NEW b1, <<Suffix(s, j), k1, d1, b1>> \in K
                 PROVE  Showing(s)[<<j, d1>>] = Glyphs(t, k1, b1)
      BY <1>0
    <2>0. /\ j \in 1 .. Len(s) + 1 /\ Len(s) \in Nat /\ Len(t) \in Nat
          /\ k1 \in 1 .. Len(t) + 1 /\ d1 \in Nat /\ b1 \in SUBSET (1 .. Len(t))
      BY <1>0, SuffixIs, MarkedIs, TextIs
    <2>1. Showing(s)[<<j, d1>>] = Seen(Showing(s), s, <<j, d1>>)
      BY <2>0, ShowingIs
    <2>2. Came(t, O, C, Suffix(s, j), k1, d1, b1) /\ b1 \subseteq k1 .. Len(t)
      BY MarkedCame
    <2>3. \A j1 \in 1 .. Len(s) + 1 : \A k2, d2, b2 :
            j < j1 /\ <<Suffix(s, j1), k2, d2, b2>> \in K
            => Showing(s)[<<j1, d2>>] = Glyphs(t, k2, b2)
      BY <1>0, <1>1
    <2>4. CASE Done(t, Suffix(s, j), k1, d1, b1)
      <3>1. Suffix(s, j) = <<>> /\ k1 = Len(t) + 1
        BY <2>4 DEF Done
      <3>2. j > Len(s)
        <4>1. SUFFICES ASSUME j \in 1 .. Len(s) PROVE FALSE
          BY <2>0
        <4>2. /\ s[j] \in Characters /\ j + 1 \in 1 .. Len(s) + 1
              /\ Suffix(s, j) = Cons(s[j], Suffix(s, j + 1))
          BY <2>0, <4>1, SuffixIs
        <4>3. Suffix(s, j + 1) \in Seq(Characters)
          BY <4>2, SuffixIs
        <4> QED BY <3>1, <4>2, <4>3, ConsIs
      <3>3. Seen(Showing(s), s, <<j, d1>>) = <<>>
        BY <3>2 DEF Seen
      <3> QED BY <2>1, <3>1, <3>3, NoGlyphs
    <2>5. CASE CharacterFirst(t, O, C, Suffix(s, j), k1, d1, b1)
      <3>1. k1 \in 1 .. Len(t)
        BY <2>5 DEF CharacterFirst
      <3>2. PICK v \in Seq(Characters), e \in SUBSET (1 .. Len(t)) :
              /\ <<v, k1 + 1, d1, e>> \in K
              /\ Suffix(s, j) = Cons(t[k1], v) /\ b1 = IF d1 > 0 THEN e \cup {k1} ELSE e
        BY <2>5 DEF CharacterFirst
      <3>3. t[k1] \in TextCharacters /\ t[k1] \in Characters /\ t[k1] # "<"
        BY <3>1 DEF TextCharacters
      <3>4. j \in 1 .. Len(s) /\ j + 1 \in 1 .. Len(s) + 1 /\ s[j] = t[k1] /\ Suffix(s, j + 1) = v
        BY <2>0, <3>2, <3>3, Ahead, SMTT(30)
      <3>5. ~IsAt(s, OpenTag, j) /\ ~IsAt(s, CloseTag, j)
        BY <3>3, <3>4, TagFound
      <3>6. Showing(s)[<<j + 1, d1>>] = Glyphs(t, k1 + 1, e)
        BY <2>0, <2>3, <3>2, <3>4, SMTT(30)
      <3>7. Seen(Showing(s), s, <<j, d1>>) = <<Glyph(t[k1], d1 > 0)>> \o Glyphs(t, k1 + 1, e)
        <4>1. PICK f : f = Showing(s)
          OBVIOUS
        <4>2. Seen(f, s, <<j, d1>>) = <<Glyph(s[j], d1 > 0)>> \o f[<<j + 1, d1>>]
          <5>1. PICK x : x = <<j, d1>> /\ x[1] = j /\ x[2] = d1
            <6>1. <<j, d1>>[1] = j /\ <<j, d1>>[2] = d1
              OBVIOUS
            <6> QED BY <6>1
          <5>2. ~(j > Len(s))
            BY <2>0, <3>4
          <5>3. Seen(f, s, x) = <<Glyph(s[x[1]], x[2] > 0)>> \o f[<<x[1] + 1, x[2]>>]
            BY <3>5, <5>1, <5>2, Zenon DEF Seen
          <5> QED BY <5>1, <5>3
        <4> QED BY <3>4, <3>6, <4>1, <4>2
      <3>8. e \subseteq k1 + 1 .. Len(t)
        BY <3>2, MarkedCame
      <3>9. (k1 \in b1) = (d1 > 0) /\ \A x \in k1 + 1 .. Len(t) : x \in b1 <=> x \in e
        BY <2>0, <3>1, <3>2, <3>8, SMTT(30)
      <3>10. <<Glyph(t[k1], k1 \in b1)>> \o Glyphs(t, k1 + 1, e) = Glyphs(t, k1, b1)
        BY <3>1, <3>9, GlyphsAre
      <3> QED BY <2>1, <3>7, <3>9, <3>10
    <2>6. CASE OpenFirst(t, O, C, Suffix(s, j), k1, d1, b1)
      <3>1. PICK v \in Seq(Characters) :
              <<v, k1, d1 + 1, b1>> \in K /\ Suffix(s, j) = Cat(OpenTag, v)
        BY <2>6 DEF OpenFirst
      <3>2. /\ j \in 1 .. Len(s) /\ j + 2 \in 1 .. Len(s) /\ j + 3 \in 1 .. Len(s) + 1
            /\ s[j] = "<" /\ s[j + 1] = "b" /\ s[j + 2] = ">" /\ Suffix(s, j + 3) = v
        BY <2>0, <3>1, OpensAhead
      <3>3. IsAt(s, OpenTag, j)
        BY <3>2, TagFound
      <3>4. Showing(s)[<<j + 3, d1 + 1>>] = Glyphs(t, k1, b1)
        BY <2>0, <2>3, <3>1, <3>2, SMTT(30)
      <3>5. Seen(Showing(s), s, <<j, d1>>) = Showing(s)[<<j + 3, d1 + 1>>]
        BY <2>0, <3>2, <3>3, TagLengths DEF Seen
      <3> QED BY <2>1, <3>4, <3>5
    <2>7. CASE CloseFirst(t, O, C, Suffix(s, j), k1, d1, b1)
      <3>1. PICK v \in Seq(Characters) :
              d1 > 0 /\ <<v, k1, d1 - 1, b1>> \in K /\ Suffix(s, j) = Cat(CloseTag, v)
        BY <2>7 DEF CloseFirst
      <3>2. /\ j \in 1 .. Len(s) /\ j + 3 \in 1 .. Len(s) /\ j + 4 \in 1 .. Len(s) + 1
            /\ s[j] = "<" /\ s[j + 1] = "/" /\ s[j + 2] = "b" /\ s[j + 3] = ">"
            /\ Suffix(s, j + 4) = v
        BY <2>0, <3>1, ClosesAhead
      <3>3. IsAt(s, CloseTag, j) /\ ~IsAt(s, OpenTag, j)
        BY <3>2, TagFound
      <3>4. Showing(s)[<<j + 4, d1 - 1>>] = Glyphs(t, k1, b1)
        <4>1. PICK d2 : d2 = d1 - 1
          OBVIOUS
        <4>2. j < j + 4
          BY <2>0
        <4>3. <<Suffix(s, j + 4), k1, d2, b1>> \in K
          BY <3>1, <3>2, <4>1
        <4> QED BY <2>3, <3>2, <4>1, <4>2, <4>3
      <3>5. Seen(Showing(s), s, <<j, d1>>) = Showing(s)[<<j + 4, d1 - 1>>]
        <4>1. PICK f : f = Showing(s)
          OBVIOUS
        <4>2. Seen(f, s, <<j, d1>>) = f[<<j + 4, IF d1 = 0 THEN 0 ELSE d1 - 1>>]
          BY <2>0, <3>2, <3>3, TagLengths DEF Seen
        <4>3. d1 # 0
          BY <2>0, <3>1
        <4> QED BY <4>1, <4>2, <4>3
      <3> QED BY <2>1, <3>4, <3>5
    <2> QED BY <2>2, <2>4, <2>5, <2>6, <2>7 DEF Came
  <1> HIDE DEF P
  <1>2. 1 .. n \subseteq P
    BY <1>1, Downward
  <1>3. i \in P
    BY <1>0, <1>2
  <1> QED BY <1>3 DEF P

LEMMA MarkingShown ==
  ASSUME NEW t \in Seq(TextCharacters), NEW O, NEW C, NEW s, NEW b,
         <<s, 1, 0, b>> \in Marked(t, O, C)
  PROVE  /\ DOMAIN Shown(s) = 1 .. Len(t)
         /\ \A k \in 1 .. Len(t) : Shown(s)[k] = Glyph(t[k], k \in b)
  <1>1. s \in Seq(Characters)
    BY MarkedIs
  <1>2. Suffix(s, 1) = s /\ 1 \in 1 .. Len(s) + 1
    BY <1>1, SuffixIs
  <1>3. Showing(s)[<<1, 0>>] = Glyphs(t, 1, b)
    BY <1>1, <1>2, ShowsMarking
  <1>4. Shown(s) = Glyphs(t, 1, b)
    BY <1>1, <1>3, ShowingIs
  <1>5. Glyphs(t, 1, b) = [j \in 1 .. Len(t) |-> Glyph(t[j], j \in b)]
    <2>1. Len(t) \in Nat
      BY TextIs
    <2>2. Len(t) + 1 - 1 = Len(t) /\ \A j \in 1 .. Len(t) : 1 + j - 1 = j
      BY <2>1
    <2> QED BY <2>2 DEF Glyphs
  <1> QED BY <1>4, <1>5

-----------------------------------------------------------------------------
(* Runs of characters without a tag                                        *)

\* At i the marking goes on with the character k of the text.
Letter(s, i, t, k, O, C) ==
  \/ i <= Len(s) /\ s[i] # "<"
  \/ k <= Len(t) /\ k \notin O /\ k \notin C

Bold(d, k, l) == IF d > 0 THEN k .. k + l - 1 ELSE {}

\* After l characters the marking is one of the text from k + l on.
Onward(s, i, t, k, d, b, l, O, C) ==
  \E e : <<Suffix(s, i + l), k + l, d, e>> \in Marked(t, O, C) /\ b = e \cup Bold(d, k, l)

LEMMA LetterFirst ==
  ASSUME NEW t \in Seq(TextCharacters), NEW O, NEW C, NEW s \in Seq(Characters),
         NEW i \in 1 .. Len(s) + 1, NEW k, NEW d, NEW b,
         <<Suffix(s, i), k, d, b>> \in Marked(t, O, C), Letter(s, i, t, k, O, C)
  PROVE  /\ i \in 1 .. Len(s) /\ k \in 1 .. Len(t) /\ s[i] = t[k]
         /\ Onward(s, i, t, k, d, b, 1, O, C)
  <1>0. /\ Len(s) \in Nat /\ Len(t) \in Nat
        /\ k \in 1 .. Len(t) + 1 /\ d \in Nat /\ b \in SUBSET (1 .. Len(t))
    BY SuffixIs, MarkedIs, TextIs
  <1>1. Came(t, O, C, Suffix(s, i), k, d, b)
    BY MarkedCame
  <1>2. CASE Done(t, Suffix(s, i), k, d, b)
    <2>1. Suffix(s, i) = <<>> /\ k = Len(t) + 1
      BY <1>2 DEF Done
    <2>2. i <= Len(s)
      BY <1>0, <2>1 DEF Letter
    <2>3. i \in 1 .. Len(s) /\ i + 1 \in 1 .. Len(s) + 1
      BY <1>0, <2>2
    <2>4. /\ s[i] \in Characters /\ Suffix(s, i) = Cons(s[i], Suffix(s, i + 1))
          /\ Suffix(s, i + 1) \in Seq(Characters)
      BY <2>3, SuffixIs
    <2> QED BY <2>1, <2>4, ConsIs
  <1>3. CASE CharacterFirst(t, O, C, Suffix(s, i), k, d, b)
    <2>1. k \in 1 .. Len(t)
      BY <1>3 DEF CharacterFirst
    <2>2. PICK v \in Seq(Characters), e \in SUBSET (1 .. Len(t)) :
            /\ <<v, k + 1, d, e>> \in Marked(t, O, C)
            /\ Suffix(s, i) = Cons(t[k], v) /\ b = IF d > 0 THEN e \cup {k} ELSE e
      BY <1>3 DEF CharacterFirst
    <2>3. t[k] \in Characters
      BY <2>1 DEF TextCharacters
    <2>4. i \in 1 .. Len(s) /\ s[i] = t[k] /\ Suffix(s, i + 1) = v
      BY <2>2, <2>3, Ahead
    <2>5. b = e \cup Bold(d, k, 1)
      <3>1. k .. k + 1 - 1 = {k}
        BY <1>0
      <3> QED BY <2>2, <3>1 DEF Bold
    <2>6. Onward(s, i, t, k, d, b, 1, O, C)
      BY <2>2, <2>4, <2>5 DEF Onward
    <2> QED BY <2>1, <2>4, <2>6
  <1>4. CASE OpenFirst(t, O, C, Suffix(s, i), k, d, b)
    <2>1. PICK v \in Seq(Characters) : k \in O /\ Suffix(s, i) = Cat(OpenTag, v)
      BY <1>4 DEF OpenFirst
    <2>2. i \in 1 .. Len(s) /\ s[i] = "<"
      BY <2>1, OpensAhead
    <2> QED BY <2>1, <2>2 DEF Letter
  <1>5. CASE CloseFirst(t, O, C, Suffix(s, i), k, d, b)
    <2>1. PICK v \in Seq(Characters) : k \in C /\ Suffix(s, i) = Cat(CloseTag, v)
      BY <1>5 DEF CloseFirst
    <2>2. i \in 1 .. Len(s) /\ s[i] = "<"
      BY <2>1, ClosesAhead
    <2> QED BY <2>1, <2>2 DEF Letter
  <1> QED BY <1>1, <1>2, <1>3, <1>4, <1>5 DEF Came

LEMMA Run ==
  ASSUME NEW t \in Seq(TextCharacters), NEW O, NEW C, NEW s \in Seq(Characters),
         NEW i \in 1 .. Len(s) + 1, NEW k, NEW d, NEW b,
         <<Suffix(s, i), k, d, b>> \in Marked(t, O, C), NEW l \in Nat,
         \A j \in 0 .. l - 1 : Letter(s, i + j, t, k + j, O, C)
  PROVE  /\ i + l <= Len(s) + 1 /\ k + l <= Len(t) + 1
         /\ \A j \in 0 .. l - 1 : s[i + j] = t[k + j]
         /\ Onward(s, i, t, k, d, b, l, O, C)
  <1> DEFINE K == Marked(t, O, C)
             P(m) == /\ i + m <= Len(s) + 1 /\ k + m <= Len(t) + 1
                     /\ \A j \in 0 .. m - 1 : s[i + j] = t[k + j]
                     /\ \E e : <<Suffix(s, i + m), k + m, d, e>> \in K
                               /\ b = e \cup Bold(d, k, m)
             S == {m \in Nat : m <= l => P(m)}
  <1>0. /\ Len(s) \in Nat /\ Len(t) \in Nat
        /\ k \in 1 .. Len(t) + 1 /\ d \in Nat /\ b \in SUBSET (1 .. Len(t))
    BY SuffixIs, MarkedIs, TextIs
  <1>1. P(0)
    <2>1. i + 0 = i /\ k + 0 = k /\ Bold(d, k, 0) = {} /\ 0 .. 0 - 1 = {}
      BY <1>0 DEF Bold
    <2>2. \E e : <<Suffix(s, i + 0), k + 0, d, e>> \in K /\ b = e \cup Bold(d, k, 0)
      <3>1. b = b \cup Bold(d, k, 0)
        BY <2>1
      <3> QED BY <2>1, <3>1
    <2>3. i + 0 <= Len(s) + 1 /\ k + 0 <= Len(t) + 1
      BY <1>0
    <2>4. \A j \in 0 .. 0 - 1 : s[i + j] = t[k + j]
      BY <2>1
    <2> HIDE DEF K
    <2> QED BY <2>2, <2>3, <2>4
  <1>2. ASSUME NEW m \in Nat, m + 1 <= l, P(m) PROVE P(m + 1)
    <2>1. P(m) /\ m \in 0 .. l - 1
      <3>1. m \in 0 .. l - 1
        BY <1>2
      <3> HIDE DEF P
      <3> QED BY <1>2, <3>1
    <2>2. PICK e : <<Suffix(s, i + m), k + m, d, e>> \in K /\ b = e \cup Bold(d, k, m)
      BY <2>1
    <2>3. PICK i2, k2 : i2 = i + m /\ k2 = k + m
      OBVIOUS
    <2>4. i2 \in 1 .. Len(s) + 1 /\ Letter(s, i2, t, k2, O, C)
      BY <1>0, <2>1, <2>3, SMTT(30)
    <2>5. <<Suffix(s, i2), k2, d, e>> \in K
      BY <2>2, <2>3
    <2>6. i2 \in 1 .. Len(s) /\ k2 \in 1 .. Len(t) /\ s[i2] = t[k2]
      BY <2>4, <2>5, LetterFirst
    <2>7. PICK f : <<Suffix(s, i2 + 1), k2 + 1, d, f>> \in K /\ e = f \cup Bold(d, k2, 1)
      <3>1. <<Suffix(s, i2), k2, d, e>> \in Marked(t, O, C)
        BY <2>5
      <3>2. \E f : <<Suffix(s, i2 + 1), k2 + 1, d, f>> \in Marked(t, O, C)
                  /\ e = f \cup Bold(d, k2, 1)
        <4>1. Onward(s, i2, t, k2, d, e, 1, O, C)
          BY <2>4, <3>1, LetterFirst
        <4> QED BY <4>1 DEF Onward
      <3> QED BY <3>2
    <2>8. i2 + 1 = i + (m + 1) /\ k2 + 1 = k + (m + 1)
      BY <1>0, <2>3
    <2>9. i + (m + 1) <= Len(s) + 1 /\ k + (m + 1) <= Len(t) + 1
      BY <1>0, <2>6, <2>8, SMTT(30)
    <2>10. \A j \in 0 .. (m + 1) - 1 : s[i + j] = t[k + j]
      <3> SUFFICES ASSUME NEW j \in 0 .. (m + 1) - 1 PROVE s[i + j] = t[k + j]
        OBVIOUS
      <3>1. j \in 0 .. m - 1 \/ j = m
        OBVIOUS
      <3>2. \A j1 \in 0 .. m - 1 : s[i + j1] = t[k + j1]
        BY <2>1
      <3> QED BY <2>3, <2>6, <3>1, <3>2
    <2>11. b = f \cup Bold(d, k, m + 1)
      <3>1. Bold(d, k, m + 1) = Bold(d, k, m) \cup Bold(d, k2, 1)
        <4>1. k .. k + (m + 1) - 1 = (k .. k + m - 1) \cup (k2 .. k2 + 1 - 1)
          <5>1. k \in Nat /\ k2 = k + m
            BY <1>0, <2>3
          <5> QED BY <5>1
        <4> QED BY <4>1 DEF Bold
      <3> QED BY <2>2, <2>7, <3>1
    <2>12. \E g : <<Suffix(s, i + (m + 1)), k + (m + 1), d, g>> \in K /\ b = g \cup Bold(d, k, m + 1)
      BY <2>7, <2>8, <2>11
    <2> HIDE DEF K
    <2> QED BY <2>9, <2>10, <2>12
  <1>3. P(l)
    <2> HIDE DEF P
    <2>1. 0 \in S
      BY <1>1
    <2>2. ASSUME NEW m \in Nat, m \in S PROVE m + 1 \in S
      BY <1>2, <2>2
    <2>3. l \in S
      <3> HIDE DEF S
      <3> QED BY <2>1, <2>2, Upward
    <2> QED BY <2>3
  <1> QED BY <1>3 DEF Onward

\* The characters of the text may be written before a marking.
LEMMA Prepend ==
  ASSUME NEW t \in Seq(TextCharacters), NEW O, NEW C, NEW h \in Seq(Characters),
         NEW v \in Seq(Characters), NEW k \in 1 .. Len(t) + 1, NEW d, NEW e,
         k + Len(h) <= Len(t) + 1,
         <<v, k + Len(h), d, e>> \in Marked(t, O, C),
         \A j \in 1 .. Len(h) : h[j] = t[k + j - 1]
  PROVE  <<Cat(h, v), k, d, e \cup Bold(d, k, Len(h))>> \in Marked(t, O, C)
  <1>0. PICK n : n = Len(h)
    OBVIOUS
  <1> DEFINE K == Marked(t, O, C)
             P(j) == <<Cat(Suffix(h, j), v), k + j - 1, d, e \cup Bold(d, k + j - 1, n + 1 - j)>> \in K
             S == {j \in 1 .. n + 1 : P(j)}
  <1>1. /\ n \in Nat /\ Len(t) \in Nat /\ d \in Nat /\ e \in SUBSET (1 .. Len(t))
        /\ k + n <= Len(t) + 1
    BY <1>0, MarkedIs, TextIs
  <1>2. Closed(K, t, O, C)
    BY MarkedClosed
  <1>3. ASSUME NEW j \in 1 .. n + 1, \A j1 \in 1 .. n + 1 : j < j1 => j1 \in S
        PROVE  j \in S
    <2>1. CASE j = n + 1
      <3>1. Suffix(h, j) = <<>> /\ Cat(Suffix(h, j), v) = v
        <4>1. Suffix(h, j) = <<>>
          BY <1>0, <2>1, SuffixIs
        <4>2. Cat(<<>>, v) = v
          BY DEF Cat
        <4> QED BY <4>1, <4>2
      <3>2. k + j - 1 = k + n /\ Bold(d, k + j - 1, n + 1 - j) = {}
        BY <1>1, <2>1 DEF Bold
      <3>3. e \cup Bold(d, k + j - 1, n + 1 - j) = e
        BY <3>2
      <3>4. <<v, k + n, d, e>> \in K
        BY <1>0
      <3> QED BY <3>1, <3>2, <3>3, <3>4
    <2>2. CASE j # n + 1
      <3>1. j \in 1 .. Len(h) /\ j + 1 \in 1 .. n + 1 /\ j + 1 \in 1 .. Len(h) + 1
        BY <1>0, <1>1, <2>2
      <3>2. j + 1 \in S
        BY <1>1, <1>3, <3>1
      <3>3. PICK i, f, u : /\ i = k + j /\ u = Cat(Suffix(h, j + 1), v)
                           /\ f = e \cup Bold(d, k + (j + 1) - 1, n + 1 - (j + 1))
        OBVIOUS
      <3>4. /\ k + (j + 1) - 1 = i /\ i - 1 = k + j - 1 /\ i > 1 /\ i \in 1 .. Len(t) + 1
            /\ n + 1 - (j + 1) = n - j
        <4>1. k \in Nat /\ j \in Nat /\ k >= 1 /\ j >= 1 /\ j <= n /\ i = k + j
          BY <1>1, <3>1, <3>3
        <4>2. i \in Nat /\ i <= Len(t) + 1 /\ i > 1
          BY <1>1, <4>1
        <4> QED BY <1>1, <4>1, <4>2
      <3>5. <<u, i, d, f>> \in K
        BY <3>2, <3>3, <3>4
      <3>6. u \in Seq(Characters) /\ f \in SUBSET (1 .. Len(t))
        BY <3>5, MarkedIs
      <3>7. <<Cons(t[i - 1], u), i - 1, d, IF d > 0 THEN f \cup {i - 1} ELSE f>> \in K
        BY <1>1, <1>2, <3>4, <3>5, <3>6 DEF Closed, Grows
      <3>8. t[i - 1] = h[j]
        BY <3>1, <3>4
      <3>9. Cat(Suffix(h, j), v) = Cons(h[j], u)
        <4>1. /\ Suffix(h, j) = Cons(h[j], Suffix(h, j + 1)) /\ h[j] \in Characters
              /\ Suffix(h, j + 1) \in Seq(Characters)
          BY <3>1, SuffixIs, SMTT(30)
        <4> QED BY <3>3, <4>1, ConsCat
      <3>10. (IF d > 0 THEN f \cup {i - 1} ELSE f) = e \cup Bold(d, k + j - 1, n + 1 - j)
        BY <1>1, <3>1, <3>3, <3>4, SMTT(30) DEF Bold
      <3> QED BY <3>4, <3>7, <3>8, <3>9, <3>10
    <2> QED BY <2>1, <2>2
  <1>4. 1 \in S
    <2>1. 1 .. n + 1 \subseteq S
      <3> HIDE DEF S
      <3>1. n + 1 \in Nat
        BY <1>1
      <3> QED BY <1>3, <3>1, Downward
    <2> QED BY <1>1, <2>1
  <1>5. Suffix(h, 1) = h /\ k + 1 - 1 = k /\ n + 1 - 1 = n
    BY <1>1, SuffixIs
  <1> QED BY <1>0, <1>4, <1>5

-----------------------------------------------------------------------------
(* One highlight applied to a marking                                      *)

Matches(t, h) == {k \in DOMAIN t : MatchAt(t, h, k)}
MatchEnds(t, h) == {k + Len(h) : k \in Matches(t, h)}
Inside(t, h) == UNION {k .. k + Len(h) - 1 : k \in Matches(t, h)}

PlainIn(t, h) ==
  /\ h \in Seq(Characters) /\ Len(h) \in Nat \ {0}
  /\ \A j \in 1 .. Len(h) : h[j] \notin {"<", "/", "b", ">"}
  /\ \A k \in Matches(t, h) : \A j \in 1 .. Len(h) : h[j] = t[k + j - 1]

\* No tag, and no other match of h, begins or ends within a match of h.
AloneIn(t, h, O, C) ==
  \A k \in Matches(t, h) : \A x \in k + 1 .. k + Len(h) - 1 :
    x \notin O /\ x \notin C /\ x \notin Matches(t, h)

LEMMA LowerIs ==
  ASSUME NEW c, NEW e, Lower(c) = Lower(e), e \notin {"<", "/", "b", ">"}
  PROVE  c \notin {"<", "/", "b", ">"}
  BY DEF Lower

LEMMA NoMatchInTags ==
  ASSUME NEW t, NEW h, PlainIn(t, h), NEW s, NEW i \in Int, s[i] \in {"<", "/", "b", ">"}
  PROVE  ~MatchAt(s, h, i)
  <1> SUFFICES ASSUME MatchAt(s, h, i) PROVE FALSE
    OBVIOUS
  <1>1. 1 \in 1 .. Len(h) /\ 1 \in DOMAIN h /\ i + 1 - 1 = i
    BY DEF PlainIn
  <1>2. Lower(s[i + 1 - 1]) = Lower(h[1])
    BY <1>1 DEF MatchAt
  <1>3. h[1] \notin {"<", "/", "b", ">"}
    BY <1>1 DEF PlainIn
  <1> QED BY <1>1, <1>2, <1>3, LowerIs

\* A match in the marking is a match in the text.
LEMMA MatchRuns ==
  ASSUME NEW t \in Seq(TextCharacters), NEW O, NEW C, NEW s \in Seq(Characters),
         NEW i \in 1 .. Len(s) + 1, NEW k, NEW d, NEW b, NEW h, PlainIn(t, h),
         <<Suffix(s, i), k, d, b>> \in Marked(t, O, C), MatchAt(s, h, i)
  PROVE  /\ i + Len(h) \in 1 .. Len(s) + 1
         /\ k \in Matches(t, h) /\ k + Len(h) <= Len(t) + 1
         /\ Onward(s, i, t, k, d, b, Len(h), O, C)
  <1>1. /\ Len(s) \in Nat /\ Len(t) \in Nat /\ Len(h) \in Nat \ {0} /\ k \in 1 .. Len(t) + 1
        /\ h \in Seq(Characters) /\ DOMAIN h = 1 .. Len(h) /\ DOMAIN t = 1 .. Len(t)
    BY SuffixIs, MarkedIs, TextIs, SMTT(30) DEF PlainIn
  <1>2. PICK l \in Nat \ {0} : l = Len(h)
    BY <1>1
  <1>3. i + l <= Len(s) + 1
    BY <1>2 DEF MatchAt
  <1>4. \A j \in 0 .. l - 1 : /\ j + 1 \in 1 .. l /\ i + (j + 1) - 1 = i + j /\ k + (j + 1) - 1 = k + j
                              /\ i + j <= Len(s)
    BY <1>1, <1>3
  <1>5. \A j \in 0 .. l - 1 : Lower(s[i + j]) = Lower(h[j + 1])
    <2> SUFFICES ASSUME NEW j \in 0 .. l - 1 PROVE Lower(s[i + j]) = Lower(h[j + 1])
      OBVIOUS
    <2>1. j + 1 \in DOMAIN h /\ i + (j + 1) - 1 = i + j
      BY <1>1, <1>2, <1>4
    <2>2. Lower(s[i + (j + 1) - 1]) = Lower(h[j + 1])
      BY <2>1 DEF MatchAt
    <2> QED BY <2>1, <2>2
  <1>6. \A j \in 0 .. l - 1 : Letter(s, i + j, t, k + j, O, C)
    <2> SUFFICES ASSUME NEW j \in 0 .. l - 1 PROVE Letter(s, i + j, t, k + j, O, C)
      OBVIOUS
    <2>1. h[j + 1] \notin {"<", "/", "b", ">"}
      BY <1>2, <1>4 DEF PlainIn
    <2>2. s[i + j] \notin {"<", "/", "b", ">"}
      BY <1>5, <2>1, LowerIs
    <2> QED BY <1>4, <2>2 DEF Letter
  <1>7. /\ i + l <= Len(s) + 1 /\ k + l <= Len(t) + 1
        /\ \A j \in 0 .. l - 1 : s[i + j] = t[k + j]
        /\ Onward(s, i, t, k, d, b, l, O, C)
    BY <1>6, Run
  <1>8. k \in DOMAIN t
    BY <1>1, <1>7
  <1>9. \A m \in DOMAIN h : Lower(t[k + m - 1]) = Lower(h[m])
    <2> SUFFICES ASSUME NEW m \in 1 .. l PROVE Lower(t[k + m - 1]) = Lower(h[m])
      BY <1>1, <1>2
    <2>1. PICK j \in 0 .. l - 1 : m = j + 1
      <3>1. m - 1 \in 0 .. l - 1 /\ m = (m - 1) + 1
        OBVIOUS
      <3> QED BY <3>1
    <2>2. k + m - 1 = k + j
      BY <1>1, <2>1
    <2> QED BY <1>5, <1>7, <2>1, <2>2
  <1>10. MatchAt(t, h, k)
    BY <1>2, <1>7, <1>9 DEF MatchAt
  <1>11. i + Len(h) \in 1 .. Len(s) + 1
    BY <1>1, <1>2, <1>3
  <1> QED BY <1>2, <1>7, <1>8, <1>10, <1>11 DEF Matches

\* Where a highlight is alone, a match in the text is a match in the marking.
LEMMA MatchStays ==
  ASSUME NEW t \in Seq(TextCharacters), NEW O, NEW C, NEW s \in Seq(Characters),
         NEW i \in 1 .. Len(s) + 1, i <= Len(s), NEW k, NEW d, NEW b, NEW h,
         PlainIn(t, h), AloneIn(t, h, O, C),
         <<Suffix(s, i), k, d, b>> \in Marked(t, O, C), s[i] # "<", k \in Matches(t, h)
  PROVE  MatchAt(s, h, i)
  <1>1. /\ Len(s) \in Nat /\ Len(t) \in Nat /\ Len(h) \in Nat \ {0} /\ k \in 1 .. Len(t)
        /\ h \in Seq(Characters) /\ DOMAIN h = 1 .. Len(h) /\ DOMAIN t = 1 .. Len(t)
    <2>1. Len(s) \in Nat /\ Len(t) \in Nat /\ DOMAIN t = 1 .. Len(t)
      BY SuffixIs, TextIs
    <2>2. Len(h) \in Nat \ {0} /\ h \in Seq(Characters) /\ DOMAIN h = 1 .. Len(h)
      BY DEF PlainIn
    <2>3. k \in 1 .. Len(t)
      BY <2>1, SMTT(30) DEF Matches
    <2> QED BY <2>1, <2>2, <2>3
  <1>2. PICK l \in Nat \ {0} : l = Len(h)
    BY <1>1
  <1>3. k + l <= Len(t) + 1
    BY <1>2 DEF Matches, MatchAt
  <1>4. \A j \in 0 .. l - 1 : Letter(s, i + j, t, k + j, O, C)
    <2> SUFFICES ASSUME NEW j \in 0 .. l - 1 PROVE Letter(s, i + j, t, k + j, O, C)
      OBVIOUS
    <2>1. CASE j = 0
      BY <1>1, <2>1 DEF Letter
    <2>2. CASE j # 0
      <3>1. k + j \in k + 1 .. k + Len(h) - 1 /\ k + j <= Len(t)
        BY <1>1, <1>2, <1>3, <2>2
      <3> QED BY <3>1 DEF AloneIn, Letter
    <2> QED BY <2>1, <2>2
  <1>5. /\ i + l <= Len(s) + 1 /\ k + l <= Len(t) + 1
        /\ \A j \in 0 .. l - 1 : s[i + j] = t[k + j]
        /\ Onward(s, i, t, k, d, b, l, O, C)
    BY <1>4, Run
  <1>6. \A m \in DOMAIN h : Lower(s[i + m - 1]) = Lower(h[m])
    <2> SUFFICES ASSUME NEW m \in 1 .. l PROVE Lower(s[i + m - 1]) = Lower(h[m])
      BY <1>1, <1>2
    <2>1. PICK j \in 0 .. l - 1 : m = j + 1
      <3>1. m - 1 \in 0 .. l - 1 /\ m = (m - 1) + 1
        OBVIOUS
      <3> QED BY <3>1
    <2>2. k + m - 1 = k + j /\ i + m - 1 = i + j
      BY <1>1, <2>1
    <2>3. h[m] = t[k + m - 1]
      BY <1>2 DEF PlainIn
    <2> QED BY <1>5, <2>1, <2>2, <2>3
  <1> QED BY <1>2, <1>5, <1>6 DEF MatchAt

\* A marking with the matches of h from k on in tags as well: what was bold
\* stays so, only matches of h are added, and all of them if h is alone.
Improved(t, h, O, C, r, k, d, b) ==
  \E e :
    /\ <<r, k, d, e>> \in Marked(t, O \cup Matches(t, h), C \cup MatchEnds(t, h))
    /\ b \subseteq e /\ e \subseteq b \cup Inside(t, h)
    /\ AloneIn(t, h, O, C) =>
         \A m \in Matches(t, h) : m >= k => m .. m + Len(h) - 1 \subseteq e

LEMMA ImprovedEmpty ==
  ASSUME NEW t \in Seq(TextCharacters), NEW h, NEW O, NEW C
  PROVE  Improved(t, h, O, C, <<>>, Len(t) + 1, 0, {})
  <1>1. << <<>>, Len(t) + 1, 0, {} >> \in Marked(t, O \cup Matches(t, h), C \cup MatchEnds(t, h))
    BY MarkedClosed DEF Closed
  <1>2. \A m \in Matches(t, h) : ~(m >= Len(t) + 1)
    BY TextIs DEF Matches
  <1>3. {} \subseteq {} \cup Inside(t, h)
    OBVIOUS
  <1>4. AloneIn(t, h, O, C) =>
          \A m \in Matches(t, h) : m >= Len(t) + 1 => m .. m + Len(h) - 1 \subseteq {}
    BY <1>2
  <1>5. PICK r, k, d, b : r = <<>> /\ k = Len(t) + 1 /\ d = 0 /\ b = {}
    OBVIOUS
  <1>6. /\ <<r, k, d, b>> \in Marked(t, O \cup Matches(t, h), C \cup MatchEnds(t, h))
        /\ b \subseteq b /\ b \subseteq b \cup Inside(t, h)
        /\ AloneIn(t, h, O, C) =>
             \A m \in Matches(t, h) : m >= k => m .. m + Len(h) - 1 \subseteq b
    BY <1>1, <1>3, <1>4, <1>5
  <1>7. Improved(t, h, O, C, r, k, d, b)
    BY <1>6 DEF Improved
  <1> QED BY <1>5, <1>7

LEMMA ImprovedGrows ==
  ASSUME NEW t \in Seq(TextCharacters), NEW O, NEW C, NEW v, NEW k, NEW d, NEW b,
         <<v, k, d, b>> \in Marked(t, O, C)
  PROVE  /\ k > 1 => << Cons(t[k - 1], v), k - 1, d, IF d > 0 THEN b \cup {k - 1} ELSE b >>
                     \in Marked(t, O, C)
         /\ d > 0 /\ k \in O => <<Cat(OpenTag, v), k, d - 1, b>> \in Marked(t, O, C)
         /\ k \in C => <<Cat(CloseTag, v), k, d + 1, b>> \in Marked(t, O, C)
  <1>1. /\ v \in Seq(Characters) /\ k \in 1 .. Len(t) + 1 /\ d \in Nat
        /\ b \in SUBSET (1 .. Len(t))
    BY MarkedIs
  <1>2. Grows(Marked(t, O, C), t, O, C, v, k, d, b)
    BY <1>1, MarkedClosed DEF Closed
  <1> QED BY <1>2 DEF Grows

LEMMA ImprovedOpen ==
  ASSUME NEW t \in Seq(TextCharacters), NEW h, NEW O, NEW C, NEW v, NEW k \in O, NEW d \in Nat,
         NEW b, Improved(t, h, O, C, v, k, d + 1, b)
  PROVE  Improved(t, h, O, C, Cat(OpenTag, v), k, d, b)
  <1>1. PICK P, D, e : /\ P = O \cup Matches(t, h) /\ D = C \cup MatchEnds(t, h)
                       /\ <<v, k, d + 1, e>> \in Marked(t, P, D)
                       /\ b \subseteq e /\ e \subseteq b \cup Inside(t, h)
                       /\ AloneIn(t, h, O, C) =>
                           \A m \in Matches(t, h) : m >= k => m .. m + Len(h) - 1 \subseteq e
    BY DEF Improved
  <1>2. PICK f : f = d + 1 /\ f > 0 /\ f - 1 = d
    OBVIOUS
  <1>3. <<v, k, f, e>> \in Marked(t, P, D) /\ k \in P
    BY <1>1, <1>2
  <1>4. <<Cat(OpenTag, v), k, f - 1, e>> \in Marked(t, P, D)
    BY <1>2, <1>3, ImprovedGrows
  <1> QED BY <1>1, <1>2, <1>4 DEF Improved

LEMMA ImprovedClose ==
  ASSUME NEW t \in Seq(TextCharacters), NEW h, NEW O, NEW C, NEW v, NEW k \in C, NEW d \in Nat,
         d > 0, NEW b, Improved(t, h, O, C, v, k, d - 1, b)
  PROVE  Improved(t, h, O, C, Cat(CloseTag, v), k, d, b)
  <1>1. PICK P, D, e : /\ P = O \cup Matches(t, h) /\ D = C \cup MatchEnds(t, h)
                       /\ <<v, k, d - 1, e>> \in Marked(t, P, D)
                       /\ b \subseteq e /\ e \subseteq b \cup Inside(t, h)
                       /\ AloneIn(t, h, O, C) =>
                           \A m \in Matches(t, h) : m >= k => m .. m + Len(h) - 1 \subseteq e
    BY DEF Improved
  <1>2. PICK f : f = d - 1 /\ f + 1 = d
    OBVIOUS
  <1>3. <<v, k, f, e>> \in Marked(t, P, D) /\ k \in D
    BY <1>1, <1>2
  <1>4. <<Cat(CloseTag, v), k, f + 1, e>> \in Marked(t, P, D)
    BY <1>2, <1>3, ImprovedGrows
  <1> QED BY <1>1, <1>2, <1>4 DEF Improved

LEMMA ImprovedLetter ==
  ASSUME NEW t \in Seq(TextCharacters), NEW h, NEW O, NEW C, NEW v, NEW k \in 1 .. Len(t),
         NEW d \in Nat, NEW b, NEW e, Improved(t, h, O, C, v, k + 1, d, e),
         b = e \cup Bold(d, k, 1), AloneIn(t, h, O, C) => k \notin Matches(t, h)
  PROVE  Improved(t, h, O, C, Cons(t[k], v), k, d, b)
  <1>1. PICK P, D, f : /\ P = O \cup Matches(t, h) /\ D = C \cup MatchEnds(t, h)
                       /\ <<v, k + 1, d, f>> \in Marked(t, P, D)
                       /\ e \subseteq f /\ f \subseteq e \cup Inside(t, h)
                       /\ AloneIn(t, h, O, C) =>
                           \A m \in Matches(t, h) : m >= k + 1 => m .. m + Len(h) - 1 \subseteq f
    BY DEF Improved
  <1>2. PICK n, g : n = k + 1 /\ n > 1 /\ n - 1 = k /\ g = IF d > 0 THEN f \cup {n - 1} ELSE f
    <2>1. k + 1 > 1 /\ (k + 1) - 1 = k
      OBVIOUS
    <2> QED BY <2>1
  <1>3. <<v, n, d, f>> \in Marked(t, P, D)
    BY <1>1, <1>2
  <1>4. <<Cons(t[n - 1], v), n - 1, d, g>> \in Marked(t, P, D)
    BY <1>2, <1>3, ImprovedGrows
  <1>5. g = f \cup Bold(d, k, 1)
    <2>1. k .. k + 1 - 1 = {k}
      OBVIOUS
    <2> QED BY <1>2, <2>1 DEF Bold
  <1>6. b \subseteq g /\ g \subseteq b \cup Inside(t, h) /\ f \subseteq g
    BY <1>1, <1>5
  <1>7. \A m \in Matches(t, h) : m >= k /\ m # k => m >= k + 1
    BY DEF Matches
  <1>8. AloneIn(t, h, O, C) =>
          \A m \in Matches(t, h) : m >= k => m .. m + Len(h) - 1 \subseteq g
    <2> SUFFICES ASSUME AloneIn(t, h, O, C), NEW m \in Matches(t, h), m >= k
                 PROVE  m .. m + Len(h) - 1 \subseteq g
      OBVIOUS
    <2>1. m >= k + 1
      BY <1>7
    <2>2. m .. m + Len(h) - 1 \subseteq f
      BY <1>1, <2>1
    <2> QED BY <1>6, <2>2
  <1> QED BY <1>1, <1>2, <1>4, <1>6, <1>8 DEF Improved

LEMMA TaggedBefore ==
  ASSUME NEW h \in Seq(Characters), NEW v \in Seq(Characters)
  PROVE  Tagged(h) \o v = Cat(OpenTag, Cat(h, Cat(CloseTag, v)))
  <1>1. OpenTag \in Seq(Characters) /\ CloseTag \in Seq(Characters)
    BY TagsAre
  <1>2. PICK o, c : o = OpenTag /\ c = CloseTag
    OBVIOUS
  <1>3. /\ Cat(Cat(Cat(o, h), c), v) = Cat(Cat(o, h), Cat(c, v))
        /\ Cat(Cat(o, h), Cat(c, v)) = Cat(o, Cat(h, Cat(c, v)))
    <2>1. o \in Seq(Characters) /\ c \in Seq(Characters)
      BY <1>1, <1>2
    <2>2. Cat(o, h) \in Seq(Characters) /\ Cat(c, v) \in Seq(Characters)
      BY <2>1, CatAssociative
    <2> QED BY <2>1, <2>2, CatAssociative
  <1>4. Tagged(h) \o v = Cat(Cat(Cat(o, h), c), v)
    BY <1>2 DEF Tagged, Cat
  <1> QED BY <1>2, <1>3, <1>4

LEMMA ImprovedTagged ==
  ASSUME NEW t \in Seq(TextCharacters), NEW h, NEW O, NEW C, NEW v, NEW k \in Matches(t, h),
         PlainIn(t, h), NEW d \in Nat, NEW b, NEW e, k + Len(h) <= Len(t) + 1,
         Improved(t, h, O, C, v, k + Len(h), d, e), b = e \cup Bold(d, k, Len(h))
  PROVE  Improved(t, h, O, C, Tagged(h) \o v, k, d, b)
  <1>1. PICK P, D, f : /\ P = O \cup Matches(t, h) /\ D = C \cup MatchEnds(t, h)
                       /\ <<v, k + Len(h), d, f>> \in Marked(t, P, D)
                       /\ e \subseteq f /\ f \subseteq e \cup Inside(t, h)
                       /\ AloneIn(t, h, O, C) =>
                           \A m \in Matches(t, h) :
                             m >= k + Len(h) => m .. m + Len(h) - 1 \subseteq f
    BY DEF Improved
  <1>2. /\ h \in Seq(Characters) /\ Len(h) \in Nat \ {0} /\ Len(t) \in Nat /\ k \in 1 .. Len(t)
        /\ v \in Seq(Characters)
    <2>1. Len(t) \in Nat /\ DOMAIN t = 1 .. Len(t) /\ v \in Seq(Characters)
      BY <1>1, TextIs, MarkedIs
    <2>2. h \in Seq(Characters) /\ Len(h) \in Nat \ {0}
      BY DEF PlainIn
    <2>3. k \in 1 .. Len(t)
      BY <2>1 DEF Matches
    <2> QED BY <2>1, <2>2, <2>3
  <1>3. k + Len(h) \in D /\ k \in P
    BY <1>1 DEF MatchEnds
  <1>4. PICK n, w, f1 : n = d + 1 /\ w = Cat(CloseTag, v) /\ f1 = f \cup Bold(n, k, Len(h))
    OBVIOUS
  <1>5. <<w, k + Len(h), n, f>> \in Marked(t, P, D)
    BY <1>1, <1>3, <1>4, ImprovedGrows
  <1>6. <<Cat(h, w), k, n, f1>> \in Marked(t, P, D)
    <2>1. \A j \in 1 .. Len(h) : h[j] = t[k + j - 1]
      BY DEF PlainIn
    <2>2. w \in Seq(Characters) /\ k \in 1 .. Len(t) + 1
      BY <1>2, <1>5, MarkedIs
    <2>3. <<Cat(h, w), k, n, f \cup Bold(n, k, Len(h))>> \in Marked(t, P, D)
      BY <1>2, <1>5, <2>1, <2>2, Prepend
    <2> QED BY <1>4, <2>3
  <1>7. <<Cat(OpenTag, Cat(h, w)), k, d, f1>> \in Marked(t, P, D)
    <2>1. n > 0 /\ n - 1 = d
      BY <1>4
    <2>2. <<Cat(OpenTag, Cat(h, w)), k, n - 1, f1>> \in Marked(t, P, D)
      BY <1>3, <1>6, <2>1, ImprovedGrows
    <2> QED BY <2>1, <2>2
  <1>8. Tagged(h) \o v = Cat(OpenTag, Cat(h, w))
    BY <1>2, <1>4, TaggedBefore
  <1>9. f1 = f \cup (k .. k + Len(h) - 1)
    BY <1>4 DEF Bold
  <1>10. k .. k + Len(h) - 1 \subseteq Inside(t, h)
    BY DEF Inside
  <1>11. b \subseteq f1 /\ f1 \subseteq b \cup Inside(t, h)
    <2>1. Bold(d, k, Len(h)) \subseteq k .. k + Len(h) - 1
      BY DEF Bold
    <2> QED BY <1>1, <1>9, <1>10, <2>1
  <1>12. ASSUME AloneIn(t, h, O, C), NEW m \in Matches(t, h), m >= k
         PROVE  m .. m + Len(h) - 1 \subseteq f1
    <2>1. m \in Nat
      BY DEF Matches
    <2>2. CASE m = k
      BY <1>9, <2>2
    <2>3. CASE m >= k + Len(h)
      BY <1>1, <1>9, <1>12, <2>3
    <2>4. CASE m # k /\ ~(m >= k + Len(h))
      <3>1. m \in k + 1 .. k + Len(h) - 1
        BY <1>2, <1>12, <2>1, <2>4
      <3> QED BY <1>12, <3>1 DEF AloneIn
    <2> QED BY <2>2, <2>3, <2>4
  <1> QED BY <1>1, <1>7, <1>8, <1>11, <1>12 DEF Improved

LEMMA ReplacedCases ==
  ASSUME NEW s \in Seq(Characters), NEW t, NEW h, PlainIn(t, h), NEW R,
         R = Replacing(s, h, Tagged(h)), NEW i \in 1 .. Len(s) + 1
  PROVE  /\ i > Len(s) => R[i] = <<>>
         /\ i <= Len(s) /\ MatchAt(s, h, i) => R[i] = Tagged(h) \o R[i + Len(h)]
         /\ i <= Len(s) /\ ~MatchAt(s, h, i) => R[i] = Cons(s[i], R[i + 1])
  <1>1. h \in Seq(Characters) /\ h # <<>>
    <2>1. h \in Seq(Characters) /\ Len(h) # 0
      BY DEF PlainIn
    <2> QED BY <2>1
  <1>2. R[i] = Replaced(R, s, h, Tagged(h), i)
    BY <1>1, ReplacingIs
  <1>3. Len(s) \in Nat
    BY SuffixIs
  <1>4. i <= Len(s) <=> ~(i > Len(s))
    BY <1>3
  <1> QED BY <1>1, <1>2, <1>4, Zenon DEF Replaced, Cons

LEMMA ReplaceMarks ==
  ASSUME NEW t \in Seq(TextCharacters), NEW O, NEW C, NEW s, NEW b, NEW h, PlainIn(t, h),
         <<s, 1, 0, b>> \in Marked(t, O, C)
  PROVE  Improved(t, h, O, C, ReplaceAll(s, h, Tagged(h)), 1, 0, b)
  <1>1. PICK R : R = Replacing(s, h, Tagged(h))
    OBVIOUS
  <1>2. s \in Seq(Characters) /\ Len(s) \in Nat /\ Suffix(s, 1) = s
    <2>1. s \in Seq(Characters)
      BY MarkedIs
    <2> QED BY <2>1, SuffixIs
  <1>3. PICK n \in Nat : n = Len(s) + 1
    BY <1>2
  <1> DEFINE K == Marked(t, O, C)
             P(i) == \A k, d, b1 : <<Suffix(s, i), k, d, b1>> \in K
                                   => Improved(t, h, O, C, R[i], k, d, b1)
             S == {i \in 1 .. n : P(i)}
  <1>4. ASSUME NEW i \in 1 .. n, \A j \in 1 .. n : i < j => P(j) PROVE P(i)
    <2> SUFFICES ASSUME NEW k, NEW d, NEW b1, <<Suffix(s, i), k, d, b1>> \in K
                 PROVE  Improved(t, h, O, C, R[i], k, d, b1)
      OBVIOUS
    <2>0. /\ i \in 1 .. Len(s) + 1 /\ Len(t) \in Nat /\ Len(h) \in Nat \ {0}
          /\ k \in 1 .. Len(t) + 1 /\ d \in Nat /\ b1 \in SUBSET (1 .. Len(t))
      BY <1>2, <1>3, MarkedIs, TextIs DEF PlainIn
    <2>1. Came(t, O, C, Suffix(s, i), k, d, b1)
      BY MarkedCame
    <2>2. \A j \in 1 .. Len(s) + 1 : \A k2, d2, b2 :
            i < j /\ <<Suffix(s, j), k2, d2, b2>> \in K => Improved(t, h, O, C, R[j], k2, d2, b2)
      BY <1>3, <1>4
    <2>3. \A j \in 1 .. Len(s) + 1 :
            /\ j > Len(s) => R[j] = <<>>
            /\ j <= Len(s) /\ MatchAt(s, h, j) => R[j] = Tagged(h) \o R[j + Len(h)]
            /\ j <= Len(s) /\ ~MatchAt(s, h, j) => R[j] = Cons(s[j], R[j + 1])
      BY <1>1, <1>2, ReplacedCases
    <2> HIDE DEF P, S
    <2>4. CASE i > Len(s)
      <3>1. i = Len(s) + 1 /\ Suffix(s, i) = <<>>
        BY <1>2, <2>0, <2>4, SuffixIs, SMTT(30)
      <3>2. ~CharacterFirst(t, O, C, Suffix(s, i), k, d, b1)
        <4> SUFFICES ASSUME CharacterFirst(t, O, C, Suffix(s, i), k, d, b1) PROVE FALSE
          OBVIOUS
        <4>1. PICK v \in Seq(Characters) : k \in 1 .. Len(t) /\ Suffix(s, i) = Cons(t[k], v)
          BY DEF CharacterFirst
        <4>2. t[k] \in Characters
          BY <4>1 DEF TextCharacters
        <4> QED BY <3>1, <4>1, <4>2, ConsIs
      <3>3. ~OpenFirst(t, O, C, Suffix(s, i), k, d, b1)
        <4> SUFFICES ASSUME OpenFirst(t, O, C, Suffix(s, i), k, d, b1) PROVE FALSE
          OBVIOUS
        <4>1. PICK v \in Seq(Characters) : Suffix(s, i) = Cat(OpenTag, v)
          BY DEF OpenFirst
        <4>2. i \in 1 .. Len(s)
          BY <1>2, <2>0, <4>1, OpensAhead
        <4> QED BY <1>2, <2>4, <4>2
      <3>4. ~CloseFirst(t, O, C, Suffix(s, i), k, d, b1)
        <4> SUFFICES ASSUME CloseFirst(t, O, C, Suffix(s, i), k, d, b1) PROVE FALSE
          OBVIOUS
        <4>1. PICK v \in Seq(Characters) : Suffix(s, i) = Cat(CloseTag, v)
          BY DEF CloseFirst
        <4>2. i \in 1 .. Len(s)
          BY <1>2, <2>0, <4>1, ClosesAhead
        <4> QED BY <1>2, <2>4, <4>2
      <3>5. k = Len(t) + 1 /\ d = 0 /\ b1 = {}
        BY <2>1, <3>2, <3>3, <3>4 DEF Came, Done
      <3>6. R[i] = <<>>
        BY <2>0, <2>3, <2>4
      <3> QED BY <3>5, <3>6, ImprovedEmpty
    <2>5. CASE i <= Len(s) /\ MatchAt(s, h, i)
      <3>1. /\ i + Len(h) \in 1 .. Len(s) + 1 /\ k \in Matches(t, h) /\ k + Len(h) <= Len(t) + 1
            /\ Onward(s, i, t, k, d, b1, Len(h), O, C)
        BY <1>2, <2>0, <2>5, MatchRuns
      <3>2. PICK e : <<Suffix(s, i + Len(h)), k + Len(h), d, e>> \in K
                     /\ b1 = e \cup Bold(d, k, Len(h))
        BY <3>1 DEF Onward
      <3>3. i < i + Len(h)
        BY <2>0
      <3>4. Improved(t, h, O, C, R[i + Len(h)], k + Len(h), d, e)
        BY <2>2, <3>1, <3>2, <3>3
      <3>5. R[i] = Tagged(h) \o R[i + Len(h)]
        BY <2>0, <2>3, <2>5
      <3>6. Improved(t, h, O, C, Tagged(h) \o R[i + Len(h)], k, d, b1)
        BY <2>0, <3>1, <3>2, <3>4, ImprovedTagged
      <3> QED BY <3>5, <3>6
    <2>6. CASE i <= Len(s) /\ ~MatchAt(s, h, i) /\ s[i] # "<"
      <3>1. Letter(s, i, t, k, O, C)
        BY <2>6 DEF Letter
      <3>2. /\ i \in 1 .. Len(s) /\ k \in 1 .. Len(t) /\ s[i] = t[k]
            /\ Onward(s, i, t, k, d, b1, 1, O, C)
        BY <1>2, <2>0, <3>1, LetterFirst
      <3>3. PICK e : <<Suffix(s, i + 1), k + 1, d, e>> \in K /\ b1 = e \cup Bold(d, k, 1)
        BY <3>2 DEF Onward
      <3>4. i + 1 \in 1 .. Len(s) + 1 /\ i < i + 1
        BY <2>0, <3>2
      <3>5. Improved(t, h, O, C, R[i + 1], k + 1, d, e)
        BY <2>2, <3>3, <3>4
      <3>6. AloneIn(t, h, O, C) => k \notin Matches(t, h)
        BY <1>2, <2>0, <2>6, MatchStays
      <3>7. R[i] = Cons(s[i], R[i + 1])
        BY <2>0, <2>3, <2>6
      <3>8. Improved(t, h, O, C, Cons(t[k], R[i + 1]), k, d, b1)
        BY <2>0, <3>2, <3>3, <3>5, <3>6, ImprovedLetter
      <3> QED BY <3>2, <3>7, <3>8
    <2>7. CASE i <= Len(s) /\ s[i] = "<"
      <3>0. Suffix(s, i) # <<>>
        <4>1. i \in 1 .. Len(s) /\ i + 1 \in 1 .. Len(s) + 1
          BY <1>2, <2>0, <2>7
        <4>2. /\ s[i] \in Characters /\ Suffix(s, i) = Cons(s[i], Suffix(s, i + 1))
              /\ Suffix(s, i + 1) \in Seq(Characters)
          BY <1>2, <4>1, SuffixIs
        <4> QED BY <4>2, ConsIs
      <3>1. ~CharacterFirst(t, O, C, Suffix(s, i), k, d, b1)
        <4> SUFFICES ASSUME CharacterFirst(t, O, C, Suffix(s, i), k, d, b1) PROVE FALSE
          OBVIOUS
        <4>1. PICK v \in Seq(Characters) : k \in 1 .. Len(t) /\ Suffix(s, i) = Cons(t[k], v)
          BY DEF CharacterFirst
        <4>2. t[k] \in Characters /\ t[k] # "<"
          BY <4>1 DEF TextCharacters
        <4>3. s[i] = t[k]
          BY <1>2, <2>0, <4>1, <4>2, Ahead
        <4> QED BY <2>7, <4>2, <4>3
      <3>2. CASE OpenFirst(t, O, C, Suffix(s, i), k, d, b1)
        <4>1. PICK v \in Seq(Characters) :
                k \in O /\ <<v, k, d + 1, b1>> \in K /\ Suffix(s, i) = Cat(OpenTag, v)
          BY <3>2 DEF OpenFirst
        <4>2. /\ i \in 1 .. Len(s) /\ i + 1 \in 1 .. Len(s) /\ i + 2 \in 1 .. Len(s)
              /\ i + 3 \in 1 .. Len(s) + 1
              /\ s[i] = "<" /\ s[i + 1] = "b" /\ s[i + 2] = ">" /\ Suffix(s, i + 3) = v
          BY <1>2, <2>0, <4>1, OpensAhead
        <4>3. Improved(t, h, O, C, R[i + 3], k, d + 1, b1)
          <5>1. i < i + 3
            BY <2>0
          <5>2. <<Suffix(s, i + 3), k, d + 1, b1>> \in K
            BY <4>1, <4>2
          <5> QED BY <2>2, <4>2, <5>1, <5>2
        <4>4. Improved(t, h, O, C, Cat(OpenTag, R[i + 3]), k, d, b1)
          BY <2>0, <4>1, <4>3, ImprovedOpen
        <4>5. R[i + 3] \in Seq(Characters)
          BY <4>3, MarkedIs DEF Improved
        <4>6. /\ R[i] = Cons("<", R[i + 1]) /\ R[i + 1] = Cons("b", R[i + 2])
              /\ R[i + 2] = Cons(">", R[i + 3])
          <5>1. ~MatchAt(s, h, i) /\ ~MatchAt(s, h, i + 1) /\ ~MatchAt(s, h, i + 2)
            BY <4>2, NoMatchInTags
          <5>2. (i + 1) + 1 = i + 2 /\ (i + 2) + 1 = i + 3
            BY <2>0
          <5>3. \A j \in 1 .. Len(s) : j \in 1 .. Len(s) + 1 /\ j <= Len(s)
            BY <1>2
          <5>4. \A j \in 1 .. Len(s) : ~MatchAt(s, h, j) => R[j] = Cons(s[j], R[j + 1])
            BY <2>3, <5>3
          <5> QED BY <4>2, <5>1, <5>2, <5>4
        <4>7. R[i] = Cat(OpenTag, R[i + 3])
          BY <4>5, <4>6, TagsAre
        <4> QED BY <4>4, <4>7
      <3>3. CASE CloseFirst(t, O, C, Suffix(s, i), k, d, b1)
        <4>1. PICK v \in Seq(Characters) :
                k \in C /\ d > 0 /\ <<v, k, d - 1, b1>> \in K /\ Suffix(s, i) = Cat(CloseTag, v)
          BY <3>3 DEF CloseFirst
        <4>2. /\ i \in 1 .. Len(s) /\ i + 1 \in 1 .. Len(s) /\ i + 2 \in 1 .. Len(s)
              /\ i + 3 \in 1 .. Len(s) /\ i + 4 \in 1 .. Len(s) + 1
              /\ s[i] = "<" /\ s[i + 1] = "/" /\ s[i + 2] = "b" /\ s[i + 3] = ">"
              /\ Suffix(s, i + 4) = v
          BY <1>2, <2>0, <4>1, ClosesAhead
        <4>3. Improved(t, h, O, C, R[i + 4], k, d - 1, b1)
          <5>1. i < i + 4
            BY <2>0
          <5>2. <<Suffix(s, i + 4), k, d - 1, b1>> \in K
            BY <4>1, <4>2
          <5> QED BY <2>2, <4>2, <5>1, <5>2
        <4>4. Improved(t, h, O, C, Cat(CloseTag, R[i + 4]), k, d, b1)
          BY <2>0, <4>1, <4>3, ImprovedClose
        <4>5. R[i + 4] \in Seq(Characters)
          BY <4>3, MarkedIs DEF Improved
        <4>6. /\ R[i] = Cons("<", R[i + 1]) /\ R[i + 1] = Cons("/", R[i + 2])
              /\ R[i + 2] = Cons("b", R[i + 3]) /\ R[i + 3] = Cons(">", R[i + 4])
          <5>1. /\ ~MatchAt(s, h, i) /\ ~MatchAt(s, h, i + 1) /\ ~MatchAt(s, h, i + 2)
                /\ ~MatchAt(s, h, i + 3)
            BY <4>2, NoMatchInTags
          <5>2. (i + 1) + 1 = i + 2 /\ (i + 2) + 1 = i + 3 /\ (i + 3) + 1 = i + 4
            BY <2>0
          <5>3. \A j \in 1 .. Len(s) : j \in 1 .. Len(s) + 1 /\ j <= Len(s)
            BY <1>2
          <5>4. \A j \in 1 .. Len(s) : ~MatchAt(s, h, j) => R[j] = Cons(s[j], R[j + 1])
            BY <2>3, <5>3
          <5> QED BY <4>2, <5>1, <5>2, <5>4
        <4>7. R[i] = Cat(CloseTag, R[i + 4])
          BY <4>5, <4>6, TagsAre
        <4> QED BY <4>4, <4>7
      <3> QED BY <2>1, <3>0, <3>1, <3>2, <3>3 DEF Came, Done
    <2>8. i > Len(s) \/ i <= Len(s)
      BY <1>2, <2>0
    <2>9. ~(s[i] = "<" /\ MatchAt(s, h, i))
      BY NoMatchInTags
    <2> QED BY <2>4, <2>5, <2>6, <2>7, <2>8, <2>9
  <1> HIDE DEF P
  <1>5. 1 .. n \subseteq S
    <2>1. \A i \in 1 .. n : (\A j \in 1 .. n : i < j => j \in S) => i \in S
      BY <1>4
    <2> HIDE DEF S
    <2> QED BY <2>1, Downward
  <1>6. P(1)
    BY <1>2, <1>3, <1>5
  <1>7. Improved(t, h, O, C, R[1], 1, 0, b)
    BY <1>2, <1>6 DEF P
  <1>8. ReplaceAll(s, h, Tagged(h)) = R[1]
    <2>1. h \in Seq(Characters)
      BY DEF PlainIn
    <2> QED BY <1>1, <1>2, <2>1, ReplacingIs
  <1> QED BY <1>7, <1>8

-----------------------------------------------------------------------------
(* Types                                                                   *)

LEMMA TrimTyped ==
  ASSUME NEW h \in Seq(Characters)
  PROVE  Trim(h) \in Seq(Characters)
  <1> DEFINE solid == {i \in DOMAIN h : h[i] # " "}
  <1>0. PICK n \in Nat : n = Len(h)
    OBVIOUS
  <1>1. solid \subseteq 1 .. n
    <2>1. DOMAIN h = 1 .. n
      BY <1>0
    <2> QED BY <2>1
  <1>2. CASE solid = {}
    <2>1. Trim(h) = <<>>
      BY <1>2 DEF Trim
    <2> QED BY <2>1
  <1>3. CASE solid # {}
    <2>1. \E i \in solid : \A j \in solid : i <= j
      <3> HIDE DEF solid
      <3> SUFFICES ASSUME ~(\E i \in solid : \A j \in solid : i <= j) PROVE FALSE
        OBVIOUS
      <3> DEFINE U == {m \in Nat : \A i \in 1 .. m : i \notin solid}
      <3>1. 0 \in U
        OBVIOUS
      <3>2. ASSUME NEW m \in Nat, m \in U PROVE m + 1 \in U
        <4>1. \A j \in solid : m + 1 <= j
          BY <1>1, <3>2
        <4>2. m + 1 \notin solid
          BY <4>1
        <4> QED BY <3>2, <4>2
      <3>3. n \in U
        <4> HIDE DEF U
        <4> QED BY <3>1, <3>2, Upward
      <3> QED BY <1>1, <1>3, <3>3
    <2>2. \E i \in solid : \A j \in solid : j <= i
      <3> HIDE DEF solid
      <3> SUFFICES ASSUME ~(\E i \in solid : \A j \in solid : j <= i) PROVE FALSE
        OBVIOUS
      <3> DEFINE U == (1 .. n) \ solid
      <3>1. ASSUME NEW i \in 1 .. n, \A j \in 1 .. n : i < j => j \in U PROVE i \in U
        <4>1. \A j \in solid : j <= i
          BY <1>1, <3>1
        <4> QED BY <4>1
      <3>2. 1 .. n \subseteq U
        <4> HIDE DEF U
        <4> QED BY <3>1, Downward
      <3> QED BY <1>1, <1>3, <3>2
    <2>3. PICK x, y : /\ x = CHOOSE i \in solid : \A j \in solid : i <= j
                      /\ y = CHOOSE i \in solid : \A j \in solid : j <= i
      OBVIOUS
    <2>4. x \in solid /\ y \in solid
      <3> HIDE DEF solid
      <3> QED BY <2>1, <2>2, <2>3
    <2>5. Trim(h) = SubSeq(h, x, y)
      BY <1>3, <2>3 DEF Trim
    <2>6. x \in 1 .. Len(h) /\ y \in 1 .. Len(h)
      BY <1>0, <1>1, <2>4
    <2>7. SubSeq(h, x, y) \in Seq(Characters)
      BY <2>6
    <2> QED BY <2>5, <2>7
  <1> QED BY <1>2, <1>3

LEMMA ReplaceAllTyped ==
  ASSUME NEW s \in Seq(Characters), NEW p \in Seq(Characters), NEW new \in Seq(Characters)
  PROVE  ReplaceAll(s, p, new) \in Seq(Characters)
  <1>1. PICK R : R = Replacing(s, p, new)
    OBVIOUS
  <1>2. PICK len \in Nat : len = Len(s)
    OBVIOUS
  <1>3. PICK n \in Nat : n = len + 1
    OBVIOUS
  <1> DEFINE S == {i \in 1 .. n : R[i] \in Seq(Characters)}
  <1>4. ASSUME NEW i \in 1 .. n, \A j \in 1 .. n : i < j => j \in S
        PROVE  i \in S
    <2>1. R[i] = Replaced(R, s, p, new, i)
      BY <1>1, <1>2, <1>3, ReplacingIs
    <2>2. <<>> \in Seq(Characters)
      OBVIOUS
    <2>3. ~(i > Len(s)) => Cons(s[i], R[i + 1]) \in Seq(Characters)
      <3> SUFFICES ASSUME ~(i > Len(s)) PROVE Cons(s[i], R[i + 1]) \in Seq(Characters)
        OBVIOUS
      <3>1. i \in 1 .. Len(s) /\ i + 1 \in 1 .. n /\ i < i + 1
        BY <1>2, <1>3
      <3>2. s[i] \in Characters /\ R[i + 1] \in Seq(Characters)
        BY <1>4, <3>1
      <3> QED BY <3>2, ConsIs
    <2>4. p # <<>> /\ MatchAt(s, p, i) => new \o R[i + Len(p)] \in Seq(Characters)
      <3> SUFFICES ASSUME p # <<>>, MatchAt(s, p, i) PROVE new \o R[i + Len(p)] \in Seq(Characters)
        OBVIOUS
      <3>1. Len(p) \in Nat \ {0}
        OBVIOUS
      <3>2. i + Len(p) <= Len(s) + 1
        BY DEF MatchAt
      <3>3. i + Len(p) \in 1 .. n /\ i < i + Len(p)
        BY <1>2, <1>3, <3>1, <3>2
      <3>4. R[i + Len(p)] \in Seq(Characters)
        BY <1>4, <3>3
      <3> QED BY <3>4
    <2>5. PICK x : x = IF i > Len(s) THEN <<>> ELSE Cons(s[i], R[i + 1])
      OBVIOUS
    <2>6. x \in Seq(Characters) /\ new \o x \in Seq(Characters)
      <3>1. x \in Seq(Characters)
        BY <2>2, <2>3, <2>5
      <3> QED BY <3>1
    <2>7. Replaced(R, s, p, new, i)
          = IF p = <<>> THEN new \o x
            ELSE IF i > Len(s) THEN <<>>
            ELSE IF MatchAt(s, p, i) THEN new \o R[i + Len(p)]
            ELSE Cons(s[i], R[i + 1])
      BY <2>5, Zenon DEF Replaced, Cons
    <2>8. Replaced(R, s, p, new, i) \in Seq(Characters)
      BY <2>2, <2>3, <2>4, <2>6, <2>7, Zenon
    <2> QED BY <2>1, <2>8
  <1>5. 1 .. n \subseteq S
    <2> HIDE DEF S
    <2> QED BY <1>4, Downward
  <1>6. R[1] \in Seq(Characters)
    BY <1>3, <1>5
  <1> QED BY <1>1, <1>6, ReplacingIs

LEMMA TaggedTyped ==
  ASSUME NEW h \in Seq(Characters)
  PROVE  Tagged(h) \in Seq(Characters)
  <1>1. OpenTag \in Seq(Characters) /\ CloseTag \in Seq(Characters)
    BY TagsAre
  <1> QED BY <1>1 DEF Tagged

\* Every variable has its type: the text so far stays a string, whatever the
\* highlights are.
THEOREM HighlightTyped == Spec => []TypeOK
  <1>1. Init => TypeOK
    BY InputAssumption DEF Init, TypeOK
  <1>2. TypeOK /\ [Next]_vars => TypeOK'
    <2> SUFFICES ASSUME TypeOK, [Next]_vars PROVE TypeOK'
      OBVIOUS
    <2>1. ASSUME NEW i \in left, Apply(i) PROVE TypeOK'
      <3>1. highlights[i] \in Seq(Characters)
        <4>1. highlights \in Seq(Seq(Characters)) /\ i \in DOMAIN highlights
          BY InputAssumption DEF TypeOK
        <4> QED BY <4>1
      <3>2. result' \in Seq(Characters)
        <4>1. Trim(highlights[i]) \in Seq(Characters) /\ Tagged(highlights[i]) \in Seq(Characters)
          BY <3>1, TrimTyped, TaggedTyped
        <4>2. result \in Seq(Characters)
          BY DEF TypeOK
        <4> QED BY <2>1, <4>1, <4>2, ReplaceAllTyped DEF Apply
      <3> QED BY <2>1, <3>2 DEF TypeOK, Apply
    <2>2. CASE UNCHANGED vars
      BY <2>2 DEF TypeOK, vars
    <2> QED BY <2>1, <2>2 DEF Next, Returned
  <1> QED BY <1>1, <1>2, PTL DEF Spec

-----------------------------------------------------------------------------
(* The highlights that have been applied                                   *)

OpenedAt(t, hs, a) == UNION {Matches(t, hs[n]) : n \in a}
ClosedAt(t, hs, a) == UNION {MatchEnds(t, hs[n]) : n \in a}

\* Overlaps and its use in HighlightsAreBold, for a text t.
Crossing(t, g, h) ==
  \E i \in Matches(t, g), j \in Matches(t, h) : i < j /\ j < i + Len(g) /\ i + Len(g) < j + Len(h)

Apart(t, hs, n) == \A m \in DOMAIN hs : ~Crossing(t, hs[m], hs[n]) /\ ~Crossing(t, hs[n], hs[m])

LongestFirst(hs, a, l) == \A m \in a, n \in l : Len(hs[m]) >= Len(hs[n])

\* The text so far is a marking, with tags where the applied highlights match;
\* only matches are bold, and those that cross no other all are.
SoFar(t, hs, a, r) ==
  \E b :
    /\ <<r, 1, 0, b>> \in Marked(t, OpenedAt(t, hs, a), ClosedAt(t, hs, a))
    /\ \A k \in b : \E i \in DOMAIN hs : k \in Inside(t, hs[i])
    /\ \A n \in a : Apart(t, hs, n) => Inside(t, hs[n]) \subseteq b

LEMMA UnmarkedText ==
  ASSUME NEW t \in Seq(TextCharacters), NEW hs
  PROVE  SoFar(t, hs, {}, t)
  <1>1. /\ t \in Seq(Characters) /\ Len(t) \in Nat /\ 1 \in 1 .. Len(t) + 1
        /\ 1 + Len(t) = Len(t) + 1
    BY TextIs
  <1>2. PICK v, d, e, K, O, C : /\ v = <<>> /\ d = 0 /\ e = {} /\ K = Marked(t, O, C)
                                /\ O = OpenedAt(t, hs, {}) /\ C = ClosedAt(t, hs, {})
    OBVIOUS
  <1>3. <<v, 1 + Len(t), d, e>> \in Marked(t, O, C)
    BY <1>1, <1>2, MarkedClosed DEF Closed
  <1>4. v \in Seq(Characters) /\ 1 + Len(t) <= Len(t) + 1
    BY <1>1, <1>2
  <1>5. \A j \in 1 .. Len(t) : t[j] = t[1 + j - 1]
    BY <1>1
  <1>6. <<Cat(t, v), 1, d, e \cup Bold(d, 1, Len(t))>> \in Marked(t, O, C)
    BY <1>1, <1>3, <1>4, <1>5, Prepend
  <1>7. Cat(t, v) = t
    BY <1>1, <1>2 DEF Cat
  <1>8. e \cup Bold(d, 1, Len(t)) = e
    BY <1>2 DEF Bold
  <1>9. /\ <<t, 1, 0, e>> \in Marked(t, OpenedAt(t, hs, {}), ClosedAt(t, hs, {}))
        /\ \A k \in e : \E i \in DOMAIN hs : k \in Inside(t, hs[i])
        /\ \A n \in {} : Apart(t, hs, n) => Inside(t, hs[n]) \subseteq e
    BY <1>2, <1>6, <1>7, <1>8
  <1> QED BY <1>9 DEF SoFar

\* The highlights applied before are as long, so that no tag of theirs is in a
\* match that crosses none of theirs.
LEMMA ApartIsAlone ==
  ASSUME NEW t \in Seq(TextCharacters), NEW hs, NEW a \in SUBSET DOMAIN hs, NEW n \in DOMAIN hs,
         \A m \in DOMAIN hs : PlainIn(t, hs[m]),
         \A m \in a : Len(hs[m]) >= Len(hs[n]), Apart(t, hs, n)
  PROVE  AloneIn(t, hs[n], OpenedAt(t, hs, a), ClosedAt(t, hs, a))
  <1> SUFFICES ASSUME NEW k \in Matches(t, hs[n]), NEW x \in k + 1 .. k + Len(hs[n]) - 1
               PROVE  /\ x \notin OpenedAt(t, hs, a) /\ x \notin ClosedAt(t, hs, a)
                      /\ x \notin Matches(t, hs[n])
    BY DEF AloneIn
  <1>1. Len(t) \in Nat /\ DOMAIN t = 1 .. Len(t)
    BY TextIs
  <1>2. \A m \in DOMAIN hs : /\ Len(hs[m]) \in Nat
                             /\ \A q \in Matches(t, hs[m]) : q \in Nat
    BY <1>1 DEF PlainIn, Matches
  <1>3. PICK l \in Nat : l = Len(hs[n])
    BY <1>2
  <1>4. k \in Nat /\ x \in Nat /\ k < x /\ x < k + l
    BY <1>2, <1>3
  <1>5. ASSUME NEW m \in DOMAIN hs, x \in Matches(t, hs[m]), Len(hs[m]) >= l PROVE FALSE
    <2>1. k + l < x + Len(hs[m])
      BY <1>2, <1>4, <1>5
    <2>2. Crossing(t, hs[n], hs[m])
      BY <1>3, <1>4, <1>5, <2>1 DEF Crossing
    <2> QED BY <2>2 DEF Apart
  <1>6. ASSUME NEW m \in DOMAIN hs, x \in MatchEnds(t, hs[m]), Len(hs[m]) >= l PROVE FALSE
    <2>1. PICK q \in Matches(t, hs[m]) : x = q + Len(hs[m])
      BY <1>6 DEF MatchEnds
    <2>2. q < k /\ k < q + Len(hs[m]) /\ q + Len(hs[m]) < k + l
      BY <1>2, <1>4, <1>6, <2>1
    <2>3. Crossing(t, hs[m], hs[n])
      BY <1>3, <2>2 DEF Crossing
    <2> QED BY <2>3 DEF Apart
  <1>7. x \notin OpenedAt(t, hs, a)
    BY <1>3, <1>5 DEF OpenedAt
  <1>8. x \notin ClosedAt(t, hs, a)
    BY <1>3, <1>6 DEF ClosedAt
  <1>9. x \notin Matches(t, hs[n])
    BY <1>3, <1>5
  <1> QED BY <1>7, <1>8, <1>9

LEMMA OneMoreHighlight ==
  ASSUME NEW t \in Seq(TextCharacters), NEW hs, NEW a \in SUBSET DOMAIN hs, NEW i \in DOMAIN hs,
         \A m \in DOMAIN hs : PlainIn(t, hs[m]),
         \A m \in a : Len(hs[m]) >= Len(hs[i]),
         NEW r, SoFar(t, hs, a, r)
  PROVE  SoFar(t, hs, a \cup {i}, ReplaceAll(r, hs[i], Tagged(hs[i])))
  <1>1. PICK O, C, h, r2 : /\ O = OpenedAt(t, hs, a) /\ C = ClosedAt(t, hs, a) /\ h = hs[i]
                           /\ r2 = ReplaceAll(r, h, Tagged(h))
    OBVIOUS
  <1>2. PICK b : /\ <<r, 1, 0, b>> \in Marked(t, O, C)
                 /\ \A k \in b : \E n \in DOMAIN hs : k \in Inside(t, hs[n])
                 /\ \A n \in a : Apart(t, hs, n) => Inside(t, hs[n]) \subseteq b
    BY <1>1 DEF SoFar
  <1>3. PlainIn(t, h)
    BY <1>1
  <1>4. Improved(t, h, O, C, r2, 1, 0, b)
    BY <1>1, <1>2, <1>3, ReplaceMarks
  <1>5. PICK e : /\ <<r2, 1, 0, e>> \in Marked(t, O \cup Matches(t, h), C \cup MatchEnds(t, h))
                 /\ b \subseteq e /\ e \subseteq b \cup Inside(t, h)
                 /\ AloneIn(t, h, O, C) =>
                      \A m \in Matches(t, h) : m >= 1 => m .. m + Len(h) - 1 \subseteq e
    BY <1>4 DEF Improved
  <1>6. /\ OpenedAt(t, hs, a \cup {i}) = O \cup Matches(t, h)
        /\ ClosedAt(t, hs, a \cup {i}) = C \cup MatchEnds(t, h)
    BY <1>1 DEF OpenedAt, ClosedAt
  <1>7. \A k \in e : \E n \in DOMAIN hs : k \in Inside(t, hs[n])
    BY <1>1, <1>2, <1>5
  <1>8. ASSUME NEW n \in a \cup {i}, Apart(t, hs, n)
        PROVE  Inside(t, hs[n]) \subseteq e
    <2>1. CASE n \in a
      BY <1>2, <1>5, <1>8, <2>1
    <2>2. CASE n = i
      <3>1. AloneIn(t, h, O, C)
        BY <1>1, <1>8, <2>2, ApartIsAlone
      <3>2. \A m \in Matches(t, h) : m >= 1
        BY TextIs DEF Matches
      <3>3. \A m \in Matches(t, h) : m .. m + Len(h) - 1 \subseteq e
        BY <1>5, <3>1, <3>2
      <3> QED BY <1>1, <2>2, <3>3 DEF Inside
    <2> QED BY <2>1, <2>2
  <1>9. <<r2, 1, 0, e>> \in Marked(t, OpenedAt(t, hs, a \cup {i}), ClosedAt(t, hs, a \cup {i}))
    BY <1>5, <1>6
  <1>10. SoFar(t, hs, a \cup {i}, r2)
    BY <1>7, <1>8, <1>9 DEF SoFar
  <1> QED BY <1>1, <1>10

-----------------------------------------------------------------------------
(* The theorems                                                            *)

LEMMA PlainTexts ==
  ASSUME TypeOK, PlainInput
  PROVE  /\ submitText \in Seq(TextCharacters)
         /\ \A n \in DOMAIN highlights :
              PlainIn(submitText, highlights[n]) /\ Trim(highlights[n]) = highlights[n]
  <1>1. submitText \in Seq(Characters) /\ highlights \in Seq(Seq(Characters))
    BY InputAssumption DEF TypeOK
  <1>2. submitText \in Seq(TextCharacters)
    <2>1. PICK n \in Nat : n = Len(submitText)
      BY <1>1
    <2>2. \A i \in 1 .. n : submitText[i] \in TextCharacters
      BY <1>1, <2>1 DEF PlainInput, TextCharacters
    <2>3. submitText \in [1 .. n -> TextCharacters]
      BY <1>1, <2>1, <2>2
    <2> QED BY <2>3
  <1>3. ASSUME NEW n \in DOMAIN highlights
        PROVE  PlainIn(submitText, highlights[n]) /\ Trim(highlights[n]) = highlights[n]
    <2>1. PICK h : h = highlights[n]
      OBVIOUS
    <2>2. h \in Seq(Characters) /\ Plain(h)
      BY <1>1, <2>1 DEF PlainInput
    <2>3. Len(h) \in Nat \ {0} /\ DOMAIN h = 1 .. Len(h)
      BY <2>2 DEF Plain
    <2>4. \A j \in 1 .. Len(h) : h[j] \notin {"<", "/", "b", ">"}
      BY <2>2, <2>3 DEF Plain
    <2>5. ASSUME NEW k \in Matches(submitText, h), NEW j \in 1 .. Len(h)
          PROVE  h[j] = submitText[k + j - 1]
      <3>1. SubSeq(submitText, k, k + Len(h) - 1) = h /\ k \in DOMAIN submitText
        BY <2>2 DEF Plain, Matches
      <3>2. k \in 1 .. Len(submitText) /\ k + Len(h) <= Len(submitText) + 1
        BY <1>1, <3>1, SMTT(30) DEF Matches, MatchAt
      <3>3. PICK l \in Nat : l = Len(h)
        BY <2>3
      <3>4. SubSeq(submitText, k, k + l - 1)[j] = submitText[k + j - 1]
        BY <1>1, <3>2, <3>3
      <3> QED BY <3>1, <3>3, <3>4
    <2>6. PlainIn(submitText, h)
      BY <2>2, <2>3, <2>4, <2>5 DEF PlainIn
    <2> QED BY <2>1, <2>2, <2>6 DEF Plain
  <1> QED BY <1>2, <1>3

\* Covered and Overlaps, by the matches in the submitted text.
LEMMA CoveredIs ==
  ASSUME NEW h, NEW k
  PROVE  Covered(h, k) <=> k \in Inside(submitText, h)
  BY DEF Covered, Inside, Matches

LEMMA OverlapsIs ==
  ASSUME NEW g, NEW h
  PROVE  Overlaps(g, h) <=> Crossing(submitText, g, h)
  BY DEF Overlaps, Crossing, Matches

HighlightInv ==
  PlainInput =>
    /\ LongestFirst(highlights, DOMAIN highlights \ left, left)
    /\ SoFar(submitText, highlights, DOMAIN highlights \ left, result)

LEMMA HighlightInvHolds == Spec => []HighlightInv
  <1>1. Init => HighlightInv
    <2> SUFFICES ASSUME Init, PlainInput
                 PROVE  /\ LongestFirst(highlights, DOMAIN highlights \ left, left)
                        /\ SoFar(submitText, highlights, DOMAIN highlights \ left, result)
      BY DEF HighlightInv
    <2>1. TypeOK
      BY InputAssumption DEF Init, TypeOK
    <2>2. DOMAIN highlights \ left = {} /\ result = submitText
      BY DEF Init
    <2>3. SoFar(submitText, highlights, {}, submitText)
      BY <2>1, PlainTexts, UnmarkedText
    <2> QED BY <2>2, <2>3 DEF LongestFirst
  <1>2. HighlightInv /\ TypeOK /\ [Next]_vars => HighlightInv'
    <2> SUFFICES ASSUME HighlightInv, TypeOK, [Next]_vars PROVE HighlightInv'
      OBVIOUS
    <2>1. ASSUME NEW i \in left, Apply(i) PROVE HighlightInv'
      <3>1. submitText' = submitText /\ highlights' = highlights /\ left' = left \ {i}
        BY <2>1 DEF Apply
      <3>2. PlainInput' => PlainInput
        BY <3>1 DEF PlainInput, Plain
      <3> SUFFICES ASSUME PlainInput
                   PROVE  /\ LongestFirst(highlights, DOMAIN highlights \ left', left')
                          /\ SoFar(submitText, highlights, DOMAIN highlights \ left', result')
        BY <3>1, <3>2 DEF HighlightInv
      <3>3. PICK a : a = DOMAIN highlights \ left
        OBVIOUS
      <3>4. DOMAIN highlights \ left' = a \cup {i} /\ i \in DOMAIN highlights /\ left' \subseteq left
            /\ a \in SUBSET DOMAIN highlights /\ left \subseteq DOMAIN highlights
        BY <3>1, <3>3 DEF TypeOK
      <3>5. /\ \A m \in a, n \in left : Len(highlights[m]) >= Len(highlights[n])
            /\ SoFar(submitText, highlights, a, result)
        BY <3>3 DEF HighlightInv, LongestFirst
      <3>6. /\ submitText \in Seq(TextCharacters)
            /\ \A n \in DOMAIN highlights : PlainIn(submitText, highlights[n])
            /\ Trim(highlights[i]) = highlights[i]
        BY <3>4, PlainTexts
      <3>7. \A n \in left : Len(highlights[i]) >= Len(highlights[n])
        <4>1. \A n \in DOMAIN highlights : Len(highlights[n]) \in Nat
          BY <3>6 DEF PlainIn
        <4>2. \A n \in left : Len(highlights[i]) > Len(highlights[n])
                              \/ Len(highlights[i]) = Len(highlights[n])
          BY <2>1 DEF Apply, IsNext
        <4> QED BY <3>4, <4>1, <4>2
      <3>8. LongestFirst(highlights, a \cup {i}, left')
        BY <3>4, <3>5, <3>7 DEF LongestFirst
      <3>9. result' = ReplaceAll(result, highlights[i], Tagged(highlights[i]))
        BY <2>1, <3>6 DEF Apply
      <3>10. \A m \in a : Len(highlights[m]) >= Len(highlights[i])
        BY <3>5
      <3>11. SoFar(submitText, highlights, a \cup {i}, result')
        BY <3>4, <3>5, <3>6, <3>9, <3>10, OneMoreHighlight
      <3> QED BY <3>4, <3>8, <3>11
    <2>2. CASE UNCHANGED vars
      BY <2>2 DEF HighlightInv, PlainInput, Plain, vars
    <2> QED BY <2>1, <2>2 DEF Next, Returned
  <1> QED BY <1>1, <1>2, HighlightTyped, PTL DEF Spec

\* With plain highlights the reader of the result sees the submitted text,
\* character by character, and in bold only what a highlight covers.
THEOREM TextIsKept == Spec => []TextSurvives
  <1>1. HighlightInv /\ TypeOK => TextSurvives
    <2> SUFFICES ASSUME HighlightInv, TypeOK, left = {}, PlainInput
                 PROVE  LET shown == Shown(result) IN
                        /\ [k \in DOMAIN shown |-> shown[k].char] = submitText
                        /\ \A k \in DOMAIN shown :
                             shown[k].bold => \E i \in DOMAIN highlights : Covered(highlights[i], k)
      BY DEF TextSurvives
    <2>1. PICK a : SoFar(submitText, highlights, a, result)
      BY DEF HighlightInv
    <2>2. PICK O, C, b : /\ <<result, 1, 0, b>> \in Marked(submitText, O, C)
                         /\ \A k \in b : \E i \in DOMAIN highlights :
                              k \in Inside(submitText, highlights[i])
      BY <2>1 DEF SoFar
    <2>3. PICK shown : shown = Shown(result)
      OBVIOUS
    <2>4. submitText \in Seq(TextCharacters)
      BY PlainTexts
    <2>5. /\ DOMAIN shown = 1 .. Len(submitText)
          /\ \A k \in 1 .. Len(submitText) : shown[k] = Glyph(submitText[k], k \in b)
      BY <2>2, <2>3, <2>4, MarkingShown
    <2>6. \A k \in 1 .. Len(submitText) : shown[k].char = submitText[k] /\ shown[k].bold = (k \in b)
      BY <2>5 DEF Glyph
    <2>7. [k \in DOMAIN shown |-> shown[k].char] = submitText
      <3>1. submitText = [k \in 1 .. Len(submitText) |-> submitText[k]]
        BY <2>4
      <3>2. [k \in DOMAIN shown |-> shown[k].char] = [k \in 1 .. Len(submitText) |-> submitText[k]]
        BY <2>5, <2>6
      <3> QED BY <3>1, <3>2
    <2>8. \A k \in DOMAIN shown :
            shown[k].bold => \E i \in DOMAIN highlights : Covered(highlights[i], k)
      BY <2>2, <2>5, <2>6, CoveredIs
    <2> QED BY <2>3, <2>7, <2>8
  <1> QED BY <1>1, HighlightInvHolds, HighlightTyped, PTL

\* With plain highlights, one that overlaps with no other (but may contain
\* others or lie in others) is bold in the result wherever the text has it.
THEOREM EveryMatchIsBold == Spec => []HighlightsAreBold
  <1>1. HighlightInv /\ TypeOK => HighlightsAreBold
    <2> SUFFICES ASSUME HighlightInv, TypeOK, left = {}, PlainInput, NEW n \in DOMAIN highlights,
                        \A m \in DOMAIN highlights :
                          /\ ~Overlaps(highlights[m], highlights[n])
                          /\ ~Overlaps(highlights[n], highlights[m]),
                        NEW k \in DOMAIN submitText, Covered(highlights[n], k)
                 PROVE  Shown(result)[k].bold
      BY DEF HighlightsAreBold
    <2>1. SoFar(submitText, highlights, DOMAIN highlights, result)
      BY DEF HighlightInv
    <2>2. PICK O, C, b : /\ <<result, 1, 0, b>> \in Marked(submitText, O, C)
                         /\ Apart(submitText, highlights, n)
                              => Inside(submitText, highlights[n]) \subseteq b
      BY <2>1 DEF SoFar
    <2>3. Apart(submitText, highlights, n)
      BY OverlapsIs DEF Apart
    <2>4. k \in b
      BY <2>2, <2>3, CoveredIs
    <2>5. submitText \in Seq(TextCharacters) /\ k \in 1 .. Len(submitText)
      BY PlainTexts
    <2>6. Shown(result)[k] = Glyph(submitText[k], k \in b)
      BY <2>2, <2>5, MarkingShown
    <2>7. Shown(result)[k].bold = (k \in b)
      BY <2>6 DEF Glyph
    <2> QED BY <2>4, <2>7
  <1> QED BY <1>1, HighlightInvHolds, HighlightTyped, PTL
=============================================================================
