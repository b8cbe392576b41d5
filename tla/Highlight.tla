------------------------------ MODULE Highlight ------------------------------
(***************************************************************************)
(* Submission.generateHighlightSubmitText: for each highlight of the       *)
(* verdict, the longest first, every match of it in the text so far is     *)
(* replaced by the highlight between <b> and </b>.  The text so far has    *)
(* the tags of earlier highlights in it, matches ignore case, and the      *)
(* highlight is trimmed in the pattern and not in the replacement.         *)
(*                                                                         *)
(* Texts and highlights are sequences of characters.  Highlights that are  *)
(* not strings are filtered out before, and those with a $ sequence, which *)
(* String.replace would interpret, are left out.                           *)
(***************************************************************************)
EXTENDS Naturals, Sequences, FiniteSets

CONSTANTS
  Texts,       \* texts that are submitted
  Verdicts     \* sequences of highlights that a verdict names

Characters == {"a", "A", "b", "c", " ", "<", "/", ">"}

ASSUME InputAssumption ==
  Texts \subseteq Seq(Characters) /\ Verdicts \subseteq Seq(Seq(Characters))

VARIABLES
  submitText, highlights,
  left,       \* the highlights that are still to be applied, by index
  result

vars == <<submitText, highlights, left, result>>

TypeOK ==
  /\ submitText \in Texts /\ highlights \in Verdicts
  /\ left \subseteq DOMAIN highlights
  /\ result \in Seq(Characters)

Init ==
  /\ submitText \in Texts
  /\ highlights \in Verdicts
  /\ left = DOMAIN highlights
  /\ result = submitText

-----------------------------------------------------------------------------
OpenTag == <<"<", "b", ">">>
CloseTag == <<"<", "/", "b", ">">>

Lower(c) == IF c = "A" THEN "a" ELSE c

Trim(h) ==
  LET solid == {i \in DOMAIN h : h[i] # " "} IN
  IF solid = {} THEN <<>>
  ELSE SubSeq(h, CHOOSE i \in solid : \A j \in solid : i <= j,
                 CHOOSE i \in solid : \A j \in solid : j <= i)

MatchAt(s, p, i) ==
  /\ i + Len(p) <= Len(s) + 1
  /\ \A k \in DOMAIN p : Lower(s[i + k - 1]) = Lower(p[k])

\* Variant: the search goes on one character after the start of a match.
ReplaceAll_Overlapping(s, p, new) ==
  LET from[i \in 1 .. Len(s) + 1] ==
        IF i > Len(s) THEN <<>>
        ELSE IF MatchAt(s, p, i) THEN new \o from[i + 1]
        ELSE <<s[i]>> \o from[i + 1]
  IN  from[1]

\* String.replace with the flags gi.  An empty pattern matches everywhere.
ReplaceAll(s, p, new) ==
  LET from[i \in 1 .. Len(s) + 1] ==
        IF p = <<>> THEN new \o (IF i > Len(s) THEN <<>> ELSE <<s[i]>> \o from[i + 1])
        ELSE IF i > Len(s) THEN <<>>
        ELSE IF MatchAt(s, p, i) THEN new \o from[i + Len(p)]
        ELSE <<s[i]>> \o from[i + 1]
  IN  from[1]

Tagged(h) == OpenTag \o h \o CloseTag

\* Variant: the shortest first.
IsNext_Shortest(i) ==
  \A j \in left : Len(highlights[i]) < Len(highlights[j])
                  \/ (Len(highlights[i]) = Len(highlights[j]) /\ i <= j)

\* The sort by descending length is stable.
IsNext(i) ==
  \A j \in left : Len(highlights[i]) > Len(highlights[j])
                  \/ (Len(highlights[i]) = Len(highlights[j]) /\ i <= j)

Apply(i) ==
  /\ i \in left /\ IsNext(i)
  /\ result' = ReplaceAll(result, Trim(highlights[i]), Tagged(highlights[i]))
  /\ left' = left \ {i}
  /\ UNCHANGED <<submitText, highlights>>

Returned == left = {} /\ UNCHANGED vars

Next == (\E i \in left : Apply(i)) \/ Returned

Spec == Init /\ [][Next]_vars

-----------------------------------------------------------------------------
(* Properties                                                              *)

\* The highlights the code is made for: trimmed, not empty, spelled as in the
\* text, without a character of the tags.
Plain(h) ==
  /\ h # <<>> /\ Trim(h) = h
  /\ \A k \in DOMAIN h : h[k] \notin {"<", "/", "b", ">"}
  /\ \A i \in DOMAIN submitText :
       MatchAt(submitText, h, i) => SubSeq(submitText, i, i + Len(h) - 1) = h

PlainInput ==
  /\ \A i \in DOMAIN highlights : Plain(highlights[i])
  /\ \A i \in DOMAIN submitText : submitText[i] \notin {"<", "/", ">"}

IsAt(s, tag, i) == i + Len(tag) <= Len(s) + 1 /\ SubSeq(s, i, i + Len(tag) - 1) = tag

\* What a browser shows of s from a position on: characters with the depth of
\* their tags.  A closing tag too many leaves the depth at 0.
Shown(s) ==
  LET from[x \in (1 .. Len(s) + 1) \X Nat] ==
        LET i == x[1]
            depth == x[2]
        IN  IF i > Len(s) THEN <<>>
            ELSE IF IsAt(s, OpenTag, i) THEN from[<<i + Len(OpenTag), depth + 1>>]
            ELSE IF IsAt(s, CloseTag, i)
              THEN from[<<i + Len(CloseTag), IF depth = 0 THEN 0 ELSE depth - 1>>]
            ELSE <<[char |-> s[i], bold |-> depth > 0]>> \o from[<<i + 1, depth>>]
  IN  from[<<1, 0>>]

Covered(h, k) ==
  \E i \in DOMAIN submitText : MatchAt(submitText, h, i) /\ k \in i .. i + Len(h) - 1

\* With plain highlights the reader sees the submitted text, and in bold only
\* what some highlight covers.
TextSurvives ==
  left = {} /\ PlainInput =>
    LET shown == Shown(result) IN
    /\ [k \in DOMAIN shown |-> shown[k].char] = submitText
    /\ \A k \in DOMAIN shown :
         shown[k].bold => \E i \in DOMAIN highlights : Covered(highlights[i], k)

\* A highlight that overlaps with no other of the text, but may contain others
\* or be contained, is bold from its first to its last character.
Overlaps(g, h) ==
  \E i, j \in DOMAIN submitText :
    /\ MatchAt(submitText, g, i) /\ MatchAt(submitText, h, j)
    /\ i < j /\ j < i + Len(g) /\ i + Len(g) < j + Len(h)

HighlightsAreBold ==
  left = {} /\ PlainInput =>
    \A n \in DOMAIN highlights :
      LET h == highlights[n] IN
      (\A m \in DOMAIN highlights : ~Overlaps(highlights[m], h) /\ ~Overlaps(h, highlights[m])) =>
        \A k \in DOMAIN submitText : Covered(h, k) => Shown(result)[k].bold
=============================================================================
