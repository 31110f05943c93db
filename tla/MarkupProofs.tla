---------------------------- MODULE MarkupProofs ----------------------------
(***************************************************************************)
(* Proofs about Markup, for any pages, however they are put together, and  *)
(* any thresholds.                                                         *)
(***************************************************************************)
EXTENDS Markup, Induction, SequenceTheorems

(***************************************************************************)
(* What the scanner finds.                                                 *)
(***************************************************************************)
LEMMA FirstOf ==
    ASSUME NEW S \in SUBSET (Nat \ {0})
    PROVE  /\ First(S) \in Nat
           /\ First(S) = 0 <=> S = {}
           /\ S # {} => First(S) \in S /\ \A k \in S : First(S) <= k
<1>1. CASE S = {}
  BY <1>1 DEF First
<1>2. CASE S # {}
  <2>1. S \in SUBSET Nat
    OBVIOUS
  <2>2. Min(S) \in S /\ \A k \in S : Min(S) <= k
    BY <1>2, <2>1, MinOf
  <2> QED BY <1>2, <2>2 DEF First
<1> QED BY <1>1, <1>2

\* A chain of jumps to the right ends: there is a function that follows it.
Follows(u, L, jump, val) == u = [i \in 1 .. L |-> IF jump[i] = 0 THEN val[i] ELSE u[jump[i]]]

LEMMA JumpsExist ==
    ASSUME NEW L \in Nat, NEW jump, NEW val,
           \A i \in 1 .. L : jump[i] # 0 => jump[i] \in i + 1 .. L
    PROVE  \E u : Follows(u, L, jump, val)
<1> DEFINE Is1(u, n) == u = [i \in L - n + 1 .. L |->
                                IF jump[i] = 0 THEN val[i] ELSE u[jump[i]]]
           S == {n \in Nat : n <= L => \E u : Is1(u, n)}
<1>1. 0 \in S
  <2> DEFINE u == [i \in {} |-> 0]
  <2>1. L - 0 + 1 .. L = {}
    OBVIOUS
  <2>2. Is1(u, 0)
    BY <2>1
  <2> HIDE DEF u, Is1
  <2> QED BY <2>2
<1>2. ASSUME NEW n \in Nat, n \in S PROVE n + 1 \in S
  <2> SUFFICES ASSUME n + 1 <= L PROVE \E u : Is1(u, n + 1)
    OBVIOUS
  <2>1. PICK u : Is1(u, n)
    BY <1>2
  <2> DEFINE step(i, w) == IF jump[i] = 0 THEN val[i] ELSE w[jump[i]]
             v == [i \in L - (n + 1) + 1 .. L |-> IF i = L - n THEN step(i, u) ELSE u[i]]
             w == [i \in L - (n + 1) + 1 .. L |-> step(i, v)]
  <2>2. ASSUME NEW i \in L - (n + 1) + 1 .. L PROVE v[i] = w[i]
    <3>1. i \in 1 .. L /\ i >= L - n
      OBVIOUS
    <3>2. jump[i] # 0 => /\ jump[i] \in L - n + 1 .. L /\ jump[i] # L - n
                         /\ jump[i] \in L - (n + 1) + 1 .. L
      BY <3>1
    <3>3. jump[i] # 0 => v[jump[i]] = u[jump[i]]
      BY <3>2
    <3>4. step(i, v) = step(i, u)
      BY <3>3
    <3>5. i # L - n => i \in L - n + 1 .. L
      BY <3>1
    <3>6. i # L - n => u[i] = step(i, u)
      BY <2>1, <3>5
    <3>7. v[i] = step(i, u)
      BY <3>6
    <3>8. w[i] = step(i, v)
      OBVIOUS
    <3> QED BY <3>4, <3>7, <3>8
  <2>3. v = w
    <3> HIDE DEF step
    <3> QED BY <2>2
  <2>4. Is1(v, n + 1)
    BY <2>3
  <2> HIDE DEF v, Is1
  <2> QED BY <2>4
<1>3. L \in S
  <2> HIDE DEF S
  <2> QED BY <1>1, <1>2, SetInduction
<1>4. PICK u : Is1(u, L)
  BY <1>3
<1>5. L - L + 1 = 1
  OBVIOUS
<1> QED BY <1>4, <1>5 DEF Follows

\* A quote ends or begins what is quoted.
LEMMA QuoteTurns ==
    ASSUME NEW a \in Nat, NEW k \in Nat, a <= k, Is(k, "quote")
    PROVE  quoted(a, k + 1) <=> ~quoted(a, k)
<1> DEFINE S == {j \in a .. k - 1 : Is(j, "quote")}
           T == {j \in a .. (k + 1) - 1 : Is(j, "quote")}
           n == Cardinality(S)
<1>1. T = S \cup {k} /\ k \notin S
  OBVIOUS
<1>2. IsFiniteSet(S)
  <2>1. S \subseteq a .. k - 1 /\ IsFiniteSet(a .. k - 1)
    BY FS_Interval
  <2> QED BY <2>1, FS_Subset
<1>3. n \in Nat /\ Cardinality(T) = n + 1
  BY <1>1, <1>2, FS_AddElement, FS_CardinalityType
<1>4. (n + 1) % 2 = 1 <=> ~(n % 2 = 1)
  <2> HIDE DEF n
  <2> QED BY <1>3
<1> QED BY <1>3, <1>4 DEF quoted

\* Nothing else does.
LEMMA QuoteStays ==
    ASSUME NEW a \in Nat, NEW c \in Nat, NEW k \in Nat, a <= c, c <= k,
           \A j \in c .. k - 1 : ~Is(j, "quote")
    PROVE  quoted(a, k) <=> quoted(a, c)
<1>1. {j \in a .. k - 1 : Is(j, "quote")} = {j \in a .. c - 1 : Is(j, "quote")}
  OBVIOUS
<1> QED BY <1>1 DEF quoted

\* The first symbol of S behind j, or 0.
Behind(j, S) == First({k \in From(j + 1) : input[k] \in S})

LEMMA BehindFinds ==
    ASSUME Len(input) \in Nat, NEW j \in Nat, NEW S
    PROVE  /\ Behind(j, S) \in Nat
           /\ Behind(j, S) = 0 => \A k \in j + 1 .. Len(input) : input[k] \notin S
           /\ Behind(j, S) # 0 =>
                /\ Behind(j, S) \in j + 1 .. Len(input) /\ input[Behind(j, S)] \in S
                /\ \A k \in j + 1 .. Behind(j, S) - 1 : input[k] \notin S
<1> DEFINE T == {k \in From(j + 1) : input[k] \in S}
           L == Len(input)
<1>1. T = {k \in j + 1 .. L : input[k] \in S}
  BY DEF From
<1>2. T \in SUBSET (Nat \ {0})
  BY <1>1
<1>3. Behind(j, S) = First(T)
  BY DEF Behind
<1> HIDE DEF T, L
<1>4. /\ First(T) \in Nat
      /\ First(T) = 0 <=> T = {}
      /\ T # {} => First(T) \in T /\ \A k \in T : First(T) <= k
  BY <1>2, FirstOf
<1>5. L \in Nat
  BY DEF L
<1>6. ASSUME First(T) # 0
      PROVE  /\ First(T) \in j + 1 .. L /\ input[First(T)] \in S
             /\ \A k \in j + 1 .. First(T) - 1 : input[k] \notin S
  <2>1. First(T) \in T
    BY <1>4, <1>6
  <2>2. First(T) \in j + 1 .. L /\ input[First(T)] \in S
    BY <2>1, <1>1
  <2>3. ASSUME NEW k \in j + 1 .. First(T) - 1, input[k] \in S PROVE FALSE
    <3>1. k \in T
      BY <2>2, <2>3, <1>1, <1>5
    <3> QED BY <3>1, <1>4, <2>2
  <2> QED BY <2>2, <2>3
<1>7. First(T) = 0 => \A k \in j + 1 .. L : input[k] \notin S
  BY <1>1, <1>4
<1> QED BY <1>3, <1>4, <1>6, <1>7 DEF L

\* How find_tag_end goes on.
LEMMA TagEndStep ==
    ASSUME Len(input) \in Nat, NEW last \in 1 .. Len(input)
    PROVE  LET k == Behind(last, {">", "quote"})
               close == Behind(k, {"quote"})
           IN  find_tag_end(last) =
                 IF k = 0 \/ k - last - 1 > UNQUOTED_TAG_WINDOW THEN 0
                 ELSE IF input[k] = ">" THEN k
                 ELSE IF close = 0 THEN 0
                 ELSE find_tag_end(close)
<1> DEFINE L == Len(input)
           kk(i) == Behind(i, {">", "quote"})
           cl(i) == Behind(kk(i), {"quote"})
           end == CHOOSE end : end = [i \in 1 .. L |->
                     IF kk(i) = 0 \/ kk(i) - i - 1 > UNQUOTED_TAG_WINDOW THEN 0
                     ELSE IF input[kk(i)] = ">" THEN kk(i)
                     ELSE IF cl(i) = 0 THEN 0
                     ELSE end[cl(i)]]
           stop(i) == \/ kk(i) = 0 \/ kk(i) - i - 1 > UNQUOTED_TAG_WINDOW
                      \/ input[kk(i)] = ">" \/ cl(i) = 0
           jump == [i \in 1 .. L |-> IF stop(i) THEN 0 ELSE cl(i)]
           val == [i \in 1 .. L |-> IF kk(i) = 0 \/ kk(i) - i - 1 > UNQUOTED_TAG_WINDOW THEN 0
                                     ELSE IF input[kk(i)] = ">" THEN kk(i) ELSE 0]
<1>1. \A i : find_tag_end(i) = end[i]
  BY DEF find_tag_end, Behind
<1>2. ASSUME NEW i \in 1 .. L, jump[i] # 0 PROVE jump[i] \in i + 1 .. L
  <2>1. kk(i) # 0 /\ cl(i) # 0 /\ jump[i] = cl(i)
    BY <1>2
  <2>2. kk(i) \in i + 1 .. L
    BY <2>1, BehindFinds
  <2>3. kk(i) \in Nat
    BY <2>2
  <2>4. cl(i) \in kk(i) + 1 .. L
    BY <2>1, <2>3, BehindFinds
  <2> HIDE DEF kk, cl, jump
  <2> QED BY <2>1, <2>2, <2>4
<1> HIDE DEF kk, cl
<1>3. PICK u : Follows(u, L, jump, val)
  <2>1. L \in Nat
    OBVIOUS
  <2> HIDE DEF jump, val, L
  <2>2. \A i \in 1 .. L : jump[i] # 0 => jump[i] \in i + 1 .. L
    BY <1>2
  <2> QED BY ONLY <2>1, <2>2, JumpsExist
<1> DEFINE body(v) == [i \in 1 .. L |->
                     IF kk(i) = 0 \/ kk(i) - i - 1 > UNQUOTED_TAG_WINDOW THEN 0
                     ELSE IF input[kk(i)] = ">" THEN kk(i)
                     ELSE IF cl(i) = 0 THEN 0
                     ELSE v[cl(i)]]
           short(v) == [i \in 1 .. L |-> IF jump[i] = 0 THEN val[i] ELSE v[jump[i]]]
<1>4. body(u) = short(u)
  <2>1. ASSUME NEW i \in 1 .. L PROVE body(u)[i] = short(u)[i]
    <3>1. CASE stop(i)
      BY <3>1
    <3>2. CASE ~stop(i)
      <4>1. jump[i] = cl(i) /\ jump[i] # 0
        BY <3>2
      <4> QED BY <3>2, <4>1
    <3> QED BY <3>1, <3>2
  <2> QED BY <2>1
<1>5. u = body(u)
  BY <1>3, <1>4 DEF Follows
<1>6. end = body(end)
  <2>1. \E v : v = body(v)
    BY <1>5
  <2> QED BY ONLY <2>1, Zenon
<1> HIDE DEF end
<1>7. end[last] = body(end)[last]
  BY <1>6
<1> QED BY <1>1, <1>7 DEF kk, cl

\* The end of a tag is found, whatever it quotes.  Every place the search goes
\* on at has an even number of quotes up to it, by induction from the end.
LEMMA TagEnd ==
    ASSUME Len(input) \in Nat, NEW a, NEW b, IsTag(a, b)
    PROVE  find_tag_end(a) = b
<1> USE MarkupAssumption
<1> DEFINE L == Len(input)
           W == UNQUOTED_TAG_WINDOW
           Even(c) == ~quoted(a, c + 1)
           S == {n \in Nat : \A c \in a .. b - 1 : b - c <= n /\ Even(c) => find_tag_end(c) = b}
<1>1. a \in 1 .. L /\ b \in 1 .. L /\ a < b
  BY DEF IsTag, Is
<1>2. 0 \in S
  BY <1>1
<1>3. ASSUME NEW n \in Nat, n \in S PROVE n + 1 \in S
  <2> SUFFICES ASSUME NEW c \in a .. b - 1, b - c <= n + 1, Even(c)
               PROVE  find_tag_end(c) = b
    OBVIOUS
  <2> DEFINE k == Behind(c, {">", "quote"})
             q == Behind(k, {"quote"})
  <2>1. c \in 1 .. L /\ c \in Nat /\ b \in c + 1 .. L /\ a \in Nat /\ b \in Nat /\ W \in Nat
    BY <1>1
  <2>2. input[b] = ">"
    BY DEF IsTag, Is
  <2>3. k \in c + 1 .. b /\ input[k] \in {">", "quote"}
        /\ \A j \in c + 1 .. k - 1 : input[j] \notin {">", "quote"}
    <3>1. k # 0
      BY <2>1, <2>2, BehindFinds
    <3>2. /\ k \in c + 1 .. L /\ input[k] \in {">", "quote"}
          /\ \A j \in c + 1 .. k - 1 : input[j] \notin {">", "quote"}
      BY <2>1, <3>1, BehindFinds
    <3> HIDE DEF k
    <3>3. k <= b
      BY <2>1, <2>2, <3>2
    <3> QED BY <3>2, <3>3, <2>1
  <2> HIDE DEF k
  <2>4. ASSUME NEW j \in c + 1 .. k PROVE ~quoted(a, j)
    <3>1. \A i \in c + 1 .. j - 1 : ~Is(i, "quote")
      BY <2>1, <2>3 DEF Is
    <3>2. a <= c + 1 /\ c + 1 <= j /\ c + 1 \in Nat /\ j \in Nat
      BY <2>1, <2>3
    <3> QED BY <2>1, <3>1, <3>2, QuoteStays
  <2>5. k - c - 1 <= W
    <3> SUFFICES ASSUME k - c - 1 > W PROVE FALSE
      BY <2>1, <2>3
    <3>1. c + 1 \in a + 1 .. b - 1 /\ c + 1 + W < b
      BY <2>1, <2>3
    <3>2. PICK j \in c + 1 .. c + 1 + W : Is(j, "quote") \/ quoted(a, j)
      BY <3>1 DEF IsTag
    <3>3. j \in c + 1 .. k - 1 /\ j \in c + 1 .. k
      BY <2>1, <2>3, <3>2
    <3> QED BY <3>2, <3>3, <2>3, <2>4 DEF Is
  <2>6. find_tag_end(c) = IF input[k] = ">" THEN k ELSE IF q = 0 THEN 0 ELSE find_tag_end(q)
    <3>1. ~(k = 0 \/ k - c - 1 > W)
      BY <2>1, <2>3, <2>5
    <3> QED BY <2>1, <3>1, TagEndStep DEF k
  <2>7. CASE input[k] = ">"
    <3>1. ~quoted(a, k)
      BY <2>3, <2>4
    <3>2. Is(k, ">")
      BY <2>1, <2>3, <2>7 DEF Is
    <3>3. ~(k \in a + 1 .. b - 1)
      BY <3>1, <3>2 DEF IsTag
    <3>4. k = b
      BY <3>3, <2>1, <2>3
    <3> QED BY <3>4, <2>6, <2>7
  <2>8. CASE input[k] = "quote"
    <3>1. k < b /\ k \in Nat /\ a <= k /\ Is(k, "quote") /\ k + 1 \in Nat
      BY <2>1, <2>2, <2>3, <2>8 DEF Is
    <3>2. quoted(a, k + 1)
      <4>1. ~quoted(a, k)
        BY <2>3, <2>4
      <4> QED BY <2>1, <3>1, <4>1, QuoteTurns
    <3>3. PICK i \in k + 1 .. b - 1 : Is(i, "quote")
      <4> SUFFICES ASSUME \A i \in k + 1 .. b - 1 : ~Is(i, "quote") PROVE FALSE
        OBVIOUS
      <4>1. quoted(a, b) <=> quoted(a, k + 1)
        BY <2>1, <3>1, QuoteStays
      <4> QED BY <4>1, <3>2 DEF IsTag
    <3>4. i \in k + 1 .. L /\ input[i] \in {"quote"}
      BY <3>3, <3>1, <2>1 DEF Is
    <3>5. q # 0
      BY <3>1, <3>4, BehindFinds
    <3>6. /\ q \in k + 1 .. L /\ input[q] = "quote"
          /\ \A j \in k + 1 .. q - 1 : input[j] # "quote"
      BY <3>1, <3>5, BehindFinds
    <3> HIDE DEF q
    <3>7. q <= i /\ q \in Nat /\ q \in a .. b - 1 /\ b - q <= n
      BY <3>1, <3>3, <3>4, <3>6, <2>1, <2>3
    <3>8. quoted(a, q)
      <4>1. \A j \in k + 1 .. q - 1 : ~Is(j, "quote")
        BY <3>6 DEF Is
      <4>2. a <= k + 1 /\ k + 1 <= q
        BY <3>1, <3>6, <2>1
      <4> QED BY <4>1, <4>2, <3>1, <3>2, <3>7, <2>1, QuoteStays
    <3>9. Even(q)
      <4>1. Is(q, "quote") /\ a <= q
        BY <3>6, <3>7, <3>1, <2>1 DEF Is
      <4> QED BY <4>1, <3>7, <3>8, <2>1, QuoteTurns
    <3>10. find_tag_end(q) = b
      BY <1>3, <3>7, <3>9
    <3> QED BY <2>6, <2>8, <3>5, <3>10
  <2> QED BY <2>3, <2>7, <2>8
<1>4. Nat \subseteq S
  <2> HIDE DEF S
  <2> QED BY <1>2, <1>3, SetInduction
<1>5. Even(a)
  <2>1. {j \in a .. (a + 1) - 1 : Is(j, "quote")} = {}
    BY <1>1 DEF IsTag, Is
  <2>2. Cardinality({}) = 0
    BY FS_EmptySet
  <2>3. 0 % 2 # 1
    OBVIOUS
  <2> QED BY <2>1, <2>2, <2>3 DEF quoted
<1>6. b - a \in S /\ a \in a .. b - 1
  <2>1. b - a \in Nat /\ a \in a .. b - 1
    BY <1>1
  <2> HIDE DEF S
  <2> QED BY <1>4, <2>1
<1> HIDE DEF Even
<1> QED BY <1>1, <1>5, <1>6

LEMMA CommentEnd ==
    ASSUME Len(input) \in Nat, NEW a, NEW b, IsComment(a, b)
    PROVE  comment_end(a) = b - 1 /\ b - 1 \in Nat \ {0}
<1> DEFINE T == {j \in From(a + 3) : input[j] = "--" /\ Is(j + 1, ">")}
<1>1. a \in Nat /\ b \in Nat /\ b > a + 3 /\ b - 1 \in 1 .. Len(input)
  BY DEF IsComment, comment_at, Is
<1>2. T \in SUBSET (Nat \ {0})
  BY DEF From
<1>3. b - 1 \in T
  <2>1. b - 1 + 1 = b /\ b - 1 >= a + 3
    BY <1>1
  <2> QED BY <1>1, <2>1 DEF IsComment, Is, From
<1>4. ASSUME NEW j \in T PROVE j >= b - 1
  <2>1. j \in 1 .. Len(input) /\ j >= a + 3 /\ Is(j, "--") /\ Is(j + 1, ">")
    BY DEF From, Is
  <2>2. j \notin a + 3 .. b - 2
    BY <2>1 DEF IsComment
  <2> QED BY <1>1, <2>1, <2>2
<1>5. comment_end(a) = First(T)
  BY DEF comment_end
<1> HIDE DEF T
<1>6. First(T) \in T /\ First(T) <= b - 1
  BY <1>2, <1>3, FirstOf
<1>7. First(T) >= b - 1 /\ First(T) \in Nat
  BY <1>2, <1>4, <1>6
<1> QED BY <1>1, <1>5, <1>6, <1>7

LEMMA RawEnd ==
    ASSUME Len(input) \in Nat, NEW p \in Pieces, IsRaw(p), at = p.from
    PROVE  raw_end(p.name) = p.to /\ find_tag_end(at) # 0
<1>1. PICK a \in p.from + 1 .. p.to, c \in p.from + 1 .. p.to :
        /\ IsTag(p.from, a) /\ a < c /\ named_closing_tag_at(c, p.name) /\ IsTag(c, p.to)
        /\ \A j \in a + 1 .. c - 1 : ~named_closing_tag_at(j, p.name)
  BY DEF IsRaw
<1>2. find_tag_end(at) = a /\ find_tag_end(c) = p.to
  BY <1>1, TagEnd
<1>3. p.from \in Nat /\ p.to \in Nat
  BY DEF Pieces
<1>4. a \in Nat \ {0} /\ c \in 1 .. Len(input)
  BY <1>1, <1>3 DEF IsTag, Is
<1> DEFINE T == {j \in From(a + 1) : named_closing_tag_at(j, p.name)}
<1>5. c \in T
  BY <1>1, <1>4 DEF From
<1>6. ASSUME NEW j \in T PROVE j >= c
  <2>1. j \in 1 .. Len(input) /\ j >= a + 1 /\ named_closing_tag_at(j, p.name)
    BY DEF From
  <2> QED BY <1>1, <1>4, <2>1
<1>7. T \in SUBSET (Nat \ {0})
  BY DEF From
<1>8. find_closing_tag(a + 1, p.name) = First(T)
  BY DEF find_closing_tag
<1> HIDE DEF T
<1>9. First(T) = c
  <2>1. First(T) \in T /\ First(T) <= c
    BY <1>5, <1>7, FirstOf
  <2>2. First(T) >= c /\ First(T) \in Nat
    BY <1>6, <1>7, <2>1
  <2> QED BY <1>4, <2>1, <2>2
<1>10. c # 0
  BY <1>4
<1> QED BY <1>2, <1>4, <1>8, <1>9, <1>10 DEF raw_end

\* What the scanner makes of a whole piece it stands before.
LEMMA Reads ==
    ASSUME page \in PageType, NEW p \in Pieces, Whole(p), at = p.from
    PROVE  /\ p.kind = "text" => ~comment_at(at) /\ ~AtTag
           /\ p.kind = "comment" =>
                comment_at(at) /\ comment_end(at) # 0 /\ comment_end(at) + 1 = p.to
           /\ p.kind = "tag" =>
                ~comment_at(at) /\ AtTag /\ ~AtRaw /\ find_tag_end(at) = p.to
           /\ p.kind = "raw" => ~comment_at(at) /\ AtRaw /\ raw_end(input[at + 1]) = p.to
<1>1. Len(input) \in Nat /\ p.from \in Nat
  BY DEF PageType, input, Pieces
<1>2. ASSUME p.kind = "text" PROVE ~comment_at(at) /\ ~AtTag
  <2>1. IsText(at)
    BY <1>2 DEF Whole
  <2> QED BY <2>1, <1>1 DEF IsText, comment_at, AtTag, starts_tag, IsOneOf, Is
<1>3. ASSUME p.kind = "comment"
      PROVE  comment_at(at) /\ comment_end(at) # 0 /\ comment_end(at) + 1 = p.to
  <2>1. IsComment(at, p.to)
    BY <1>3 DEF Whole
  <2>2. comment_end(at) = p.to - 1 /\ p.to - 1 \in Nat \ {0} /\ p.to \in Nat
    BY <1>1, <2>1, CommentEnd DEF Pieces
  <2> QED BY <2>1, <2>2 DEF IsComment
<1>4. ASSUME p.kind = "tag"
      PROVE  ~comment_at(at) /\ AtTag /\ ~AtRaw /\ find_tag_end(at) = p.to
  <2>1. IsTag(at, p.to) /\ IsWritten(p)
    BY <1>4 DEF Whole
  <2>2. find_tag_end(at) = p.to
    BY <1>1, <2>1, TagEnd
  <2>3. Is(at, "<")
    BY <2>1 DEF IsTag
  <2> DEFINE N1 == at + 1
             N2 == at + 2
  <2>4. CASE p.form = "close"
    <3>1. Is(N1, "/")
      BY <2>1, <2>4 DEF IsWritten
    <3>2. starts_tag(N1) /\ ~Is(N1, "!") /\ \A name \in RAW_TAGS : ~Is(N1, name)
      BY <3>1 DEF starts_tag, IsOneOf, Is, RAW_TAGS
    <3> QED BY <2>2, <2>3, <3>2 DEF AtTag, AtRaw, comment_at, named_opening_tag_at
  <2>5. CASE p.form # "close"
    <3>1. /\ Is(N1, p.name)
          /\ p.name \in Names \/ (p.name = "!" /\ ~Is(N1 + 1, "--"))
          /\ p.name \notin RAW_TAGS
      BY <2>1, <2>5 DEF IsWritten
    <3>2. N1 + 1 = N2
      BY <1>1
    <3>3. starts_tag(N1)
      BY <3>1 DEF starts_tag, IsOneOf, Is
    <3>4. ~(Is(N1, "!") /\ Is(N2, "--"))
      <4>1. "!" \notin Names
        BY DEF Names, HTML_TAGS, BLOCK_TAGS, PRE_TAGS
      <4> QED BY <3>1, <3>2, <4>1 DEF Is
    <3>5. \A name \in RAW_TAGS : ~Is(N1, name)
      BY <3>1 DEF Is
    <3> HIDE DEF N1, N2
    <3> QED BY <2>2, <2>3, <3>3, <3>4, <3>5
            DEF AtTag, AtRaw, comment_at, named_opening_tag_at, N1, N2
  <2> QED BY <2>4, <2>5
<1>5. ASSUME p.kind = "raw"
      PROVE  ~comment_at(at) /\ AtRaw /\ raw_end(input[at + 1]) = p.to
  <2>1. IsRaw(p)
    BY <1>5 DEF Whole
  <2>2. raw_end(p.name) = p.to /\ find_tag_end(at) # 0
    BY <1>1, <2>1, RawEnd
  <2>3. p.name \in RAW_TAGS /\ named_opening_tag_at(at, p.name)
    BY <2>1 DEF IsRaw
  <2>4. Is(at, "<") /\ Is(at + 1, p.name) /\ input[at + 1] = p.name
    BY <2>3 DEF named_opening_tag_at, Is
  <2>5. starts_tag(at + 1) /\ ~Is(at + 1, "!")
    BY <2>3, <2>4 DEF starts_tag, IsOneOf, Is, RAW_TAGS, Names, HTML_TAGS
  <2> QED BY <2>2, <2>3, <2>4, <2>5 DEF AtTag, AtRaw, comment_at
<1> QED BY <1>2, <1>3, <1>4, <1>5

(***************************************************************************)
(* The page.                                                               *)
(***************************************************************************)
LEMMA MaxTwo ==
    ASSUME NEW a \in Int, NEW b \in Int
    PROVE  Max({a, b}) = IF a >= b THEN a ELSE b
<1> DEFINE m == IF a >= b THEN a ELSE b
<1>1. m \in {a, b} /\ \A x \in {a, b} : m >= x
  OBVIOUS
<1>2. \A y \in {a, b} : (\A x \in {a, b} : y >= x) => y = m
  OBVIOUS
<1> QED BY <1>1, <1>2 DEF Max

\* Pieces follow each other.
LEMMA Ordered ==
    ASSUME page \in PageType, AllWhole
    PROVE  \A k \in 0 .. Len(page.pieces) :
             /\ End(k) \in Nat
             /\ \A j \in 0 .. k : End(j) <= End(k)
             /\ \A j \in 0 .. k - 1 : End(j) < Piece(k).from
<1> DEFINE n == Len(page.pieces)
           P(k) == /\ End(k) \in Nat
                   /\ \A j \in 0 .. k : End(j) <= End(k)
                   /\ \A j \in 0 .. k - 1 : End(j) < Piece(k).from
           S == {k \in Nat : k <= n => P(k)}
<1>1. n \in Nat /\ DOMAIN page.pieces = 1 .. n
      /\ \A k \in 1 .. n : Piece(k).from \in Nat /\ Piece(k).to \in Nat
  <2>1. page.pieces \in Seq(Pieces)
    BY DEF PageType
  <2>2. n \in Nat /\ DOMAIN page.pieces = 1 .. n /\ \A k \in 1 .. n : Piece(k) \in Pieces
    BY <2>1 DEF Piece
  <2> QED BY <2>2 DEF Pieces
<1>2. 0 \in S
  BY DEF End
<1>3. ASSUME NEW k \in Nat, k \in S PROVE k + 1 \in S
  <2> SUFFICES ASSUME k + 1 <= n PROVE P(k + 1)
    OBVIOUS
  <2>1. P(k) /\ k + 1 \in 1 .. n
    BY <1>1, <1>3
  <2>2. Piece(k + 1).from = End((k + 1) - 1) + 1 /\ Piece(k + 1).from <= Piece(k + 1).to
    BY <1>1, <2>1 DEF AllWhole
  <2>3. End(k + 1) = Piece(k + 1).to /\ (k + 1) - 1 = k
    BY DEF End
  <2>4. Piece(k + 1).from = End(k) + 1 /\ End(k + 1) > End(k) /\ End(k + 1) \in Nat
    BY <1>1, <2>1, <2>2, <2>3
  <2>5. ASSUME NEW j \in 0 .. k + 1 PROVE End(j) <= End(k + 1)
    <3>1. CASE j = k + 1
      BY <3>1, <2>4
    <3>2. CASE j # k + 1
      <4>1. j \in 0 .. k
        BY <3>2
      <4>2. j \in 0 .. n /\ End(j) <= End(k)
        BY <2>1, <4>1, <1>1
      <4>3. End(j) \in Nat
        BY <1>1, <4>2 DEF End
      <4> QED BY <2>1, <2>4, <4>2, <4>3
    <3> QED BY <3>1, <3>2
  <2>6. ASSUME NEW j \in 0 .. (k + 1) - 1 PROVE End(j) < Piece(k + 1).from
    <3>1. j \in 0 .. k /\ j \in 0 .. n
      BY <1>1
    <3>2. End(j) <= End(k) /\ End(j) \in Nat
      BY <2>1, <3>1, <1>1 DEF End
    <3> QED BY <2>1, <2>4, <3>2
  <2> QED BY <2>4, <2>5, <2>6
<1>4. Nat \subseteq S
  <2> HIDE DEF S
  <2> QED BY <1>2, <1>3, SetInduction
<1> HIDE DEF P
<1>5. \A k \in 0 .. n : P(k)
  BY <1>1, <1>4
<1> QED BY <1>5 DEF P

IsDepth(u, n) ==
    u = [j \in 0 .. n |-> IF j = 0 THEN 0 ELSE Max({0, u[j - 1] + nest(Piece(j))})]

LEMMA DepthExists ==
    ASSUME NEW n \in Nat
    PROVE  \E u : IsDepth(u, n)
<1> DEFINE S == {k \in Nat : \E u : IsDepth(u, k)}
           step(j, d) == Max({0, d + nest(Piece(j))})
<1>1. 0 \in S
  <2> DEFINE u == [j \in 0 .. 0 |-> 0]
  <2>1. 0 .. 0 = {0}
    OBVIOUS
  <2>2. IsDepth(u, 0)
    BY <2>1 DEF IsDepth
  <2> QED BY <2>2
<1>2. ASSUME NEW k \in Nat, k \in S PROVE k + 1 \in S
  <2>1. PICK u : IsDepth(u, k)
    BY <1>2
  <2> DEFINE v == [j \in 0 .. k + 1 |-> IF j = k + 1 THEN step(j, u[k]) ELSE u[j]]
             w == [j \in 0 .. k + 1 |-> IF j = 0 THEN 0 ELSE step(j, v[j - 1])]
  <2>2. ASSUME NEW j \in 0 .. k + 1 PROVE v[j] = w[j]
    <3>1. CASE j = k + 1
      <4>1. v[j - 1] = u[k] /\ j # 0
        BY <3>1
      <4> HIDE DEF step
      <4> QED BY <3>1, <4>1
    <3>2. CASE j = 0
      <4> HIDE DEF step
      <4> QED BY <3>2, <2>1 DEF IsDepth
    <3>3. CASE j # 0 /\ j # k + 1
      <4>1. j \in 0 .. k /\ j - 1 \in 0 .. k /\ j - 1 \in 0 .. k + 1 /\ j - 1 # k + 1
        BY <3>3
      <4>2. v[j] = u[j] /\ v[j - 1] = u[j - 1]
        BY <3>3, <4>1
      <4>3. u[j] = step(j, u[j - 1])
        BY <3>3, <4>1, <2>1 DEF IsDepth
      <4>4. w[j] = step(j, v[j - 1])
        BY <3>3
      <4> HIDE DEF v, w, step
      <4> QED BY <4>2, <4>3, <4>4
    <3> QED BY <3>1, <3>2, <3>3
  <2>3. v = w
    <3> HIDE DEF step
    <3> QED BY <2>2
  <2>4. IsDepth(v, k + 1)
    BY <2>3 DEF IsDepth
  <2> HIDE DEF v
  <2> QED BY <2>4
<1>3. Nat \subseteq S
  <2> HIDE DEF S
  <2> QED BY <1>1, <1>2, SetInduction
<1> QED BY <1>3

LEMMA NestType ==
    ASSUME NEW p \in Pieces
    PROVE  nest(p) \in {-1, 0, 1}
<1>1. p.form \in {"open", "close", "void"}
  BY DEF Pieces
<1> QED BY <1>1 DEF nest

\* The nesting behind a piece is what that piece makes of the nesting before it.
LEMMA DepthStep ==
    ASSUME page \in PageType
    PROVE  /\ Depth(0) = 0
           /\ \A k \in 0 .. Len(page.pieces) : Depth(k) \in Nat
           /\ \A k \in 1 .. Len(page.pieces) :
                Depth(k) = Max({0, Depth(k - 1) + nest(Piece(k))})
<1> DEFINE n == Len(page.pieces)
           u == CHOOSE u : u = [j \in 0 .. n |->
                    IF j = 0 THEN 0 ELSE Max({0, u[j - 1] + nest(Piece(j))})]
<1>1. \A k : Depth(k) = u[k]
  BY DEF Depth
<1>2. n \in Nat /\ \A k \in 1 .. n : Piece(k) \in Pieces
  BY DEF PageType, Piece
<1> HIDE DEF n
<1>3. IsDepth(u, n)
  <2>1. \E v : IsDepth(v, n)
    BY <1>2, DepthExists
  <2> QED BY ONLY <2>1, Zenon DEF IsDepth
<1> HIDE DEF u
<1>4. u[0] = 0
  BY <1>2, <1>3 DEF IsDepth
<1>5. ASSUME NEW k \in 1 .. n PROVE u[k] = Max({0, u[k - 1] + nest(Piece(k))})
  <2>1. k \in 0 .. n /\ k # 0
    BY <1>2
  <2> QED BY <1>3, <2>1 DEF IsDepth
<1> DEFINE S == {k \in Nat : k <= n => u[k] \in Nat}
<1>6. 0 \in S
  BY <1>4
<1>7. ASSUME NEW k \in Nat, k \in S PROVE k + 1 \in S
  <2> SUFFICES ASSUME k + 1 <= n PROVE u[k + 1] \in Nat
    OBVIOUS
  <2>1. u[k] \in Nat /\ k + 1 \in 1 .. n
    BY <1>2, <1>7
  <2>2. u[k + 1] = Max({0, u[k] + nest(Piece(k + 1))})
    <3>1. (k + 1) - 1 = k
      OBVIOUS
    <3> QED BY <1>5, <2>1, <3>1
  <2> DEFINE m == u[k] + nest(Piece(k + 1))
  <2>3. m \in Int
    BY <1>2, <2>1, NestType
  <2> HIDE DEF m
  <2>4. Max({0, m}) = IF 0 >= m THEN 0 ELSE m
    BY <2>3, MaxTwo
  <2> QED BY <2>2, <2>3, <2>4 DEF m
<1>8. Nat \subseteq S
  <2> HIDE DEF S
  <2> QED BY <1>6, <1>7, SetInduction
<1>9. \A k \in 0 .. n : u[k] \in Nat
  BY <1>2, <1>8
<1> QED BY <1>1, <1>4, <1>5, <1>9 DEF n

(***************************************************************************)
(* The renderer.                                                           *)
(***************************************************************************)
CharType == [ch : Chars, src : Nat, pre : BOOLEAN]
RType == [out : Seq(CharType), newlines : Nat, pending : 0 .. 2, depth : Nat]
Rendered(r, ch, src) == [ch |-> ch, src |-> src, pre |-> r.depth > 0]

\* The separator the end of a block or a cell asks for.
Wants(p) == IF ends(p) = "block" THEN 2 ELSE IF ends(p) = "cell" THEN 1 ELSE 0

\* What a tag that is written as it is meant does to the renderer.
LEMMA TagMeans ==
    ASSUME page \in PageType, NEW p \in Pieces, p.kind = "tag", Whole(p), NEW r \in RType
    PROVE  LET d == Max({0, r.depth + nest(p)})
           IN  Renderer_tag(r, Tag_parse(p.from, p.to)) =
                 [r EXCEPT !.depth = d,
                           !.pending = IF d = 0 /\ r.out # <<>> THEN Max({@, Wants(p)}) ELSE @]
<1> DEFINE tag == Tag_parse(p.from, p.to)
           n == p.from + IF p.form = "close" THEN 2 ELSE 1
<1>1. IsTag(p.from, p.to) /\ IsWritten(p)
  BY DEF Whole
<1>2. p.form \in {"open", "close", "void"} /\ p.from \in Nat /\ p.to \in Nat
  BY DEF Pieces
<1>n. n \in Nat /\ Len(input) \in Nat
  BY <1>2 DEF PageType, input
<1>3. tag.closing <=> p.form = "close"
  <2>1. CASE p.form = "close"
    <3>1. Is(p.from + 1, "/")
      BY <1>1, <2>1 DEF IsWritten
    <3> QED BY <2>1, <3>1 DEF Tag_parse
  <2>2. CASE p.form # "close"
    <3>1. Is(p.from + 1, p.name) /\ (p.name \in Names \/ p.name = "!")
      BY <1>1, <2>2 DEF IsWritten
    <3>2. "/" \notin Names
      BY DEF Names, HTML_TAGS, BLOCK_TAGS, PRE_TAGS
    <3>3. ~Is(p.from + 1, "/")
      BY <3>1, <3>2 DEF Is
    <3> QED BY <2>2, <3>3 DEF Tag_parse
  <2> QED BY <2>1, <2>2
<1>4. /\ p.form = "open" => ~tag.self_closing
      /\ p.form = "void" => tag.self_closing
  <2>1. p.to - 1 \in 1 .. Len(input)
    BY <1>1, <1>2 DEF IsTag, Is
  <2>2. input[p.to - 1] = "/" <=> Is(p.to - 1, "/")
    BY <2>1 DEF Is
  <2>3. tag.self_closing <=> input[p.to - 1] = "/"
    BY DEF Tag_parse
  <2> QED BY <1>1, <2>2, <2>3 DEF IsWritten
<1>5. \/ tag.name = p.name
      \/ tag.name = "x" /\ p.name = "!"
  <2>1. tag.name = IF IsOneOf(n + 1, Names) THEN "x" ELSE input[n]
    <3>1. tag.name = LET m == p.from + IF Is(p.from + 1, "/") THEN 2 ELSE 1
                     IN  IF IsOneOf(m + 1, Names) THEN "x" ELSE input[m]
      BY DEF Tag_parse
    <3>2. Is(p.from + 1, "/") <=> p.form = "close"
      BY <1>3 DEF Tag_parse
    <3> QED BY <3>1, <3>2
  <2>2. input[n] = p.name
    BY <1>1 DEF IsWritten, Is
  <2>3. CASE p.name = "!"
    BY <2>1, <2>2, <2>3
  <2>4. CASE p.name # "!"
    <3>1. is_tag_boundary(n + 1)
      BY <1>1, <2>4 DEF IsWritten
    <3>2. \A s \in {" ", "\n", "/", ">"} : s \notin Names
      BY DEF Names, HTML_TAGS, BLOCK_TAGS, PRE_TAGS
    <3>3. ~IsOneOf(n + 1, Names)
      <4> HIDE DEF n
      <4>1. n + 1 > Len(input) => ~(n + 1 \in 1 .. Len(input))
        BY <1>n
      <4> QED BY <4>1, <3>1, <3>2 DEF is_tag_boundary, IsOneOf
    <3> QED BY <2>1, <2>2, <3>3
  <2> QED BY <2>3, <2>4
<1> HIDE DEF tag, n
<1>6. separator(tag) = Wants(p)
  <2>1. CASE p.name = "!"
    <3>1. tag.name \in {"!", "x"}
      BY <1>5, <2>1
    <3>2. separator(tag) = 0
      BY <3>1 DEF separator, CELL_TAGS, BLOCK_TAGS
    <3>3. ends(p) = "nothing"
      BY <2>1 DEF ends, CELL_TAGS, BLOCK_TAGS
    <3> QED BY <3>2, <3>3 DEF Wants
  <2>2. CASE p.name # "!"
    <3>1. tag.name = p.name
      BY <1>5, <2>2
    <3>2. (tag.closing \/ tag.self_closing) <=> p.form # "open"
      BY <1>2, <1>3, <1>4
    <3>3. CASE p.name = "br"
      BY <3>1, <3>3 DEF separator, Wants, ends, CELL_TAGS, BLOCK_TAGS
    <3>4. CASE p.name # "br" /\ p.form = "open"
      BY <3>1, <3>2, <3>4 DEF separator, Wants, ends
    <3>5. CASE p.name = "td" /\ p.form # "open"
      BY <3>1, <3>2, <3>5 DEF separator, Wants, ends, CELL_TAGS, BLOCK_TAGS
    <3>6. CASE p.name \in {"p", "pre"} /\ p.form # "open"
      BY <3>1, <3>2, <3>6 DEF separator, Wants, ends, CELL_TAGS, BLOCK_TAGS
    <3>7. CASE p.name \notin {"br", "td", "p", "pre"} /\ p.form # "open"
      BY <3>1, <3>2, <3>7 DEF separator, Wants, ends, CELL_TAGS, BLOCK_TAGS
    <3> QED BY <3>3, <3>4, <3>5, <3>6, <3>7
  <2> QED BY <2>1, <2>2
<1> DEFINE depth == IF tag.name \notin PRE_TAGS THEN r.depth
                    ELSE IF tag.closing THEN Max({r.depth - 1, 0})
                    ELSE IF tag.self_closing THEN r.depth ELSE r.depth + 1
<1>7. depth = Max({0, r.depth + nest(p)})
  <2>1. r.depth \in Nat
    BY DEF RType
  <2>2. tag.name \in PRE_TAGS <=> p.name \in PRE_TAGS
    BY <1>5 DEF PRE_TAGS
  <2>3. \A m \in Nat : Max({0, m}) = m
    BY MaxTwo
  <2>4. CASE p.name \notin PRE_TAGS
    <3>1. nest(p) = 0 /\ r.depth + 0 = r.depth
      BY <2>1, <2>4 DEF nest
    <3> QED BY <2>1, <2>2, <2>3, <2>4, <3>1
  <2>5. CASE p.name \in PRE_TAGS /\ p.form = "close"
    <3>1. nest(p) = -1 /\ r.depth + -1 = r.depth - 1
      BY <2>1, <2>5 DEF nest
    <3>2. {r.depth - 1, 0} = {0, r.depth - 1}
      OBVIOUS
    <3> QED BY <1>3, <2>2, <2>5, <3>1, <3>2
  <2>6. CASE p.name \in PRE_TAGS /\ p.form = "open"
    <3>1. nest(p) = 1
      BY <2>6 DEF nest
    <3> QED BY <1>3, <1>4, <2>1, <2>2, <2>3, <2>6, <3>1
  <2>7. CASE p.name \in PRE_TAGS /\ p.form = "void"
    <3>1. nest(p) = 0 /\ r.depth + 0 = r.depth
      BY <2>1, <2>7 DEF nest
    <3> QED BY <1>3, <1>4, <2>1, <2>2, <2>3, <2>7, <3>1
  <2> QED BY <1>2, <2>4, <2>5, <2>6, <2>7
<1>8. Renderer_tag(r, tag) =
        [r EXCEPT !.depth = depth,
                  !.pending = IF depth = 0 /\ r.out # <<>> THEN Max({@, separator(tag)}) ELSE @]
  BY DEF Renderer_tag
<1> QED BY <1>6, <1>7, <1>8 DEF tag

LEMMA RawShape ==
    ASSUME NEW r \in RType, NEW ch \in Chars, NEW src \in Nat
    PROVE  LET q == raw(r, ch, src)
           IN  /\ q \in RType
               /\ q.out = Append(r.out, Rendered(r, ch, src))
               /\ q.pending = r.pending /\ q.depth = r.depth
               /\ q.newlines = IF ch = "\n" THEN r.newlines + 1 ELSE 0
<1> DEFINE q == raw(r, ch, src)
           c == Rendered(r, ch, src)
<1>1. q = [r EXCEPT !.out = Append(@, c), !.newlines = IF ch = "\n" THEN @ + 1 ELSE 0]
  BY DEF raw, Rendered
<1>2. c \in CharType
  BY DEF CharType, Rendered, RType
<1>3. Append(r.out, c) \in Seq(CharType)
  <2> HIDE DEF c
  <2> QED BY <1>2 DEF RType
<1> HIDE DEF c
<1>4. /\ q.out = Append(r.out, c) /\ q.pending = r.pending /\ q.depth = r.depth
      /\ q.newlines = IF ch = "\n" THEN r.newlines + 1 ELSE 0
  BY <1>1 DEF RType
<1>5. q \in RType
  <2> DEFINE m == IF ch = "\n" THEN r.newlines + 1 ELSE 0
             o == Append(r.out, c)
  <2>1. m \in Nat /\ r.pending \in 0 .. 2 /\ r.depth \in Nat
    BY DEF RType
  <2>2. q = [out |-> o, newlines |-> m, pending |-> r.pending, depth |-> r.depth]
    BY <1>1 DEF RType
  <2> HIDE DEF q, m, o
  <2>3. o \in Seq(CharType)
    BY <1>3 DEF o
  <2> QED BY <2>1, <2>2, <2>3 DEF RType
<1> QED BY <1>4, <1>5 DEF c

\* The renderer with nothing pending.
Cleared(r) == [r EXCEPT !.pending = 0]

LEMMA ClearedShape ==
    ASSUME NEW r \in RType
    PROVE  /\ Cleared(r) \in RType /\ Cleared(r).out = r.out /\ Cleared(r).pending = 0
           /\ Cleared(r).depth = r.depth /\ Cleared(r).newlines = r.newlines
           /\ r.pending = 0 => Cleared(r) = r
           /\ \A ch, src : Rendered(Cleared(r), ch, src) = Rendered(r, ch, src)
<1>1. /\ Cleared(r) \in RType /\ Cleared(r).out = r.out /\ Cleared(r).pending = 0
      /\ Cleared(r).depth = r.depth /\ Cleared(r).newlines = r.newlines
  BY DEF Cleared, RType
<1>2. r.pending = 0 => Cleared(r) = r
  BY DEF Cleared, RType
<1> QED BY <1>1, <1>2 DEF Rendered

\* A separator that was pending is written, unless two newlines end the text.
LEMMA FlushShape ==
    ASSUME NEW r \in RType
    PROVE  LET q == flush_pending(r)
               s == IF r.pending = 2 THEN "\n" ELSE " "
           IN  /\ q \in RType /\ q.pending = 0 /\ q.depth = r.depth
               /\ IF r.pending = 0 \/ (r.pending = 2 /\ r.newlines >= 2)
                  THEN q.out = r.out
                  ELSE q.out = Append(r.out, Rendered(r, s, 0))
<1> DEFINE q == flush_pending(r)
           d == Cleared(r)
<1>1. q = CASE r.pending = 2 -> newline_capped(d, 0)
            [] r.pending = 1 -> raw(d, " ", 0)
            [] OTHER -> r
  BY DEF flush_pending, Cleared
<1>2. r.pending \in {0, 1, 2} /\ r.newlines \in Nat
  BY DEF RType
<1>3. " " \in Chars /\ "\n" \in Chars /\ 0 \in Nat
  BY DEF Chars, Symbols, Marks, Entities
<1>4. /\ d \in RType /\ d.out = r.out /\ d.pending = 0
      /\ d.depth = r.depth /\ d.newlines = r.newlines
      /\ \A ch, src : Rendered(d, ch, src) = Rendered(r, ch, src)
  BY ClearedShape
<1> HIDE DEF d
<1>5. CASE r.pending = 0
  <2>1. q = r
    BY <1>1, <1>5
  <2> QED BY <2>1, <1>5
<1>6. CASE r.pending = 1
  <2>0. r.pending # 0 /\ r.pending # 2
    BY <1>6
  <2>1. q = raw(d, " ", 0)
    BY <2>0, <1>1, <1>6, Zenon
  <2> HIDE DEF q
  <2>2. /\ q \in RType /\ q.out = Append(d.out, Rendered(d, " ", 0))
        /\ q.pending = d.pending /\ q.depth = d.depth
    BY <2>1, <1>3, <1>4, RawShape
  <2> QED BY <2>0, <2>2, <1>4, Zenon DEF q
<1>7. CASE r.pending = 2 /\ r.newlines >= 2
  <2>1. q = d
    BY <1>1, <1>2, <1>4, <1>7 DEF newline_capped
  <2> HIDE DEF q
  <2> QED BY <2>1, <1>4, <1>7 DEF q
<1>8. CASE r.pending = 2 /\ ~(r.newlines >= 2)
  <2>1. q = raw(d, "\n", 0)
    BY <1>1, <1>2, <1>4, <1>8 DEF newline_capped
  <2> HIDE DEF q
  <2>2. /\ q \in RType /\ q.out = Append(d.out, Rendered(d, "\n", 0))
        /\ q.pending = d.pending /\ q.depth = d.depth
    BY <2>1, <1>3, <1>4, RawShape
  <2> QED BY <2>2, <1>4, <1>8 DEF q
<1> QED BY <1>2, <1>5, <1>6, <1>7, <1>8

\* A character is left out, written, or written behind a separator.
Dropped(r, ch, q) ==
    /\ r.depth = 0 /\ ch \in Space /\ q.out = r.out /\ q.newlines = r.newlines
    /\ \/ ch = " " /\ q.pending = r.pending
       \/ ch = "\n" /\ r.newlines >= 2 /\ q.pending = 0
Once(r, ch, src, q) ==
    /\ q.out = Append(r.out, Rendered(r, ch, src))
    /\ q.pending = 0 /\ (q.newlines > 0 => ch = "\n")
    /\ r.pending = 2 => ch = "\n" \/ r.newlines >= 2
    /\ r.pending = 1 => ch \in Space
Twice(r, ch, src, q) ==
    /\ q.out = Append(Append(r.out, Rendered(r, IF r.pending = 2 THEN "\n" ELSE " ", 0)),
                      Rendered(r, ch, src))
    /\ q.pending = 0 /\ (q.newlines > 0 => ch = "\n") /\ r.pending # 0

LEMMA PushShape ==
    ASSUME NEW r \in RType, NEW ch \in Chars, NEW src \in Nat
    PROVE  LET q == push(r, ch, src)
           IN  /\ q \in RType /\ q.depth = r.depth
               /\ Dropped(r, ch, q) \/ Once(r, ch, src, q) \/ Twice(r, ch, src, q)
<1> DEFINE q == push(r, ch, src)
           f == flush_pending(r)
           d == Cleared(r)
           sep == Rendered(r, IF r.pending = 2 THEN "\n" ELSE " ", 0)
<1>1. r.pending \in {0, 1, 2} /\ r.newlines \in Nat /\ r.depth \in Nat
  BY DEF RType
<1>2. /\ f \in RType /\ f.pending = 0 /\ f.depth = r.depth
      /\ IF r.pending = 0 \/ (r.pending = 2 /\ r.newlines >= 2)
         THEN f.out = r.out ELSE f.out = Append(r.out, sep)
  BY FlushShape
<1>3. /\ d \in RType /\ d.out = r.out /\ d.pending = 0
      /\ d.depth = r.depth /\ d.newlines = r.newlines
      /\ r.pending = 0 => d = r
  BY ClearedShape
<1>4. ASSUME NEW e \in RType
      PROVE  /\ raw(e, ch, src) \in RType
             /\ raw(e, ch, src).out = Append(e.out, Rendered(e, ch, src))
             /\ raw(e, ch, src).pending = e.pending
             /\ raw(e, ch, src).depth = e.depth
             /\ raw(e, ch, src).newlines > 0 => ch = "\n"
  <2> DEFINE w == raw(e, ch, src)
  <2>1. /\ w \in RType
        /\ w.out = Append(e.out, Rendered(e, ch, src))
        /\ w.pending = e.pending /\ w.depth = e.depth
        /\ w.newlines = IF ch = "\n" THEN e.newlines + 1 ELSE 0
    BY RawShape
  <2> HIDE DEF w
  <2>2. w.newlines > 0 => ch = "\n"
    BY <2>1
  <2> QED BY <2>1, <2>2 DEF w
<1>5. \A e \in RType : e.depth = r.depth => Rendered(e, ch, src) = Rendered(r, ch, src)
  BY DEF Rendered
<1>d. ~(r.depth > 0) => r.depth = 0
  BY <1>1
<1> HIDE DEF f, d, sep
<1>6. ASSUME q = raw(f, ch, src), r.depth > 0 \/ ch \notin Space
      PROVE  q \in RType /\ q.depth = r.depth /\ (Once(r, ch, src, q) \/ Twice(r, ch, src, q))
  <2> HIDE DEF q
  <2>1. /\ q \in RType /\ q.out = Append(f.out, Rendered(r, ch, src)) /\ q.pending = 0
        /\ q.depth = r.depth /\ (q.newlines > 0 => ch = "\n")
    BY <1>2, <1>4, <1>5, <1>6
  <2>2. CASE r.pending = 0 \/ (r.pending = 2 /\ r.newlines >= 2)
    BY <2>1, <2>2, <1>1, <1>2 DEF Once
  <2>3. CASE ~(r.pending = 0 \/ (r.pending = 2 /\ r.newlines >= 2))
    <3>1. r.pending # 0 /\ f.out = Append(r.out, sep)
      BY <2>3, <1>1, <1>2
    <3> QED BY <3>1, <2>1 DEF Twice, sep
  <2> QED BY <2>1, <2>2, <2>3
<1>7. CASE r.depth > 0
  <2>1. q = raw(f, ch, src)
    BY <1>7 DEF push, f
  <2> QED BY <2>1, <1>6, <1>7
<1>8. CASE ~(r.depth > 0) /\ r.pending = 2 /\ ch = " "
  <2>1. q = r
    BY <1>8 DEF push
  <2> HIDE DEF q
  <2>2. r.depth = 0
    BY <1>1, <1>d, <1>8, Zenon
  <2>3. Dropped(r, ch, q)
    BY <2>1, <2>2, <1>8 DEF Dropped, Space
  <2> QED BY <2>1, <2>3 DEF q
<1>9. CASE ~(r.depth > 0) /\ ~(r.pending = 2 /\ ch = " ") /\ ch \in Space
  <2>1. settle(r, ch) = d
    <3>1. r.pending = 2 => ch = "\n"
      BY <1>9 DEF Space
    <3>2. CASE r.pending = 0
      BY <3>2, <1>3, <1>9 DEF settle
    <3>3. CASE r.pending = 1
      BY <3>3, <1>9 DEF settle, d, Cleared
    <3>4. CASE r.pending = 2
      BY <3>4, <3>1, <1>9 DEF settle, d, Cleared
    <3> QED BY <1>1, <3>2, <3>3, <3>4
  <2>2. CASE ch = "\n" /\ r.newlines >= 2
    <3>1. q = newline_capped(d, src)
      BY <1>9, <2>1, <2>2 DEF push
    <3>2. q = d
      BY <3>1, <2>2, <1>1, <1>3 DEF newline_capped
    <3> HIDE DEF q
    <3> QED BY <3>2, <2>2, <1>1, <1>3, <1>9 DEF Dropped, q
  <2>3. CASE ~(ch = "\n" /\ r.newlines >= 2)
    <3>1. q = raw(d, ch, src)
      <4>1. CASE ch = "\n"
        <5>1. q = newline_capped(d, src)
          BY <1>9, <2>1, <4>1 DEF push
        <5>2. d.newlines < 2
          BY <1>1, <1>3, <2>3, <4>1
        <5> QED BY <5>1, <5>2, <4>1 DEF newline_capped
      <4>2. CASE ch # "\n"
        BY <1>9, <2>1, <4>2 DEF push
      <4> QED BY <4>1, <4>2
    <3> HIDE DEF q
    <3>2. /\ q \in RType /\ q.out = Append(r.out, Rendered(r, ch, src)) /\ q.pending = 0
          /\ q.depth = r.depth /\ (q.newlines > 0 => ch = "\n")
      BY <3>1, <1>3, <1>4, <1>5
    <3>3. r.pending = 2 => ch = "\n"
      BY <1>9 DEF Space
    <3> QED BY <3>2, <3>3, <1>9 DEF Once, q
  <2> QED BY <2>2, <2>3
<1>10. CASE ~(r.depth > 0) /\ ch \notin Space
  <2>1. settle(r, ch) = f
    <3>1. ch # "\n"
      BY <1>10 DEF Space
    <3>2. CASE r.pending = 0
      <4>1. f = r
        BY <3>2 DEF f, flush_pending
      <4> QED BY <3>2, <4>1, <1>10 DEF settle
    <3>3. CASE r.pending # 0
      BY <3>1, <3>3, <1>10 DEF settle, f
    <3> QED BY <3>2, <3>3
  <2>2. q = raw(f, ch, src)
    BY <2>1, <1>10 DEF push, Space
  <2> QED BY <2>2, <1>6, <1>10
<1> QED BY <1>7, <1>8, <1>9, <1>10

(***************************************************************************)
(* The inductive invariant: the scanner stands between two pieces, and     *)
(* what it rendered of the first K is kept, parted and apart.              *)
(***************************************************************************)
Shows(k) == decoded_entity(input[Piece(k).from])

\* The i-th rendered character is that of a text among the first K pieces.
IsFrom(o, i, k) ==
    /\ o[i].src = Piece(k).from /\ o[i].ch = Shows(k)
    /\ o[i].pre <=> Depth(k) > 0
OnlyText(o, K) ==
    \A i \in DOMAIN o :
        IF o[i].src = 0 THEN o[i].ch \in Space ELSE \E k \in Texts : k <= K /\ IsFrom(o, i, k)
InOrder(o) ==
    \A i, j \in DOMAIN o : i < j /\ o[i].src # 0 /\ o[j].src # 0 => o[i].src < o[j].src
AllText(o, K) ==
    \A k \in Texts :
        k <= K /\ (Depth(k) > 0 \/ Shows(k) \notin Space) => \E i \in DOMAIN o : o[i].src = Piece(k).from

\* The text is that of the first K pieces.
Kept(o, K) == OnlyText(o, K) /\ InOrder(o) /\ AllText(o, K)

\* A separator stands, or is pending, only where something ended, and newlines
\* are counted only at the end of the text.
Parted(o, pd, nl, K) ==
    /\ o # <<>> => o[Len(o)].src # 0
    /\ nl > 0 => o # <<>> /\ o[Len(o)].ch = "\n"
    /\ pd # 0 => o # <<>> /\ EndsBetween(o[Len(o)].src, End(K) + 1) # {}
    /\ \A i \in DOMAIN o : o[i].src = 0 =>
          /\ i - 1 \in DOMAIN o /\ i + 1 \in DOMAIN o
          /\ EndsBetween(o[i - 1].src, o[i + 1].src) # {}

Blank(o, i, j) == \A m \in i .. j : o[m].ch \in Space
Newline(o, i, j) == \E m \in i .. j : o[m].ch = "\n"

\* Where something ended a separator stands, or is pending behind the last
\* letter.
Apart(o, pd, K) ==
    /\ \A i, j \in DOMAIN o :
          i < j /\ o[i].ch \notin Space /\ o[j].ch \notin Space /\ Blank(o, i + 1, j - 1) =>
             /\ "block" \in EndsBetween(o[i].src, o[j].src) => Newline(o, i + 1, j - 1)
             /\ "cell" \in EndsBetween(o[i].src, o[j].src) => i < j - 1
    /\ \A i \in DOMAIN o :
          o[i].ch \notin Space /\ Blank(o, i + 1, Len(o)) =>
             /\ "block" \in EndsBetween(o[i].src, End(K) + 1) => pd = 2 \/ Newline(o, i + 1, Len(o))
             /\ "cell" \in EndsBetween(o[i].src, End(K) + 1) => pd # 0 \/ i < Len(o)

Good(o, pd, nl, K) == Kept(o, K) /\ Parted(o, pd, nl, K) /\ Apart(o, pd, K)

\* The scanner stands behind the K-th piece of a whole page.
Stands(K) ==
    /\ page \in PageType /\ R \in RType /\ AllWhole
    /\ K \in 0 .. Len(page.pieces) /\ at = End(K) + 1 /\ pre_depth = Depth(K)
    /\ Good(out, pending, trailing_newlines, K)

Inv ==
    /\ page \in PageType
    /\ result # "none" /\ AllWhole => \E K \in 0 .. Len(page.pieces) : Stands(K)
    /\ result = "rendered" => at > Len(input)

\* Where the pieces are, seen from the end of the K-th.
LEMMA PieceFacts ==
    ASSUME page \in PageType, AllWhole
    PROVE  /\ Len(page.pieces) \in Nat /\ DOMAIN page.pieces = 1 .. Len(page.pieces)
           /\ Len(input) \in Nat /\ End(Len(page.pieces)) = Len(input)
           /\ \A K \in 0 .. Len(page.pieces) : End(K) \in Nat
           /\ \A k \in 1 .. Len(page.pieces) :
                /\ Piece(k) \in Pieces /\ Whole(Piece(k))
                /\ Piece(k).from \in Nat \ {0} /\ Piece(k).to \in Nat
                /\ Piece(k).from = End(k - 1) + 1 /\ Piece(k).from <= Piece(k).to
                /\ Piece(k).to = End(k)
                /\ \A K \in 0 .. Len(page.pieces) :
                      /\ k <= K => Piece(k).to <= End(K) /\ Piece(k).from <= End(K)
                      /\ k > K => Piece(k).from > End(K) /\ Piece(k).to > End(K)
<1> DEFINE n == Len(page.pieces)
<1>1. n \in Nat /\ DOMAIN page.pieces = 1 .. n /\ Len(input) \in Nat
      /\ \A k \in 1 .. n : Piece(k) \in Pieces
  <2>1. page.pieces \in Seq(Pieces) /\ page.src \in Seq(Symbols)
    BY DEF PageType
  <2> QED BY <2>1 DEF Piece, input
<1>2. \A k \in 1 .. n : Piece(k).from \in Nat /\ Piece(k).to \in Nat
  BY <1>1 DEF Pieces
<1>3. \A k \in 1 .. n : /\ Piece(k).from = End(k - 1) + 1 /\ Piece(k).from <= Piece(k).to
                        /\ Whole(Piece(k)) /\ Piece(k).to = End(k)
  BY <1>1 DEF AllWhole, End
<1>4. \A k \in 0 .. n : /\ End(k) \in Nat
                        /\ \A j \in 0 .. k : End(j) <= End(k)
                        /\ \A j \in 0 .. k - 1 : End(j) < Piece(k).from
  BY Ordered
<1>5. End(n) = Len(input)
  BY DEF AllWhole
<1> HIDE DEF n
<1>6. \A k \in 1 .. n : Piece(k).from # 0
  <2> SUFFICES ASSUME NEW k \in 1 .. n PROVE Piece(k).from # 0
    OBVIOUS
  <2>1. k - 1 \in 0 .. n
    BY <1>1
  <2> QED BY <2>1, <1>3, <1>4
<1>7. ASSUME NEW k \in 1 .. n, NEW K \in 0 .. n
      PROVE  /\ k <= K => Piece(k).to <= End(K) /\ Piece(k).from <= End(K)
             /\ k > K => Piece(k).from > End(K) /\ Piece(k).to > End(K)
  <2>1. ASSUME k <= K PROVE Piece(k).to <= End(K) /\ Piece(k).from <= End(K)
    <3>1. k \in 0 .. K
      BY <1>1, <2>1
    <3>2. End(k) <= End(K) /\ End(K) \in Nat
      BY <1>4, <3>1
    <3> QED BY <3>2, <1>2, <1>3
  <2>2. ASSUME k > K PROVE Piece(k).from > End(K) /\ Piece(k).to > End(K)
    <3>1. K \in 0 .. k - 1 /\ k \in 0 .. n
      BY <1>1, <2>2
    <3>2. End(K) < Piece(k).from /\ End(K) \in Nat
      BY <1>4, <3>1
    <3> QED BY <3>2, <1>2, <1>3
  <2> QED BY <2>1, <2>2
<1> QED BY <1>1, <1>2, <1>3, <1>4, <1>5, <1>6, <1>7 DEF n

\* What ended up to the next piece.
LEMMA EndsStep ==
    ASSUME page \in PageType, AllWhole, NEW K \in 0 .. Len(page.pieces) - 1, NEW a
    PROVE  EndsBetween(a, End(K + 1) + 1) =
             EndsBetween(a, End(K) + 1)
               \cup (IF a < Piece(K + 1).from /\ Depth(K + 1) = 0
                     THEN {ends(Piece(K + 1))} \ {"nothing"} ELSE {})
<1> DEFINE n == Len(page.pieces)
           L(b) == {l \in DOMAIN page.pieces : a < Piece(l).from /\ Piece(l).to < b /\ Depth(l) = 0}
           new == IF a < Piece(K + 1).from /\ Depth(K + 1) = 0 THEN {K + 1} ELSE {}
<1>1. n \in Nat /\ DOMAIN page.pieces = 1 .. n
  BY PieceFacts
<1>2. ASSUME NEW l \in 1 .. n, NEW J \in 0 .. n PROVE Piece(l).to < End(J) + 1 <=> l <= J
  <2>1. /\ l <= J => Piece(l).to <= End(J)
        /\ l > J => Piece(l).to > End(J)
        /\ Piece(l).to \in Nat /\ End(J) \in Nat
    BY PieceFacts
  <2> QED BY <1>1, <2>1
<1> HIDE DEF n
<1>3. K \in 0 .. n /\ K + 1 \in 0 .. n /\ K + 1 \in 1 .. n /\ K \in Nat
  BY <1>1 DEF n
<1>4. L(End(K + 1) + 1) = L(End(K) + 1) \cup new
  <2>1. ASSUME NEW l \in 1 .. n PROVE l \in L(End(K + 1) + 1) <=> l \in L(End(K) + 1) \cup new
    <3>1. Piece(l).to < End(K + 1) + 1 <=> l <= K + 1
      BY <1>2, <1>3
    <3>2. Piece(l).to < End(K) + 1 <=> l <= K
      BY <1>2, <1>3
    <3>3. l <= K + 1 <=> (l <= K \/ l = K + 1)
      BY <1>1, <1>3
    <3>4. l = K + 1 => ~(l <= K)
      BY <1>3
    <3> QED BY <1>1, <3>1, <3>2, <3>3, <3>4
  <2>2. L(End(K + 1) + 1) \subseteq 1 .. n /\ L(End(K) + 1) \cup new \subseteq 1 .. n
    BY <1>1, <1>3
  <2> HIDE DEF L, new
  <2> QED BY <2>1, <2>2
<1>5. \A b : EndsBetween(a, b) = {ends(Piece(k)) : k \in L(b)} \ {"nothing"}
  BY DEF EndsBetween
<1> HIDE DEF L
<1>6. {ends(Piece(k)) : k \in L(End(K) + 1) \cup new} =
        {ends(Piece(k)) : k \in L(End(K) + 1)} \cup {ends(Piece(k)) : k \in new}
  OBVIOUS
<1>7. {ends(Piece(k)) : k \in new} \ {"nothing"} =
        IF a < Piece(K + 1).from /\ Depth(K + 1) = 0
        THEN {ends(Piece(K + 1))} \ {"nothing"} ELSE {}
  OBVIOUS
<1> QED BY <1>4, <1>5, <1>6, <1>7

\* Nothing ends between a place and itself.
LEMMA EndsNowhere ==
    ASSUME page \in PageType, AllWhole, NEW a \in Nat, NEW b \in Nat, b <= a + 1
    PROVE  EndsBetween(a, b) = {}
<1> SUFFICES ASSUME NEW l \in DOMAIN page.pieces, a < Piece(l).from, Piece(l).to < b
             PROVE  FALSE
  BY DEF EndsBetween
<1>1. Piece(l).from \in Nat /\ Piece(l).to \in Nat /\ Piece(l).from <= Piece(l).to
  BY PieceFacts
<1> QED BY <1>1

LEMMA SeqIs ==
    ASSUME NEW o \in Seq(CharType)
    PROVE  /\ Len(o) \in Nat /\ DOMAIN o = 1 .. Len(o)
           /\ o # <<>> => Len(o) \in 1 .. Len(o)
<1>1. Len(o) \in Nat /\ DOMAIN o = 1 .. Len(o)
  OBVIOUS
<1>2. o # <<>> => Len(o) \in Nat \ {0}
  BY EmptySeq
<1> QED BY <1>1, <1>2

\* Every rendered character comes from behind or from nowhere.
LEMMA Behindhand ==
    ASSUME page \in PageType, AllWhole, NEW K \in 0 .. Len(page.pieces),
           NEW o \in Seq(CharType), Kept(o, K), NEW i \in DOMAIN o
    PROVE  o[i].src \in 0 .. End(K)
<1>1. End(K) \in Nat
  BY PieceFacts
<1>2. CASE o[i].src = 0
  BY <1>1, <1>2
<1>3. CASE o[i].src # 0
  <2>1. PICK k \in Texts : k <= K /\ o[i].src = Piece(k).from
    BY <1>3 DEF Kept, OnlyText, IsFrom
  <2>2. k \in 1 .. Len(page.pieces)
    BY <2>1, PieceFacts DEF Texts
  <2>3. Piece(k).from <= End(K) /\ Piece(k).from \in Nat
    BY <2>1, <2>2, PieceFacts
  <2> QED BY <1>1, <2>1, <2>3
<1> QED BY <1>2, <1>3

\* A piece that is no text adds none.
LEMMA KeptOn ==
    ASSUME page \in PageType, AllWhole, NEW K \in 0 .. Len(page.pieces) - 1, NEW o,
           Kept(o, K), Piece(K + 1).kind # "text"
    PROVE  Kept(o, K + 1)
<1>1. ASSUME NEW k \in Texts PROVE k <= K + 1 <=> k <= K
  <2>1. k \in 1 .. Len(page.pieces) /\ Piece(k).kind = "text"
    BY PieceFacts DEF Texts
  <2>2. k # K + 1 /\ Len(page.pieces) \in Nat
    BY <2>1, PieceFacts
  <2> QED BY <2>1, <2>2
<1> QED BY <1>1 DEF Kept, OnlyText, AllText

\* A piece where nothing ends leaves the separators as they are.
LEMMA GoodOn ==
    ASSUME page \in PageType, AllWhole, NEW K \in 0 .. Len(page.pieces) - 1,
           NEW o, NEW pd, NEW nl, Parted(o, pd, nl, K), Apart(o, pd, K),
           ends(Piece(K + 1)) = "nothing" \/ Depth(K + 1) # 0
    PROVE  Parted(o, pd, nl, K + 1) /\ Apart(o, pd, K + 1)
<1>1. \A a : EndsBetween(a, End(K + 1) + 1) = EndsBetween(a, End(K) + 1)
  <2> SUFFICES ASSUME NEW a
               PROVE  EndsBetween(a, End(K + 1) + 1) = EndsBetween(a, End(K) + 1)
    OBVIOUS
  <2>1. EndsBetween(a, End(K + 1) + 1) = EndsBetween(a, End(K) + 1)
             \cup (IF a < Piece(K + 1).from /\ Depth(K + 1) = 0
                   THEN {ends(Piece(K + 1))} \ {"nothing"} ELSE {})
    BY EndsStep
  <2> QED BY <2>1
<1> QED BY <1>1 DEF Parted, Apart

\* Where something ends outside pre and code, a separator becomes pending.
LEMMA GoodEnds ==
    ASSUME page \in PageType, AllWhole, NEW K \in 0 .. Len(page.pieces) - 1,
           NEW o \in Seq(CharType), o # <<>>, NEW pd \in 0 .. 2, NEW nl,
           Kept(o, K), Parted(o, pd, nl, K), Apart(o, pd, K), Depth(K + 1) = 0
    PROVE  LET pd2 == Max({pd, Wants(Piece(K + 1))})
           IN  Parted(o, pd2, nl, K + 1) /\ Apart(o, pd2, K + 1)
<1> DEFINE w == Wants(Piece(K + 1))
           e == ends(Piece(K + 1))
           pd2 == Max({pd, w})
<1>1. w = (IF e = "block" THEN 2 ELSE IF e = "cell" THEN 1 ELSE 0) /\ w \in 0 .. 2
  BY DEF Wants
<1>2. pd2 = IF pd >= w THEN pd ELSE w
  BY <1>1, MaxTwo
<1>3. /\ pd = 2 => pd2 = 2
      /\ pd # 0 => pd2 # 0
      /\ e = "block" => pd2 = 2
      /\ e = "cell" => pd2 # 0
      /\ pd2 # 0 => pd # 0 \/ e # "nothing"
  <2>1. e = "block" => w = 2
    BY <1>1
  <2>2. e = "cell" => w = 1
    BY <1>1
  <2>3. w # 0 => e # "nothing"
    BY <1>1
  <2>4. w \in 0 .. 2 /\ pd \in 0 .. 2
    BY <1>1
  <2> HIDE DEF w, e, pd2
  <2> QED BY <1>2, <2>1, <2>2, <2>3, <2>4
<1>4. ASSUME NEW i \in DOMAIN o
      PROVE  EndsBetween(o[i].src, End(K + 1) + 1) =
               EndsBetween(o[i].src, End(K) + 1) \cup ({e} \ {"nothing"})
  <2>1. K \in 0 .. Len(page.pieces) /\ K + 1 \in 1 .. Len(page.pieces) /\ K + 1 > K
    BY PieceFacts
  <2>2. o[i].src \in 0 .. End(K) /\ End(K) \in Nat
    BY <2>1, Behindhand, PieceFacts
  <2>3. Piece(K + 1).from > End(K) /\ Piece(K + 1).from \in Nat
    BY <2>1, PieceFacts
  <2>4. o[i].src < Piece(K + 1).from
    BY <2>2, <2>3
  <2> QED BY <2>4, EndsStep
<1>5. Len(o) \in DOMAIN o
  BY EmptySeq
<1> HIDE DEF w, e, pd2
<1>6. Parted(o, pd2, nl, K + 1)
  <2>1. ASSUME pd2 # 0 PROVE EndsBetween(o[Len(o)].src, End(K + 1) + 1) # {}
    <3>1. CASE pd # 0
      BY <3>1, <1>4, <1>5 DEF Parted
    <3>2. CASE e # "nothing"
      BY <3>2, <1>4, <1>5
    <3> QED BY <2>1, <1>3, <3>1, <3>2
  <2> QED BY <2>1 DEF Parted
<1>7. Apart(o, pd2, K + 1)
  <2>1. ASSUME NEW i \in DOMAIN o, o[i].ch \notin Space, Blank(o, i + 1, Len(o))
        PROVE  /\ "block" \in EndsBetween(o[i].src, End(K + 1) + 1) =>
                     pd2 = 2 \/ Newline(o, i + 1, Len(o))
               /\ "cell" \in EndsBetween(o[i].src, End(K + 1) + 1) => pd2 # 0 \/ i < Len(o)
    <3>1. /\ "block" \in EndsBetween(o[i].src, End(K) + 1) => pd = 2 \/ Newline(o, i + 1, Len(o))
          /\ "cell" \in EndsBetween(o[i].src, End(K) + 1) => pd # 0 \/ i < Len(o)
      BY <2>1 DEF Apart
    <3> QED BY <3>1, <1>3, <1>4
  <2> QED BY <2>1 DEF Apart
<1> QED BY <1>6, <1>7 DEF pd2, w

LEMMA TextNext ==
    ASSUME page \in PageType, AllWhole, NEW K \in 0 .. Len(page.pieces) - 1,
           Piece(K + 1).kind = "text"
    PROVE  /\ K + 1 \in Texts /\ K \in Nat
           /\ Piece(K + 1).from = End(K) + 1 /\ Piece(K + 1).to = Piece(K + 1).from
           /\ End(K + 1) = End(K) + 1 /\ End(K) \in Nat
           /\ ends(Piece(K + 1)) = "nothing" /\ Depth(K + 1) = Depth(K)
           /\ \A a : EndsBetween(a, End(K + 1) + 1) = EndsBetween(a, End(K) + 1)
           /\ \A k \in Texts : k <= K + 1 => k <= K \/ k = K + 1
<1>1. /\ K \in 0 .. Len(page.pieces) /\ K + 1 \in 1 .. Len(page.pieces) /\ (K + 1) - 1 = K
      /\ K \in Nat
  BY PieceFacts
<1>2. K + 1 \in Texts
  BY <1>1, PieceFacts DEF Texts
<1>3. /\ Piece(K + 1).from = End(K) + 1 /\ Piece(K + 1).to = End(K + 1) /\ End(K) \in Nat
      /\ Piece(K + 1) \in Pieces /\ Whole(Piece(K + 1))
  BY <1>1, PieceFacts
<1>4. Piece(K + 1).to = Piece(K + 1).from
  BY <1>3 DEF Whole
<1>5. ends(Piece(K + 1)) = "nothing" /\ nest(Piece(K + 1)) = 0
  BY DEF ends, nest
<1>6. Depth(K + 1) = Depth(K)
  <2>1. Depth(K + 1) = Max({0, Depth(K) + 0}) /\ Depth(K) \in Nat
    BY <1>1, <1>5, DepthStep
  <2>2. Depth(K) + 0 = Depth(K) /\ Max({0, Depth(K)}) = Depth(K)
    BY <2>1, MaxTwo
  <2> QED BY <2>1, <2>2
<1>7. ASSUME NEW a PROVE EndsBetween(a, End(K + 1) + 1) = EndsBetween(a, End(K) + 1)
  <2>1. EndsBetween(a, End(K + 1) + 1) = EndsBetween(a, End(K) + 1)
             \cup (IF a < Piece(K + 1).from /\ Depth(K + 1) = 0
                   THEN {ends(Piece(K + 1))} \ {"nothing"} ELSE {})
    BY EndsStep
  <2> QED BY <2>1, <1>5
<1>8. ASSUME NEW k \in Texts, k <= K + 1 PROVE k <= K \/ k = K + 1
  <2>1. k \in 1 .. Len(page.pieces)
    BY PieceFacts DEF Texts
  <2> QED BY <1>1, <1>8, <2>1
<1> QED BY <1>1, <1>2, <1>3, <1>4, <1>5, <1>6, <1>7, <1>8

\* A blank may be left out when a newline is pending, or two end the text.
LEMMA GoodDropped ==
    ASSUME page \in PageType, AllWhole, NEW K \in 0 .. Len(page.pieces) - 1,
           Piece(K + 1).kind = "text", Shows(K + 1) \in Space, Depth(K) = 0,
           NEW o \in Seq(CharType), NEW pd \in 0 .. 2, NEW nl \in Nat, Good(o, pd, nl, K),
           NEW pd2, pd2 = pd \/ (nl >= 2 /\ pd2 = 0)
    PROVE  Good(o, pd2, nl, K + 1)
<1>1. Kept(o, K) /\ Parted(o, pd, nl, K) /\ Apart(o, pd, K)
  BY DEF Good
<1>2. /\ Depth(K + 1) = Depth(K) /\ ends(Piece(K + 1)) = "nothing" /\ K \in Nat
      /\ \A k \in Texts : k <= K + 1 => k <= K \/ k = K + 1
  BY TextNext
<1>3. Kept(o, K + 1)
  <2>1. OnlyText(o, K + 1)
    <3> SUFFICES ASSUME NEW i \in DOMAIN o, o[i].src # 0
                 PROVE  \E k \in Texts : k <= K + 1 /\ IsFrom(o, i, k)
      BY <1>1 DEF Kept, OnlyText
    <3>1. PICK k \in Texts : k <= K /\ IsFrom(o, i, k)
      BY <1>1 DEF Kept, OnlyText
    <3>2. k <= K + 1
      <4>1. k \in 1 .. Len(page.pieces)
        BY PieceFacts DEF Texts
      <4> QED BY <1>2, <3>1, <4>1
    <3> QED BY <3>1, <3>2
  <2>2. AllText(o, K + 1)
    BY <1>1, <1>2, 0 > 0 <=> FALSE DEF Kept, AllText
  <2> QED BY <1>1, <2>1, <2>2 DEF Kept
<1>4. Parted(o, pd, nl, K + 1) /\ Apart(o, pd, K + 1)
  BY <1>1, <1>2, GoodOn
<1>5. CASE pd2 = pd
  BY <1>3, <1>4, <1>5 DEF Good
<1>6. CASE nl >= 2 /\ pd2 = 0
  <2>1. Parted(o, pd2, nl, K + 1)
    BY <1>4, <1>6 DEF Parted
  <2>2. o # <<>> /\ o[Len(o)].ch = "\n"
    BY <1>4, <1>6 DEF Parted
  <2>3. ASSUME NEW i \in DOMAIN o, o[i].ch \notin Space
        PROVE  i < Len(o) /\ Newline(o, i + 1, Len(o))
    <3>1. i \in 1 .. Len(o) /\ Len(o) \in Nat
      OBVIOUS
    <3>2. i # Len(o)
      BY <2>2, <2>3 DEF Space
    <3>3. i < Len(o) /\ Len(o) \in i + 1 .. Len(o)
      BY <3>1, <3>2
    <3> QED BY <2>2, <3>3 DEF Newline
  <2>4. Apart(o, pd2, K + 1)
    BY <1>4, <2>3 DEF Apart
  <2> QED BY <1>3, <2>1, <2>4 DEF Good
<1> QED BY <1>5, <1>6

\* A text that is written, behind a separator or not.
Written(o, pd, nl, o2, K) ==
    LET M == Len(o)
        N == Len(o2)
        c == o2[Len(o2)]
    IN  /\ N = M + 1 \/ N = M + 2
        /\ \A i \in DOMAIN o : o2[i] = o[i]
        /\ IsFrom(o2, N, K + 1)
        /\ N = M + 1 => /\ pd = 2 => c.ch = "\n" \/ nl >= 2
                        /\ pd = 1 => c.ch \in Space
        /\ N = M + 2 => /\ pd # 0 /\ o2[M + 1].src = 0 /\ o2[M + 1].ch \in Space
                        /\ pd = 2 => o2[M + 1].ch = "\n"

LEMMA KeptWritten ==
    ASSUME page \in PageType, AllWhole, NEW K \in 0 .. Len(page.pieces) - 1,
           Piece(K + 1).kind = "text", NEW o \in Seq(CharType), NEW o2 \in Seq(CharType),
           NEW pd, NEW nl, Kept(o, K), Written(o, pd, nl, o2, K)
    PROVE  Kept(o2, K + 1)
<1> DEFINE M == Len(o)
           N == Len(o2)
           q == Piece(K + 1).from
<1>1. /\ M \in Nat /\ N \in Nat /\ M < N /\ DOMAIN o = 1 .. M /\ DOMAIN o2 = 1 .. N
      /\ \A i \in 1 .. N : i \in 1 .. M \/ i = N \/ (i = M + 1 /\ N = M + 2)
      /\ \A i \in 1 .. M : o2[i] = o[i]
  <2>1. M \in Nat /\ N \in Nat /\ DOMAIN o = 1 .. M /\ DOMAIN o2 = 1 .. N
    BY SeqIs
  <2>2. N = M + 1 \/ N = M + 2
    BY Zenon DEF Written
  <2>3. \A i \in 1 .. M : o2[i] = o[i]
    BY <2>1, Zenon DEF Written
  <2> HIDE DEF M, N
  <2> QED BY <2>1, <2>2, <2>3
<1>2. /\ K + 1 \in Texts /\ K \in Nat /\ q = End(K) + 1 /\ End(K) \in Nat
      /\ \A k \in Texts : k <= K + 1 => k <= K \/ k = K + 1
  BY TextNext
<1>3. IsFrom(o2, N, K + 1) /\ (N = M + 2 => o2[M + 1].src = 0 /\ o2[M + 1].ch \in Space)
  BY DEF Written
<1>4. o2[N].src = q /\ q # 0
  BY <1>2, <1>3 DEF IsFrom
<1>5. \A i \in 1 .. M : o[i].src \in 0 .. End(K)
  <2>1. K \in 0 .. Len(page.pieces)
    BY PieceFacts
  <2> QED BY <1>1, <2>1, Behindhand, Zenon
<1> HIDE DEF M, N, q
<1>6. OnlyText(o2, K + 1)
  <2> SUFFICES ASSUME NEW i \in 1 .. N
               PROVE  IF o2[i].src = 0 THEN o2[i].ch \in Space
                      ELSE \E k \in Texts : k <= K + 1 /\ IsFrom(o2, i, k)
    BY <1>1 DEF OnlyText
  <2>1. CASE i \in 1 .. M
    <3>1. o2[i] = o[i]
      BY <1>1, <2>1
    <3>2. CASE o2[i].src = 0
      BY <1>1, <2>1, <3>1, <3>2 DEF Kept, OnlyText
    <3>3. CASE o2[i].src # 0
      <4>1. PICK k \in Texts : k <= K /\ IsFrom(o, i, k)
        BY <1>1, <2>1, <3>1, <3>3 DEF Kept, OnlyText
      <4>2. k <= K + 1
        <5>1. k \in 1 .. Len(page.pieces)
          BY PieceFacts DEF Texts
        <5> QED BY <1>2, <4>1, <5>1
      <4>3. IsFrom(o2, i, k)
        BY <3>1, <4>1 DEF IsFrom
      <4> QED BY <3>3, <4>2, <4>3
    <3> QED BY <3>2, <3>3
  <2>2. CASE i = N
    <3>1. K + 1 <= K + 1
      BY <1>2
    <3> QED BY <2>2, <3>1, <1>2, <1>3, <1>4
  <2>3. CASE i = M + 1 /\ N = M + 2
    BY <2>3, <1>3
  <2> QED BY <1>1, <2>1, <2>2, <2>3
<1>7. InOrder(o2)
  <2> SUFFICES ASSUME NEW i \in 1 .. N, NEW j \in 1 .. N, i < j, o2[i].src # 0, o2[j].src # 0
               PROVE  o2[i].src < o2[j].src
    BY <1>1 DEF InOrder
  <2>1. i \in 1 .. M
    BY <1>1, <1>3
  <2>2. o2[i] = o[i] /\ o[i].src \in 0 .. End(K)
    BY <1>1, <1>5, <2>1
  <2>3. CASE j \in 1 .. M
    <3>1. o2[j] = o[j]
      BY <1>1, <2>3
    <3> QED BY <1>1, <2>1, <2>2, <2>3, <3>1 DEF Kept, InOrder
  <2>4. CASE j = N
    BY <1>2, <1>4, <2>2, <2>4
  <2> QED BY <1>1, <1>3, <2>3, <2>4
<1>8. AllText(o2, K + 1)
  <2> SUFFICES ASSUME NEW k \in Texts, k <= K + 1, Depth(k) > 0 \/ Shows(k) \notin Space
               PROVE  \E i \in 1 .. N : o2[i].src = Piece(k).from
    BY <1>1 DEF AllText
  <2>1. CASE k <= K
    <3>1. PICK i \in 1 .. M : o[i].src = Piece(k).from
      BY <1>1, <2>1 DEF Kept, AllText
    <3>2. i \in 1 .. N /\ o2[i] = o[i]
      BY <1>1, <3>1
    <3> QED BY <3>1, <3>2
  <2>2. CASE k = K + 1
    <3>1. N \in 1 .. N
      BY <1>1
    <3> QED BY <2>2, <3>1, <1>4 DEF q
  <2> QED BY <1>2, <2>1, <2>2
<1> QED BY <1>6, <1>7, <1>8 DEF Kept

LEMMA GoodWritten ==
    ASSUME page \in PageType, AllWhole, NEW K \in 0 .. Len(page.pieces) - 1,
           Piece(K + 1).kind = "text", NEW o \in Seq(CharType), NEW o2 \in Seq(CharType),
           NEW pd \in 0 .. 2, NEW nl \in Nat, NEW nl2, Good(o, pd, nl, K),
           Written(o, pd, nl, o2, K), nl2 > 0 => o2[Len(o2)].ch = "\n"
    PROVE  Good(o2, 0, nl2, K + 1)
<1> DEFINE M == Len(o)
           N == Len(o2)
           q == Piece(K + 1).from
           E(i) == EndsBetween(o[i].src, q)
<1>1. /\ M \in Nat /\ N \in Nat /\ M < N /\ DOMAIN o = 1 .. M /\ DOMAIN o2 = 1 .. N
      /\ \A i \in 1 .. N : i \in 1 .. M \/ i = N \/ (i = M + 1 /\ N = M + 2)
      /\ \A i \in 1 .. M : o2[i] = o[i]
      /\ N = M + 1 \/ N = M + 2
  <2>1. M \in Nat /\ N \in Nat /\ DOMAIN o = 1 .. M /\ DOMAIN o2 = 1 .. N
    BY SeqIs
  <2>2. N = M + 1 \/ N = M + 2
    BY Zenon DEF Written
  <2>3. \A i \in 1 .. M : o2[i] = o[i]
    BY <2>1, Zenon DEF Written
  <2> HIDE DEF M, N
  <2> QED BY <2>1, <2>2, <2>3
<1>2. /\ q = End(K) + 1 /\ End(K) \in Nat /\ q \in Nat /\ q # 0 /\ End(K + 1) + 1 = q + 1
      /\ \A a : EndsBetween(a, End(K + 1) + 1) = EndsBetween(a, q)
  BY TextNext
<1>3. o2[N].src = q
  BY DEF Written, IsFrom
<1>4. /\ N = M + 1 => /\ pd = 2 => o2[N].ch = "\n" \/ nl >= 2
                      /\ pd = 1 => o2[N].ch \in Space
      /\ N = M + 2 => /\ pd # 0 /\ o2[M + 1].src = 0 /\ o2[M + 1].ch \in Space
                      /\ pd = 2 => o2[M + 1].ch = "\n"
  BY DEF Written
<1>5. /\ o # <<>> => o[M].src # 0
      /\ nl > 0 => o # <<>> /\ o[M].ch = "\n"
      /\ pd # 0 => o # <<>> /\ E(M) # {}
      /\ \A i \in 1 .. M : o[i].src = 0 =>
            /\ i - 1 \in 1 .. M /\ i + 1 \in 1 .. M
            /\ EndsBetween(o[i - 1].src, o[i + 1].src) # {}
  BY <1>1, <1>2, Zenon DEF Good, Parted
<1>6. \A i \in 1 .. M : o[i].ch \notin Space /\ Blank(o, i + 1, M) =>
             /\ "block" \in E(i) => pd = 2 \/ Newline(o, i + 1, M)
             /\ "cell" \in E(i) => pd # 0 \/ i < M
  BY <1>1, <1>2, Zenon DEF Good, Apart
<1>7. o # <<>> => M \in 1 .. M
  BY SeqIs
<1>8. "\n" \in Space
  BY DEF Space
<1> HIDE DEF M, N, q, E
<1>9. Parted(o2, 0, nl2, K + 1)
  <2>1. o2 # <<>> => o2[N].src # 0
    BY <1>2, <1>3
  <2>2. nl2 > 0 => o2 # <<>> /\ o2[N].ch = "\n"
    <3>1. o2 # <<>>
      BY <1>1
    <3> QED BY <3>1 DEF N
  <2>3. ASSUME NEW i \in 1 .. N, o2[i].src = 0
        PROVE  /\ i - 1 \in 1 .. N /\ i + 1 \in 1 .. N
               /\ EndsBetween(o2[i - 1].src, o2[i + 1].src) # {}
    <3>1. CASE i \in 1 .. M
      <4>1. /\ i - 1 \in 1 .. M /\ i + 1 \in 1 .. M
            /\ EndsBetween(o[i - 1].src, o[i + 1].src) # {}
        BY <1>1, <1>5, <2>3, <3>1
      <4>2. o2[i - 1] = o[i - 1] /\ o2[i + 1] = o[i + 1]
        BY <1>1, <4>1
      <4> QED BY <1>1, <4>1, <4>2
    <3>2. CASE i = M + 1 /\ N = M + 2
      <4>1. M \in 1 .. M /\ E(M) # {}
        BY <1>4, <1>5, <1>7, <3>2
      <4>2. i - 1 = M /\ i + 1 = N /\ o2[M] = o[M]
        BY <1>1, <3>2, <4>1
      <4>3. i - 1 \in 1 .. N /\ i + 1 \in 1 .. N
        BY <1>1, <3>2, <4>1
      <4> QED BY <1>3, <4>1, <4>2, <4>3 DEF E
    <3>3. i # N
      BY <1>2, <1>3, <2>3
    <3> QED BY <1>1, <3>1, <3>2, <3>3
  <2> QED BY <1>1, <2>1, <2>2, <2>3, Zenon DEF Parted, N
\* What ended behind a letter, up to the new character.
<1>10. ASSUME NEW i \in 1 .. M, o[i].ch \notin Space, Blank(o, i + 1, M)
       PROVE  /\ "block" \in E(i) => Newline(o2, i + 1, N - 1) \/ o2[N].ch = "\n"
              /\ "cell" \in E(i) => i < N - 1 \/ o2[N].ch \in Space
  <2>1. nl >= 2 => i < M /\ Newline(o, i + 1, M)
    <3> SUFFICES ASSUME nl >= 2 PROVE i < M /\ Newline(o, i + 1, M)
      OBVIOUS
    <3>1. o[M].ch = "\n"
      BY <1>5
    <3>2. i # M
      BY <1>8, <1>10, <3>1
    <3>3. i < M /\ M \in i + 1 .. M
      BY <1>1, <3>2
    <3> QED BY <3>1, <3>3 DEF Newline
  <2>2. Newline(o, i + 1, M) => Newline(o2, i + 1, N - 1)
    <3> SUFFICES ASSUME Newline(o, i + 1, M) PROVE Newline(o2, i + 1, N - 1)
      OBVIOUS
    <3>1. PICK m \in i + 1 .. M : o[m].ch = "\n"
      BY DEF Newline
    <3>2. m \in 1 .. M /\ m \in i + 1 .. N - 1
      BY <1>1, <3>1
    <3> QED BY <1>1, <3>1, <3>2 DEF Newline
  <2>3. /\ "block" \in E(i) => pd = 2 \/ Newline(o, i + 1, M)
        /\ "cell" \in E(i) => pd # 0 \/ i < M
    BY <1>6, <1>10
  <2>4. CASE N = M + 1
    <3>1. N - 1 = M
      BY <1>1, <2>4
    <3>2. pd # 0 => pd = 1 \/ pd = 2
      OBVIOUS
    <3>3. "cell" \in E(i) => i < M \/ o2[N].ch \in Space
      BY <1>4, <1>8, <2>1, <2>3, <2>4, <3>2
    <3>4. "block" \in E(i) => Newline(o2, i + 1, N - 1) \/ o2[N].ch = "\n"
      BY <1>4, <2>1, <2>2, <2>3, <2>4
    <3> QED BY <3>1, <3>3, <3>4
  <2>5. CASE N = M + 2
    <3>1. i < N - 1 /\ M + 1 \in i + 1 .. N - 1
      BY <1>1, <2>5
    <3>2. pd = 2 => Newline(o2, i + 1, N - 1)
      BY <1>4, <2>5, <3>1 DEF Newline
    <3> QED BY <2>2, <2>3, <3>1, <3>2
  <2> QED BY <1>1, <2>4, <2>5
<1>11. ASSUME NEW i \in 1 .. N, o2[i].ch \notin Space, i # N
       PROVE  i \in 1 .. M /\ o2[i] = o[i]
  BY <1>1, <1>4, <1>11
<1>12. ASSUME NEW i \in 1 .. M, NEW j \in 1 .. N, Blank(o2, i + 1, j), j >= M
       PROVE  Blank(o, i + 1, M)
  <2> SUFFICES ASSUME NEW m \in i + 1 .. M PROVE o[m].ch \in Space
    BY DEF Blank
  <2>1. m \in 1 .. M /\ m \in i + 1 .. j
    BY <1>1, <1>12
  <2> QED BY <1>1, <1>12, <2>1 DEF Blank
<1>13. ASSUME NEW i \in 1 .. N, NEW j \in 1 .. N, i < j,
              o2[i].ch \notin Space, o2[j].ch \notin Space, Blank(o2, i + 1, j - 1)
       PROVE  /\ "block" \in EndsBetween(o2[i].src, o2[j].src) => Newline(o2, i + 1, j - 1)
              /\ "cell" \in EndsBetween(o2[i].src, o2[j].src) => i < j - 1
  <2>1. i \in 1 .. M /\ o2[i] = o[i]
    <3>1. i # N
      BY <1>1, <1>13
    <3> QED BY <3>1, <1>11, <1>13
  <2>2. CASE j # N
    <3>1. j \in 1 .. M /\ o2[j] = o[j]
      BY <2>2, <1>11, <1>13
    <3>2. \A m \in i + 1 .. j - 1 : m \in 1 .. M /\ o2[m] = o[m]
      <4> SUFFICES ASSUME NEW m \in i + 1 .. j - 1 PROVE m \in 1 .. M
        BY <1>1
      <4> QED BY <1>1, <2>1, <3>1
    <3>3. Blank(o, i + 1, j - 1) /\ (Newline(o, i + 1, j - 1) => Newline(o2, i + 1, j - 1))
      BY <1>13, <3>2 DEF Blank, Newline
    <3>4. /\ "block" \in EndsBetween(o[i].src, o[j].src) => Newline(o, i + 1, j - 1)
          /\ "cell" \in EndsBetween(o[i].src, o[j].src) => i < j - 1
      BY <1>1, <1>13, <2>1, <3>1, <3>3 DEF Good, Apart
    <3> QED BY <2>1, <3>1, <3>3, <3>4
  <2>3. CASE j = N
    <3>1. Blank(o, i + 1, M)
      <4>1. CASE M = 0
        BY <1>1, <2>1, <4>1
      <4>2. CASE M # 0
        <5>1. N - 1 \in 1 .. N /\ N - 1 >= M
          BY <1>1, <4>2
        <5> QED BY <5>1, <1>12, <1>13, <2>1, <2>3
      <4> QED BY <4>1, <4>2
    <3>2. /\ "block" \in E(i) => Newline(o2, i + 1, N - 1) \/ o2[N].ch = "\n"
          /\ "cell" \in E(i) => i < N - 1 \/ o2[N].ch \in Space
      BY <1>10, <1>13, <2>1, <3>1
    <3>3. EndsBetween(o2[i].src, o2[j].src) = E(i)
      BY <1>3, <2>1, <2>3 DEF E
    <3> QED BY <1>8, <1>13, <2>3, <3>2, <3>3
  <2> QED BY <2>2, <2>3
<1>14. ASSUME NEW i \in 1 .. N, o2[i].ch \notin Space, Blank(o2, i + 1, N)
       PROVE  /\ "block" \in EndsBetween(o2[i].src, End(K + 1) + 1) =>
                    0 = 2 \/ Newline(o2, i + 1, N)
              /\ "cell" \in EndsBetween(o2[i].src, End(K + 1) + 1) => 0 # 0 \/ i < N
  <2>1. CASE i = N
    <3>1. EndsBetween(q, q) = {}
      BY <1>2, EndsNowhere
    <3> QED BY <1>2, <1>3, <2>1, <3>1
  <2>2. CASE i # N
    <3>1. i \in 1 .. M /\ o2[i] = o[i]
      BY <2>2, <1>11, <1>14
    <3>2. Blank(o, i + 1, M)
      <4>1. N \in 1 .. N /\ N >= M
        BY <1>1
      <4> QED BY <4>1, <1>12, <1>14, <3>1
    <3>3. "block" \in E(i) => Newline(o2, i + 1, N - 1) \/ o2[N].ch = "\n"
      BY <1>10, <1>14, <3>1, <3>2
    <3>4. EndsBetween(o2[i].src, End(K + 1) + 1) = E(i)
      BY <1>2, <3>1 DEF E
    <3>5. i < N /\ N \in i + 1 .. N /\ i + 1 .. N - 1 \subseteq i + 1 .. N
      BY <1>1, <3>1
    <3>6. "block" \in E(i) => Newline(o2, i + 1, N)
      BY <3>3, <3>5, Zenon DEF Newline
    <3> QED BY <3>4, <3>5, <3>6
  <2> QED BY <2>1, <2>2
<1>15. Apart(o2, 0, K + 1)
  BY <1>1, <1>13, <1>14, Zenon DEF Apart, N
<1>16. Kept(o2, K + 1)
  BY KeptWritten DEF Good
<1> QED BY <1>9, <1>15, <1>16 DEF Good

-----------------------------------------------------------------------------
(***************************************************************************)
(* The page does not change, and neither does anything said of it alone.   *)
(***************************************************************************)
DepthOf(pg, k) ==
    LET depth[j \in 0 .. Len(pg.pieces)] ==
            IF j = 0 THEN 0 ELSE Max({0, depth[j - 1] + nest(pg.pieces[j])})
    IN  depth[k]

LEMMA StaticDepth ==
    ASSUME page' = page
    PROVE  \A k : Depth(k)' = Depth(k)
<1>1. \A k : Depth(k) = DepthOf(page, k)
  BY DEF Depth, DepthOf, Piece
<1>2. \A k : Depth(k)' = DepthOf(page', k)
  BY DEF Depth, DepthOf, Piece
<1> QED BY <1>1, <1>2

LEMMA Static ==
    ASSUME page' = page
    PROVE  /\ input' = input
           /\ \A k : Piece(k)' = Piece(k) /\ End(k)' = End(k) /\ Shows(k)' = Shows(k)
           /\ Texts' = Texts
           /\ \A a, b : EndsBetween(a, b)' = EndsBetween(a, b)
<1>1. input' = input /\ \A k : Piece(k)' = Piece(k)
  BY DEF input, Piece
<1>2. \A k : End(k)' = End(k) /\ Shows(k)' = Shows(k)
  BY <1>1 DEF End, Shows
<1>3. Texts' = Texts
  BY <1>1 DEF Texts
<1>4. ASSUME NEW a, NEW b PROVE EndsBetween(a, b)' = EndsBetween(a, b)
  BY <1>1, StaticDepth DEF EndsBetween
<1> QED BY <1>1, <1>2, <1>3, <1>4

LEMMA StaticWhole ==
    ASSUME page' = page
    PROVE  AllWhole' <=> AllWhole
<1>1. input' = input /\ (\A k : Piece(k)' = Piece(k)) /\ (\A k : End(k)' = End(k))
  BY Static
<1>2. \A i, s : Is(i, s)' <=> Is(i, s)
  BY <1>1 DEF Is
<1>3. \A i, S : IsOneOf(i, S)' <=> IsOneOf(i, S)
  BY <1>1 DEF IsOneOf
<1>4. ASSUME NEW a, NEW k PROVE quoted(a, k)' <=> quoted(a, k)
  BY <1>2 DEF quoted
<1>5. ASSUME NEW a, NEW b PROVE IsTag(a, b)' <=> IsTag(a, b)
  BY <1>2, <1>4 DEF IsTag
<1>6. \A i : is_tag_boundary(i)' <=> is_tag_boundary(i)
  BY <1>1, <1>3 DEF is_tag_boundary
<1>7. \A p : IsWritten(p)' <=> IsWritten(p)
  BY <1>2, <1>6 DEF IsWritten
<1>8. \A a, b : IsComment(a, b)' <=> IsComment(a, b)
  BY <1>2 DEF IsComment, comment_at
<1>9. \A i, name : /\ named_opening_tag_at(i, name)' <=> named_opening_tag_at(i, name)
                   /\ named_closing_tag_at(i, name)' <=> named_closing_tag_at(i, name)
  BY <1>2, <1>6 DEF named_opening_tag_at, named_closing_tag_at
<1>10. \A p : IsRaw(p)' <=> IsRaw(p)
  BY <1>5, <1>9 DEF IsRaw
<1>11. \A a : IsText(a)' <=> IsText(a)
  BY <1>1, <1>2, <1>3 DEF IsText, starts_tag
<1>12. \A p : Whole(p)' <=> Whole(p)
  BY <1>5, <1>7, <1>8, <1>10, <1>11 DEF Whole
<1> QED BY <1>1, <1>12 DEF AllWhole

LEMMA StaticGood ==
    ASSUME page' = page, NEW K, Good(out', pending', trailing_newlines', K)
    PROVE  Good(out, pending, trailing_newlines, K)'
<1>1. /\ \A k : Piece(k)' = Piece(k) /\ End(k)' = End(k) /\ Shows(k)' = Shows(k)
      /\ Texts' = Texts
      /\ \A a, b : EndsBetween(a, b)' = EndsBetween(a, b)
      /\ \A k : Depth(k)' = Depth(k)
  BY Static, StaticDepth
<1>2. Kept(out, K)'
  <2>1. \A i, k : IsFrom(out', i, k) => IsFrom(out, i, k)'
    BY <1>1 DEF IsFrom
  <2>2. OnlyText(out', K) /\ InOrder(out') /\ AllText(out', K)
    BY DEF Good, Kept
  <2>3. OnlyText(out, K)'
    BY <1>1, <2>1, <2>2 DEF OnlyText
  <2>4. InOrder(out)'
    BY <2>2 DEF InOrder
  <2>5. AllText(out, K)'
    BY <1>1, <2>2 DEF AllText
  <2> QED BY <2>3, <2>4, <2>5 DEF Kept
<1>3. Parted(out, pending, trailing_newlines, K)'
  BY <1>1 DEF Good, Parted
<1>4. Apart(out, pending, K)'
  BY <1>1 DEF Good, Apart, Blank, Newline
<1> QED BY <1>2, <1>3, <1>4 DEF Good

(***************************************************************************)
(* The steps.                                                              *)
(***************************************************************************)
LEMMA InitInv == Init => Inv
<1> SUFFICES ASSUME Init PROVE Inv
  OBVIOUS
<1>1. page \in PageType
  BY MarkupAssumption DEF Init
<1>2. R \in RType /\ out = <<>> /\ DOMAIN out = {} /\ pending = 0 /\ trailing_newlines = 0
  <2>1. <<>> \in Seq(CharType)
    OBVIOUS
  <2> QED BY <2>1 DEF Init, R, RType
<1>3. ASSUME AllWhole
      PROVE  /\ 0 \in 0 .. Len(page.pieces) /\ at = End(0) + 1 /\ pre_depth = Depth(0)
             /\ Good(out, pending, trailing_newlines, 0)
  <2>1. 0 \in 0 .. Len(page.pieces) /\ at = End(0) + 1 /\ pre_depth = Depth(0)
    BY <1>1, <1>3, PieceFacts, DepthStep DEF Init, End
  <2>2. \A k \in Texts : ~(k <= 0)
    BY <1>1, <1>3, PieceFacts DEF Texts
  <2>3. Kept(out, 0)
    BY <1>2, <2>2 DEF Kept, OnlyText, InOrder, AllText
  <2>4. Parted(out, pending, trailing_newlines, 0)
    BY <1>2, 0 > 0 <=> FALSE DEF Parted
  <2>5. Apart(out, pending, 0)
    BY <1>2 DEF Apart
  <2> QED BY <2>1, <2>3, <2>4, <2>5 DEF Good
<1>4. result # "rendered"
  BY DEF Init
<1>5. AllWhole => Stands(0) /\ 0 \in 0 .. Len(page.pieces)
  BY <1>1, <1>2, <1>3 DEF Stands
<1> QED BY <1>1, <1>4, <1>5 DEF Inv

\* A piece is ahead as long as a symbol is.
LEMMA PieceAhead ==
    ASSUME NEW K, Stands(K), at <= Len(input)
    PROVE  /\ K \in 0 .. Len(page.pieces) - 1 /\ at = Piece(K + 1).from
           /\ Piece(K + 1) \in Pieces /\ Whole(Piece(K + 1))
           /\ Piece(K + 1).to = End(K + 1)
           /\ K + 1 \in 0 .. Len(page.pieces)
<1> USE DEF Stands
<1>1. K # Len(page.pieces)
  BY PieceFacts
<1>2. K \in 0 .. Len(page.pieces) - 1 /\ K + 1 \in 1 .. Len(page.pieces) /\ (K + 1) - 1 = K
  BY <1>1, PieceFacts
<1> QED BY <1>2, PieceFacts

\* A comment, a script or a style.
LEMMA QuietStep ==
    ASSUME NEW K, Stands(K), at <= Len(input), Piece(K + 1).kind \in {"comment", "raw"}
    PROVE  Depth(K + 1) = Depth(K) /\ Good(out, pending, trailing_newlines, K + 1)
<1>1. /\ K \in 0 .. Len(page.pieces) - 1 /\ K + 1 \in 1 .. Len(page.pieces) /\ (K + 1) - 1 = K
      /\ K \in 0 .. Len(page.pieces)
  BY PieceAhead, PieceFacts DEF Stands
<1>2. ends(Piece(K + 1)) = "nothing" /\ nest(Piece(K + 1)) = 0 /\ Piece(K + 1).kind # "text"
  BY DEF ends, nest
<1>3. Depth(K + 1) = Depth(K)
  <2>1. Depth(K + 1) = Max({0, Depth(K) + 0}) /\ Depth(K) \in Nat
    BY <1>1, <1>2, DepthStep DEF Stands
  <2>2. Depth(K) + 0 = Depth(K) /\ Max({0, Depth(K)}) = Depth(K)
    BY <2>1, MaxTwo
  <2> QED BY <2>1, <2>2
<1>4. Kept(out, K) /\ Parted(out, pending, trailing_newlines, K) /\ Apart(out, pending, K)
  BY DEF Stands, Good
<1>5. Kept(out, K + 1)
  BY <1>1, <1>2, <1>4, KeptOn DEF Stands
<1>6. Parted(out, pending, trailing_newlines, K + 1) /\ Apart(out, pending, K + 1)
  BY <1>1, <1>2, <1>4, GoodOn DEF Stands
<1> QED BY <1>3, <1>5, <1>6 DEF Good

LEMMA RFields ==
    ASSUME R \in RType
    PROVE  /\ out \in Seq(CharType) /\ trailing_newlines \in Nat /\ pending \in 0 .. 2
           /\ pre_depth \in Nat
           /\ R.out = out /\ R.newlines = trailing_newlines /\ R.pending = pending
           /\ R.depth = pre_depth
<1>1. /\ R.out = out /\ R.newlines = trailing_newlines /\ R.pending = pending
      /\ R.depth = pre_depth
  BY DEF R
<1>2. R.out \in Seq(CharType) /\ R.newlines \in Nat /\ R.pending \in 0 .. 2 /\ R.depth \in Nat
  BY DEF RType
<1> QED BY <1>1, <1>2

LEMMA TagStep ==
    ASSUME NEW K, Stands(K), at <= Len(input), Piece(K + 1).kind = "tag"
    PROVE  LET q == Renderer_tag(R, Tag_parse(at, End(K + 1)))
           IN  q \in RType /\ q.depth = Depth(K + 1) /\ Good(q.out, q.pending, q.newlines, K + 1)
<1> DEFINE q == Renderer_tag(R, Tag_parse(at, End(K + 1)))
           p == Piece(K + 1)
           d == Max({0, R.depth + nest(p)})
           pd == IF d = 0 /\ R.out # <<>> THEN Max({R.pending, Wants(p)}) ELSE R.pending
<1>1. /\ K \in 0 .. Len(page.pieces) - 1 /\ at = p.from /\ p \in Pieces /\ Whole(p)
      /\ p.to = End(K + 1)
  BY PieceAhead
<1>2. R \in RType /\ page \in PageType /\ AllWhole
  BY DEF Stands
<1>3. q = [R EXCEPT !.depth = d, !.pending = pd]
  <2>1. q = [R EXCEPT !.depth = d,
                      !.pending = IF d = 0 /\ R.out # <<>> THEN Max({@, Wants(p)}) ELSE @]
    BY <1>1, <1>2, TagMeans
  <2> QED BY <2>1
<1>4. /\ out \in Seq(CharType) /\ trailing_newlines \in Nat /\ pending \in 0 .. 2
      /\ R.out = out /\ R.newlines = trailing_newlines /\ R.pending = pending
      /\ R.depth = pre_depth
  BY <1>2, RFields
<1>5. d = Depth(K + 1) /\ d \in Nat
  <2>1. K + 1 \in 1 .. Len(page.pieces) /\ (K + 1) - 1 = K /\ K + 1 \in 0 .. Len(page.pieces)
    BY <1>1, <1>2, PieceFacts
  <2>2. Depth(K + 1) = Max({0, Depth(K) + nest(p)}) /\ Depth(K + 1) \in Nat
    BY <1>2, <2>1, DepthStep
  <2> QED BY <1>4, <2>2 DEF Stands
<1>6. Wants(p) \in 0 .. 2
  BY DEF Wants
<1>7. pd \in 0 .. 2
  <2>1. Max({R.pending, Wants(p)}) \in 0 .. 2
    BY <1>4, <1>6, MaxTwo
  <2> QED BY <1>4, <2>1
<1> HIDE DEF q, d, pd, p
<1>8. q \in RType /\ q.depth = d /\ q.out = out /\ q.pending = pd /\ q.newlines = trailing_newlines
  BY <1>2, <1>3, <1>4, <1>5, <1>7 DEF RType
<1>9. Kept(out, K) /\ Parted(out, pending, trailing_newlines, K) /\ Apart(out, pending, K)
  BY DEF Stands, Good
<1>10. Kept(out, K + 1)
  <2>1. Piece(K + 1).kind # "text"
    OBVIOUS
  <2> QED BY <1>1, <1>2, <1>9, <2>1, KeptOn
<1>11. Parted(out, pd, trailing_newlines, K + 1) /\ Apart(out, pd, K + 1)
  <2>1. CASE d # 0
    <3>1. pd = pending
      BY <1>4, <2>1 DEF pd
    <3> QED BY <1>1, <1>2, <1>5, <1>9, <2>1, <3>1, GoodOn
  <2>2. CASE d = 0 /\ out # <<>>
    <3>1. pd = Max({pending, Wants(Piece(K + 1))})
      BY <1>4, <2>2 DEF pd, p
    <3> QED BY <1>1, <1>2, <1>4, <1>5, <1>9, <2>2, <3>1, GoodEnds
  <2>3. CASE out = <<>>
    <3>1. pd = pending /\ pending = 0 /\ DOMAIN out = {}
      BY <1>4, <1>9, <2>3 DEF pd, Parted
    <3>2. ~(trailing_newlines > 0)
      BY <1>9, <2>3 DEF Parted
    <3>3. Parted(out, pd, trailing_newlines, K + 1)
      BY <2>3, <3>1, <3>2 DEF Parted
    <3>4. Apart(out, pd, K + 1)
      BY <3>1 DEF Apart
    <3> QED BY <3>3, <3>4
  <2> QED BY <2>1, <2>2, <2>3
<1>12. Good(q.out, q.pending, q.newlines, K + 1)
  BY <1>8, <1>10, <1>11 DEF Good
<1> QED BY <1>5, <1>8, <1>12 DEF q

LEMMA Decoded ==
    ASSUME NEW x \in Symbols
    PROVE  decoded_entity(x) \in Chars
<1>1. "&" \in Chars /\ " " \in Chars
  BY DEF Chars, Symbols, Marks, Entities
<1>2. CASE x = "&amp;"
  BY <1>1, <1>2 DEF decoded_entity
<1>3. CASE x = "&nbsp;"
  <2>1. x # "&amp;"
    BY <1>3
  <2> QED BY <1>1, <1>3, <2>1, Zenon DEF decoded_entity
<1>4. CASE x # "&amp;" /\ x # "&nbsp;"
  BY <1>4 DEF decoded_entity, Chars, Entities
<1> QED BY <1>2, <1>3, <1>4

LEMMA TextStep ==
    ASSUME NEW K, Stands(K), at <= Len(input), Piece(K + 1).kind = "text"
    PROVE  LET q == push(R, decoded_entity(input[at]), at)
           IN  /\ q \in RType /\ q.depth = Depth(K + 1) /\ End(K + 1) = at
               /\ Good(q.out, q.pending, q.newlines, K + 1)
<1> DEFINE ch == decoded_entity(input[at])
           q == push(R, ch, at)
           M == Len(out)
           c == Rendered(R, ch, at)
<1>1. K \in 0 .. Len(page.pieces) - 1 /\ at = Piece(K + 1).from
  BY PieceAhead
<1>2. R \in RType /\ page \in PageType /\ AllWhole /\ pre_depth = Depth(K)
      /\ Good(out, pending, trailing_newlines, K)
  BY DEF Stands
<1>3. /\ K + 1 \in Texts /\ K \in Nat
      /\ Piece(K + 1).from = End(K) + 1 /\ Piece(K + 1).to = Piece(K + 1).from
      /\ End(K + 1) = End(K) + 1 /\ End(K) \in Nat
      /\ ends(Piece(K + 1)) = "nothing" /\ Depth(K + 1) = Depth(K)
  BY <1>1, <1>2, TextNext
<1>4. at \in Nat /\ End(K + 1) = at /\ at \in 1 .. Len(input) /\ Len(input) \in Nat
  BY <1>1, <1>2, <1>3, PieceFacts
<1>5. ch \in Chars
  <2>1. input[at] \in Symbols
    BY <1>2, <1>4 DEF PageType, input
  <2> QED BY <2>1, Decoded
<1>6. Shows(K + 1) = ch
  BY <1>1 DEF Shows
<1>7. /\ out \in Seq(CharType) /\ trailing_newlines \in Nat /\ pending \in 0 .. 2
      /\ R.out = out /\ R.newlines = trailing_newlines /\ R.pending = pending
      /\ R.depth = pre_depth
  BY <1>2, RFields
<1> HIDE DEF ch
<1>8. /\ q \in RType /\ q.depth = R.depth
      /\ Dropped(R, ch, q) \/ Once(R, ch, at, q) \/ Twice(R, ch, at, q)
  BY <1>2, <1>4, <1>5, PushShape
<1> HIDE DEF q
<1>9. q.out \in Seq(CharType) /\ q.newlines \in Nat
  BY <1>8 DEF RType
<1>10. c.src = at /\ c.ch = ch /\ (c.pre <=> Depth(K + 1) > 0)
  BY <1>2, <1>3, <1>7 DEF Rendered
<1> HIDE DEF c
<1>11. M \in Nat /\ DOMAIN out = 1 .. M
  BY <1>7, SeqIs
<1>12. ASSUME q.out[Len(q.out)] = c PROVE IsFrom(q.out, Len(q.out), K + 1)
  BY <1>12, <1>1, <1>6, <1>10 DEF IsFrom
<1>13. ASSUME Dropped(R, ch, q)
      PROVE  Good(q.out, q.pending, q.newlines, K + 1)
  <2>1. /\ Depth(K) = 0 /\ Shows(K + 1) \in Space
        /\ q.out = out /\ q.newlines = trailing_newlines
        /\ q.pending = pending \/ (trailing_newlines >= 2 /\ q.pending = 0)
    BY <1>2, <1>6, <1>7, <1>13 DEF Dropped
  <2>2. Good(out, q.pending, trailing_newlines, K + 1)
    BY <1>1, <1>2, <1>7, <2>1, GoodDropped
  <2> QED BY <2>1, <2>2
<1>14. ASSUME Once(R, ch, at, q)
      PROVE  Good(q.out, q.pending, q.newlines, K + 1)
  <2>1. /\ q.out = Append(out, c)
        /\ q.pending = 0 /\ (q.newlines > 0 => ch = "\n")
        /\ pending = 2 => ch = "\n" \/ trailing_newlines >= 2
        /\ pending = 1 => ch \in Space
    BY <1>7, <1>14 DEF Once, c
  <2>2. c \in CharType
    BY <1>4, <1>5 DEF c, Rendered, CharType
  <2>3. /\ Len(q.out) = M + 1 /\ q.out[Len(q.out)] = c
        /\ \A i \in 1 .. M : q.out[i] = out[i]
    BY <1>7, <1>11, <2>1, <2>2
  <2>4. Written(out, pending, trailing_newlines, q.out, K)
    <3>1. M + 1 # M + 2
      BY <1>11
    <3> QED BY <1>10, <1>11, <1>12, <2>1, <2>3, <3>1, Zenon DEF Written, M
  <2>5. q.newlines > 0 => q.out[Len(q.out)].ch = "\n"
    BY <1>10, <2>1, <2>3
  <2>6. Good(q.out, 0, q.newlines, K + 1)
    BY <1>1, <1>2, <1>7, <1>9, <2>4, <2>5, GoodWritten
  <2> QED BY <2>1, <2>6
<1>15. ASSUME Twice(R, ch, at, q)
      PROVE  Good(q.out, q.pending, q.newlines, K + 1)
  <2> DEFINE x == IF pending = 2 THEN "\n" ELSE " "
             s == Rendered(R, x, 0)
  <2>1. /\ q.out = Append(Append(out, s), c)
        /\ q.pending = 0 /\ (q.newlines > 0 => ch = "\n") /\ pending # 0
    BY <1>7, <1>15, Zenon DEF Twice, c
  <2>2. c \in CharType
    BY <1>4, <1>5 DEF c, Rendered, CharType
  <2>3. x \in Chars /\ x \in Space /\ (pending = 2 => x = "\n")
    <3>1. " " \in Chars /\ "\n" \in Chars /\ " " \in Space /\ "\n" \in Space
      BY DEF Chars, Symbols, Marks, Entities, Space
    <3> QED BY <3>1, Zenon
  <2> HIDE DEF x
  <2>4. s \in CharType /\ s.src = 0 /\ s.ch = x
    BY <2>3 DEF Rendered, CharType
  <2> HIDE DEF s
  <2>5. /\ Len(q.out) = M + 2 /\ q.out[Len(q.out)] = c /\ q.out[M + 1] = s
        /\ \A i \in 1 .. M : q.out[i] = out[i]
    <3> DEFINE o1 == Append(out, s)
    <3>1. /\ o1 \in Seq(CharType) /\ Len(o1) = M + 1 /\ o1[M + 1] = s
          /\ \A i \in 1 .. M : o1[i] = out[i]
      BY <1>7, <1>11, <2>4
    <3> HIDE DEF o1
    <3>2. q.out = Append(o1, c)
      BY <2>1 DEF o1
    <3>3. /\ Len(q.out) = M + 2 /\ q.out[M + 2] = c
          /\ \A i \in 1 .. M + 1 : q.out[i] = o1[i]
      BY <1>11, <2>2, <3>1, <3>2
    <3> QED BY <1>11, <3>1, <3>3
  <2>6. Written(out, pending, trailing_newlines, q.out, K)
    <3>1. M + 2 # M + 1
      BY <1>11
    <3> QED BY <1>11, <1>12, <2>1, <2>3, <2>4, <2>5, <3>1, Zenon DEF Written, M
  <2>7. q.newlines > 0 => q.out[Len(q.out)].ch = "\n"
    BY <1>10, <2>1, <2>5
  <2>8. Good(q.out, 0, q.newlines, K + 1)
    BY <1>1, <1>2, <1>7, <1>9, <2>6, <2>7, GoodWritten
  <2> QED BY <2>1, <2>8
<1>16. Good(q.out, q.pending, q.newlines, K + 1)
  BY <1>8, <1>13, <1>14, <1>15
<1> QED BY <1>2, <1>3, <1>4, <1>7, <1>8, <1>16 DEF q, ch

\* The next place the scanner stands, once the renderer is right there.
LEMMA StandsOn ==
    ASSUME page' = page, NEW K, Stands(K), NEW L \in 0 .. Len(page.pieces),
           at' = End(L) + 1, R' \in RType, pre_depth' = Depth(L),
           Good(out', pending', trailing_newlines', L)
    PROVE  Stands(L)' /\ L \in 0 .. Len(page'.pieces)
<1>1. (page \in PageType)' /\ AllWhole'
  BY StaticWhole DEF Stands
<1>2. End(L)' = End(L) /\ Depth(L)' = Depth(L)
  BY Static, StaticDepth
<1>3. Good(out, pending, trailing_newlines, L)'
  BY StaticGood
<1>4. L \in 0 .. Len(page'.pieces)
  OBVIOUS
<1>5. at' = End(L)' + 1 /\ pre_depth' = Depth(L)'
  BY <1>2
<1> QED BY <1>1, <1>3, <1>4, <1>5 DEF Stands

LEMMA BecomesType ==
    ASSUME NEW q \in RType, Becomes(q)
    PROVE  /\ R' \in RType /\ pre_depth' = q.depth
           /\ out' = q.out /\ pending' = q.pending /\ trailing_newlines' = q.newlines
<1>1. /\ out' = q.out /\ pending' = q.pending /\ trailing_newlines' = q.newlines
      /\ pre_depth' = q.depth
  BY DEF Becomes
<1>2. /\ q.out \in Seq(CharType) /\ q.newlines \in Nat /\ q.pending \in 0 .. 2 /\ q.depth \in Nat
  BY DEF RType
<1>3. R' = [out |-> q.out, newlines |-> q.newlines, pending |-> q.pending, depth |-> q.depth]
  BY <1>1 DEF R
<1> QED BY <1>1, <1>2, <1>3 DEF RType

\* Every construct the scanner reads of a whole page is the next piece of it.
LEMMA ScanStands ==
    ASSUME NEW K, Stands(K), at <= Len(input),
           Comment \/ RawSpan \/ Tag \/ Character, result' # "none"
    PROVE  page' = page /\ Stands(K + 1)' /\ K + 1 \in 0 .. Len(page'.pieces)
<1> DEFINE p == Piece(K + 1)
<1>1. /\ K \in 0 .. Len(page.pieces) - 1 /\ at = p.from /\ p \in Pieces /\ Whole(p)
      /\ p.to = End(K + 1) /\ K + 1 \in 0 .. Len(page.pieces)
  BY PieceAhead
<1>2. page \in PageType /\ R \in RType /\ AllWhole /\ pre_depth = Depth(K)
      /\ Len(input) \in Nat /\ at \in Nat \ {0}
  <2>1. /\ page \in PageType /\ R \in RType /\ AllWhole /\ pre_depth = Depth(K)
        /\ K + 1 \in 1 .. Len(page.pieces)
    BY <1>1, PieceFacts DEF Stands
  <2> QED BY <1>1, <2>1, PieceFacts
<1>3. /\ p.kind = "text" => ~comment_at(at) /\ ~AtTag
      /\ p.kind = "comment" =>
           comment_at(at) /\ comment_end(at) # 0 /\ comment_end(at) + 1 = p.to
      /\ p.kind = "tag" =>
           ~comment_at(at) /\ AtTag /\ ~AtRaw /\ find_tag_end(at) = p.to
      /\ p.kind = "raw" => ~comment_at(at) /\ AtRaw /\ raw_end(input[at + 1]) = p.to
  BY <1>1, <1>2, Reads
<1>4. p.kind = "text" \/ p.kind = "comment" \/ p.kind = "tag" \/ p.kind = "raw"
  BY <1>1 DEF Whole
<1>5. AtRaw => AtTag
  BY DEF AtRaw
<1>6. AtTag => ~comment_at(at) /\ Is(at, "<")
  BY DEF AtTag
<1>7. comment_at(at) => Is(at, "<")
  BY DEF comment_at
<1> HIDE DEF p
<1>8. ASSUME at' = End(K + 1) + 1, page' = page, UNCHANGED renderer, p.kind \in {"comment", "raw"}
      PROVE  page' = page /\ Stands(K + 1)' /\ K + 1 \in 0 .. Len(page'.pieces)
  <2>1. Depth(K + 1) = Depth(K) /\ Good(out, pending, trailing_newlines, K + 1)
    BY <1>8, QuietStep DEF p
  <2>2. /\ out' = out /\ pending' = pending /\ trailing_newlines' = trailing_newlines
        /\ pre_depth' = pre_depth
    BY <1>8 DEF renderer
  <2>3. R' = R
    BY <2>2 DEF R
  <2>4. R' \in RType /\ pre_depth' = Depth(K + 1)
    BY <1>2, <2>1, <2>2, <2>3
  <2>5. Good(out', pending', trailing_newlines', K + 1)
    BY <2>1, <2>2
  <2> QED BY <1>1, <1>8, <2>4, <2>5, StandsOn
<1>9. CASE Comment
  <2>1. p.kind = "comment"
    BY <1>3, <1>4, <1>5, <1>6, <1>9 DEF Comment, p
  <2>2. Skip(comment_end(at) + 1)
    BY <1>3, <1>9, <2>1 DEF Comment, GiveUp
  <2> QED BY <1>1, <1>3, <1>8, <2>1, <2>2 DEF Skip
<1>10. CASE RawSpan
  <2>1. AtRaw /\ (raw_end(input[at + 1]) # 0 => Skip(raw_end(input[at + 1])))
    BY <1>10 DEF RawSpan
  <2>2. raw_end(input[at + 1]) # 0
    BY <1>10 DEF RawSpan, GiveUp
  <2>3. p.kind = "raw"
    BY <1>3, <1>4, <1>5, <1>6, <2>1 DEF p
  <2> QED BY <1>1, <1>3, <1>8, <2>1, <2>2, <2>3 DEF Skip
<1>11. CASE Tag
  <2> DEFINE q == Renderer_tag(R, Tag_parse(at, End(K + 1)))
  <2>1. AtTag /\ ~AtRaw
    BY <1>11 DEF Tag
  <2>2. p.kind = "tag"
    BY <1>3, <1>4, <1>6, <2>1
  <2>3. find_tag_end(at) = End(K + 1)
    BY <1>1, <1>3, <2>2
  <2>4. Becomes(q) /\ at' = End(K + 1) + 1 /\ page' = page
    BY <1>11, <2>3 DEF Tag
  <2>5. q \in RType /\ q.depth = Depth(K + 1) /\ Good(q.out, q.pending, q.newlines, K + 1)
    BY <2>2, TagStep DEF p
  <2> HIDE DEF q
  <2>6. /\ R' \in RType /\ pre_depth' = Depth(K + 1)
        /\ Good(out', pending', trailing_newlines', K + 1)
    BY <2>4, <2>5, BecomesType
  <2> QED BY <1>1, <2>4, <2>6, StandsOn
<1>12. CASE Character
  <2> DEFINE q == push(R, decoded_entity(input[at]), at)
  <2>1. p.kind = "text"
    BY <1>3, <1>4, <1>5, <1>6, <1>7, <1>12 DEF Character
  <2>2. Becomes(q) /\ at' = at + 1 /\ page' = page
    BY <1>12 DEF Character
  <2>3. /\ q \in RType /\ q.depth = Depth(K + 1) /\ End(K + 1) = at
        /\ Good(q.out, q.pending, q.newlines, K + 1)
    BY <2>1, TextStep DEF p
  <2> HIDE DEF q
  <2>4. /\ R' \in RType /\ pre_depth' = Depth(K + 1)
        /\ Good(out', pending', trailing_newlines', K + 1)
    BY <2>2, <2>3, BecomesType
  <2> QED BY <1>1, <2>2, <2>3, <2>4, StandsOn
<1> QED BY <1>9, <1>10, <1>11, <1>12

LEMMA NextInv == Inv /\ [Next]_vars => Inv'
<1> SUFFICES ASSUME Inv, [Next]_vars PROVE Inv'
  OBVIOUS
<1>1. page' = page
  BY DEF Next, vars, Recognize, Comment, Torn, RawSpan, Tag, Character, Finish, GiveUp, Skip
<1>2. (page \in PageType)'
  BY <1>1 DEF Inv
<1>3. AllWhole' <=> AllWhole
  BY <1>1, StaticWhole
<1>4. (result = "rendered" => at > Len(input))'
  <2>1. input' = input
    BY <1>1 DEF input
  <2>2. CASE Finish
    BY <2>1, <2>2 DEF Finish
  <2>3. CASE Recognize \/ Comment \/ Torn \/ RawSpan \/ Tag \/ Character
    <3>1. result' # "rendered"
      BY <2>3 DEF Recognize, Comment, Torn, RawSpan, Tag, Character, GiveUp, Skip, Scanning
    <3> QED BY <3>1
  <2>4. CASE UNCHANGED vars
    BY <2>1, <2>4 DEF Inv, vars
  <2> QED BY <2>2, <2>3, <2>4 DEF Next
<1>5. ASSUME result' # "none", AllWhole
      PROVE  \E K \in 0 .. Len(page'.pieces) : Stands(K)'
  <2>1. result # "none"
    BY <1>5 DEF Next, vars, Recognize, Comment, Torn, RawSpan, Tag, Character, Finish,
                GiveUp, Skip, Scanning
  <2>2. PICK K \in 0 .. Len(page.pieces) : Stands(K)
    BY <1>5, <2>1 DEF Inv
  <2>3. CASE UNCHANGED <<at, renderer>>
    <3>1. /\ out' = out /\ pending' = pending /\ trailing_newlines' = trailing_newlines
          /\ pre_depth' = pre_depth /\ at' = at
      BY <2>3 DEF renderer
    <3>2. R' = R
      BY <3>1 DEF R
    <3>3. /\ R \in RType /\ at = End(K) + 1 /\ pre_depth = Depth(K)
          /\ Good(out, pending, trailing_newlines, K)
      BY <2>2 DEF Stands
    <3>4. Good(out', pending', trailing_newlines', K)
      BY <3>1, <3>3
    <3>5. Stands(K)' /\ K \in 0 .. Len(page'.pieces)
      BY <1>1, <2>2, <3>1, <3>2, <3>3, <3>4, StandsOn
    <3> QED BY <3>5
  <2>4. CASE Comment \/ RawSpan \/ Tag \/ Character
    <3>1. at <= Len(input)
      BY <2>4 DEF Comment, RawSpan, Tag, Character, Scanning
    <3>2. Stands(K + 1)' /\ K + 1 \in 0 .. Len(page'.pieces)
      BY <1>5, <2>2, <2>4, <3>1, ScanStands
    <3> QED BY <3>2
  <2>5. CASE Recognize \/ Torn \/ Finish \/ UNCHANGED vars
    BY <2>3, <2>5 DEF Recognize, Torn, Finish, GiveUp, vars
  <2> QED BY <2>4, <2>5 DEF Next
<1> QED BY <1>2, <1>3, <1>4, <1>5 DEF Inv

-----------------------------------------------------------------------------
(***************************************************************************)
(* Types, on every page, torn ones too: the scanner stays in the page.     *)
(***************************************************************************)
\* By induction from the end of the page.
LEMMA TagEndRange ==
    ASSUME Len(input) \in Nat, NEW a \in 1 .. Len(input)
    PROVE  find_tag_end(a) \in 0 .. Len(input)
<1> DEFINE L == Len(input)
           S == {n \in Nat : \A c \in 1 .. L : L - c < n => find_tag_end(c) \in 0 .. L}
<1>1. 0 \in S
  OBVIOUS
<1>2. ASSUME NEW n \in Nat, n \in S PROVE n + 1 \in S
  <2> SUFFICES ASSUME NEW c \in 1 .. L, L - c < n + 1 PROVE find_tag_end(c) \in 0 .. L
    OBVIOUS
  <2> DEFINE k == Behind(c, {">", "quote"})
             q == Behind(k, {"quote"})
  <2>1. find_tag_end(c) = IF k = 0 \/ k - c - 1 > UNQUOTED_TAG_WINDOW THEN 0
                          ELSE IF input[k] = ">" THEN k
                          ELSE IF q = 0 THEN 0 ELSE find_tag_end(q)
    BY TagEndStep
  <2>2. k \in Nat /\ (k # 0 => k \in c + 1 .. L)
    BY BehindFinds
  <2>3. q # 0 => q \in k + 1 .. L
    BY <2>2, BehindFinds
  <2> HIDE DEF k, q
  <2>4. k # 0 /\ q # 0 => q \in 1 .. L /\ L - q < n
    BY <2>2, <2>3
  <2>5. k # 0 /\ q # 0 => find_tag_end(q) \in 0 .. L
    BY <1>2, <2>4
  <2> QED BY <2>1, <2>2, <2>5
<1>3. Nat \subseteq S
  <2> HIDE DEF S
  <2> QED BY <1>1, <1>2, SetInduction
<1>4. L \in S
  <2> HIDE DEF S
  <2> QED BY <1>3
<1> QED BY <1>4

LEMMA SeparatorRange ==
    ASSUME NEW tag, tag.closing \in BOOLEAN, tag.self_closing \in BOOLEAN
    PROVE  separator(tag) \in 0 .. 2
  BY DEF separator

\* What any tag does to the renderer.
LEMMA AnyTag ==
    ASSUME NEW r \in RType, NEW tag, tag.closing \in BOOLEAN, tag.self_closing \in BOOLEAN
    PROVE  LET q == Renderer_tag(r, tag)
           IN  /\ q \in RType /\ q.out = r.out
               /\ r.out = <<>> => q.pending = r.pending
<1> DEFINE q == Renderer_tag(r, tag)
           d == IF tag.name \notin PRE_TAGS THEN r.depth
                ELSE IF tag.closing THEN Max({r.depth - 1, 0})
                ELSE IF tag.self_closing THEN r.depth ELSE r.depth + 1
           pd == IF d = 0 /\ r.out # <<>> THEN Max({r.pending, separator(tag)}) ELSE r.pending
<1>1. r.depth \in Nat /\ r.pending \in 0 .. 2 /\ r.newlines \in Nat /\ r.out \in Seq(CharType)
  BY DEF RType
<1>2. d \in Nat
  <2>1. Max({r.depth - 1, 0}) \in Nat
    BY <1>1, MaxTwo
  <2> QED BY <1>1, <2>1
<1>3. pd \in 0 .. 2
  <2>1. separator(tag) \in 0 .. 2
    BY SeparatorRange
  <2>2. Max({r.pending, separator(tag)}) \in 0 .. 2
    BY <1>1, <2>1, MaxTwo
  <2> QED BY <1>1, <2>2
<1>4. q = [r EXCEPT !.depth = d, !.pending = pd]
  BY DEF Renderer_tag
<1>5. r.out = <<>> => pd = r.pending
  OBVIOUS
<1> HIDE DEF d, pd, q
<1>6. q \in RType /\ q.out = r.out /\ q.pending = pd
  BY <1>1, <1>2, <1>3, <1>4 DEF RType
<1> QED BY <1>5, <1>6 DEF q

\* What any character does to it.
LEMMA AnyCharacter ==
    ASSUME NEW L \in Nat, NEW r \in RType, NEW ch \in Chars, NEW src \in 0 .. L,
           r.out \in Seq([ch : Chars, src : 0 .. L, pre : BOOLEAN]),
           r.out = <<>> => r.pending = 0
    PROVE  LET q == push(r, ch, src)
           IN  /\ q \in RType /\ q.out \in Seq([ch : Chars, src : 0 .. L, pre : BOOLEAN])
               /\ q.out = <<>> => q.pending = 0
<1> DEFINE q == push(r, ch, src)
           C == [ch : Chars, src : 0 .. L, pre : BOOLEAN]
           c == Rendered(r, ch, src)
           x == IF r.pending = 2 THEN "\n" ELSE " "
           sep == Rendered(r, x, 0)
<1>1. /\ q \in RType
      /\ Dropped(r, ch, q) \/ Once(r, ch, src, q) \/ Twice(r, ch, src, q)
  <2>1. src \in Nat
    OBVIOUS
  <2> QED BY <2>1, PushShape
<1>2. x \in Chars
  <2>1. " " \in Chars /\ "\n" \in Chars
    BY DEF Chars, Symbols, Marks, Entities
  <2> QED BY <2>1, Zenon
<1> HIDE DEF x
<1>3. c \in C /\ sep \in C
  BY <1>2 DEF Rendered
<1>4. r.out \in Seq(C)
  OBVIOUS
<1> HIDE DEF q
<1>5. CASE Dropped(r, ch, q)
  <2>1. q.out = r.out /\ (q.pending = r.pending \/ q.pending = 0)
    BY <1>5 DEF Dropped
  <2> QED BY <1>1, <2>1 DEF q
<1>6. CASE Once(r, ch, src, q)
  <2>1. q.out = Append(r.out, c) /\ q.pending = 0
    BY <1>6 DEF Once
  <2> HIDE DEF c, C
  <2>2. q.out \in Seq(C)
    BY <1>3, <1>4, <2>1
  <2> QED BY <1>1, <2>1, <2>2 DEF q, C
<1>7. CASE Twice(r, ch, src, q)
  <2>1. q.out = Append(Append(r.out, sep), c) /\ q.pending = 0
    BY <1>7, Zenon DEF Twice, x
  <2> HIDE DEF c, C, sep
  <2>2. Append(r.out, sep) \in Seq(C)
    BY <1>3, <1>4
  <2>3. q.out \in Seq(C)
    BY <1>3, <2>1, <2>2
  <2> QED BY <1>1, <2>1, <2>3 DEF q, C
<1> QED BY <1>1, <1>5, <1>6, <1>7

LEMMA TypeNext == TypeOK /\ [Next]_vars => TypeOK'
<1> SUFFICES ASSUME TypeOK, [Next]_vars PROVE TypeOK'
  OBVIOUS
<1> DEFINE L == Len(input)
           C == [ch : Chars, src : 0 .. L, pre : BOOLEAN]
<1>1. /\ page \in PageType /\ L \in Nat /\ at \in 1 .. L + 1 /\ out \in Seq(C)
      /\ out = <<>> => pending = 0
  BY DEF TypeOK, PageType, input
<1>2. page' = page /\ input' = input
  BY DEF Next, vars, Recognize, Comment, Torn, RawSpan, Tag, Character, Finish, GiveUp, Skip,
         input
<1>3. R \in RType /\ R.out = out /\ R.pending = pending
  <2>1. out \in Seq(CharType)
    <3>1. C \subseteq CharType
      BY <1>1 DEF CharType
    <3> HIDE DEF C
    <3> QED BY <1>1, <3>1, SeqMonotonic
  <2> QED BY <2>1 DEF R, RType, TypeOK
<1>4. ASSUME UNCHANGED renderer, at' \in 1 .. L + 1,
             result' \in {"new", "scan", "rendered", "none"}
      PROVE  TypeOK'
  BY <1>2, <1>4 DEF TypeOK, renderer
<1>5. ASSUME NEW q \in RType, Becomes(q), q.out \in Seq(C), q.out = <<>> => q.pending = 0,
             at' \in 1 .. L + 1, result' = result
      PROVE  TypeOK'
  <2>1. /\ out' = q.out /\ pending' = q.pending /\ trailing_newlines' = q.newlines
        /\ pre_depth' = q.depth
    BY <1>5 DEF Becomes
  <2>2. /\ q.newlines \in Nat /\ q.pending \in 0 .. 2 /\ q.depth \in Nat
    BY DEF RType
  <2>3. (page \in PageType)' /\ at' \in 1 .. Len(input') + 1
    BY <1>1, <1>2, <1>5
  <2>4. out' \in Seq([ch : Chars, src : 0 .. Len(input'), pre : BOOLEAN])
    BY <1>2, <1>5, <2>1
  <2>5. result' \in {"new", "scan", "rendered", "none"}
    BY <1>5 DEF TypeOK
  <2> QED BY <1>5, <2>1, <2>2, <2>3, <2>4, <2>5 DEF TypeOK
<1>6. CASE Recognize \/ Torn \/ Finish \/ UNCHANGED vars
  <2>1. UNCHANGED <<at, renderer>> /\ result' \in {"new", "scan", "rendered", "none"}
    BY <1>6 DEF Recognize, Torn, Finish, GiveUp, vars, TypeOK
  <2> QED BY <1>1, <1>4, <2>1
<1>7. ASSUME Scanning, GiveUp PROVE TypeOK'
  BY <1>1, <1>4, <1>7 DEF GiveUp
<1>8. ASSUME NEW e \in 1 .. L, Skip(e) PROVE TypeOK'
  BY <1>1, <1>4, <1>8 DEF Skip, TypeOK
<1> HIDE DEF C
<1>9. CASE Comment
  <2> DEFINE T == {j \in From(at + 3) : input[j] = "--" /\ Is(j + 1, ">")}
             e == comment_end(at)
  <2>1. T \in SUBSET (Nat \ {0}) /\ e = First(T)
    BY DEF From, comment_end
  <2>2. \A j \in T : j + 1 \in 1 .. L
    BY DEF Is
  <2> HIDE DEF T, e
  <2>3. e # 0 => e + 1 \in 1 .. L
    BY <2>1, <2>2, FirstOf
  <2>4. Scanning /\ IF e = 0 THEN GiveUp ELSE Skip(e + 1)
    BY <1>9 DEF Comment, e
  <2> QED BY <1>7, <1>8, <2>3, <2>4
<1>10. CASE RawSpan
  <2> DEFINE e == raw_end(input[at + 1])
  <2>1. e \in 0 .. L
    <3> DEFINE T == {j \in From(find_tag_end(at) + 1) : named_closing_tag_at(j, input[at + 1])}
    <3>1. T \in SUBSET (Nat \ {0}) /\ T \subseteq 1 .. L
      BY DEF From
    <3>2. e = IF First(T) = 0 THEN 0 ELSE find_tag_end(First(T))
      BY DEF raw_end, find_closing_tag
    <3> HIDE DEF T, e
    <3>3. First(T) # 0 => First(T) \in 1 .. L
      BY <3>1, FirstOf
    <3> QED BY <1>1, <3>2, <3>3, TagEndRange
  <2>2. Scanning /\ IF e = 0 THEN GiveUp ELSE Skip(e)
    BY <1>10 DEF RawSpan
  <2> HIDE DEF e
  <2>3. e # 0 => e \in 1 .. L
    BY <1>1, <2>1
  <2> QED BY <1>7, <1>8, <2>2, <2>3
<1>11. CASE Tag
  <2> DEFINE e == find_tag_end(at)
             tag == Tag_parse(at, e)
             q == Renderer_tag(R, tag)
  <2>1. at \in 1 .. L
    BY <1>1, <1>11 DEF Tag, Scanning
  <2>2. e \in 0 .. L
    BY <1>1, <2>1, TagEndRange
  <2>3. e # 0 /\ Becomes(q) /\ at' = e + 1 /\ result' = result
    BY <1>11 DEF Tag
  <2>4. tag.closing \in BOOLEAN /\ tag.self_closing \in BOOLEAN
    BY DEF Tag_parse, Is
  <2> HIDE DEF e, tag
  <2>5. q \in RType /\ q.out = R.out /\ (R.out = <<>> => q.pending = R.pending)
    BY <1>3, <2>4, AnyTag
  <2> HIDE DEF q
  <2>6. q.out \in Seq(C) /\ (q.out = <<>> => q.pending = 0)
    BY <1>1, <1>3, <2>5
  <2>7. at' \in 1 .. L + 1
    BY <1>1, <2>2, <2>3
  <2> QED BY <1>5, <2>3, <2>5, <2>6, <2>7
<1>12. CASE Character
  <2> DEFINE ch == decoded_entity(input[at])
             q == push(R, ch, at)
  <2>1. at \in 1 .. L /\ at \in 0 .. L
    BY <1>1, <1>12 DEF Character, Scanning
  <2>2. Becomes(q) /\ at' = at + 1 /\ result' = result
    BY <1>12 DEF Character
  <2>3. ch \in Chars
    <3>1. input[at] \in Symbols
      BY <1>1, <2>1 DEF PageType, input
    <3> QED BY <3>1, Decoded
  <2> HIDE DEF ch
  <2>4. q \in RType /\ q.out \in Seq(C) /\ (q.out = <<>> => q.pending = 0)
    <3>1. R.out \in Seq(C) /\ (R.out = <<>> => R.pending = 0)
      BY <1>1, <1>3
    <3> QED BY <1>1, <1>3, <2>1, <2>3, <3>1, AnyCharacter DEF C
  <2> HIDE DEF q
  <2>5. at' \in 1 .. L + 1
    BY <1>1, <2>1, <2>2
  <2> QED BY <1>5, <2>2, <2>4, <2>5
<1> QED BY <1>6, <1>9, <1>10, <1>11, <1>12 DEF Next

(* Types, and that strip_html never leaves the page, whatever the page is:  *)
(* wherever a comment, a tag or a script is found to end, the next place to *)
(* read is in the page or just behind it.                                   *)
THEOREM TypeCorrect == Spec => []TypeOK
<1>1. Init => TypeOK
  <2> SUFFICES ASSUME Init PROVE TypeOK
    OBVIOUS
  <2>1. page \in PageType
    BY MarkupAssumption DEF Init
  <2>2. Len(input) \in Nat
    BY <2>1 DEF PageType, input
  <2>3. out \in Seq([ch : Chars, src : 0 .. Len(input), pre : BOOLEAN])
    BY DEF Init
  <2> QED BY <2>1, <2>2, <2>3 DEF Init, TypeOK
<1>2. TypeOK /\ [Next]_vars => TypeOK'
  BY TypeNext
<1> QED BY <1>1, <1>2, PTL DEF Spec

-----------------------------------------------------------------------------
(***************************************************************************)
(* The properties.                                                         *)
(***************************************************************************)
\* A rendered page was read to its end.
LEMMA AllRead ==
    ASSUME Inv, result = "rendered", AllWhole
    PROVE  LET n == Len(page.pieces)
           IN  /\ page \in PageType /\ out \in Seq(CharType)
               /\ DOMAIN page.pieces = 1 .. n /\ n \in Nat
               /\ Good(out, pending, trailing_newlines, n)
<1> DEFINE n == Len(page.pieces)
<1>1. PICK K \in 0 .. n : Stands(K)
  BY DEF Inv
<1>2. page \in PageType /\ R \in RType /\ at = End(K) + 1
  BY <1>1 DEF Stands
<1>3. at > Len(input)
  BY DEF Inv
<1>4. n \in Nat /\ DOMAIN page.pieces = 1 .. n
  BY <1>2, PieceFacts
<1>5. K = n
  <2> SUFFICES ASSUME K # n PROVE FALSE
    OBVIOUS
  <2>1. n \in 1 .. n /\ n > K
    BY <1>4
  <2>2. Piece(n).to > End(K) /\ Piece(n).to = End(n) /\ End(n) = Len(input)
        /\ End(K) \in Nat /\ Len(input) \in Nat
    BY <1>2, <2>1, PieceFacts
  <2> QED BY <1>2, <1>3, <2>2
<1> QED BY <1>1, <1>2, <1>4, <1>5, RFields DEF Stands

LEMMA TextFollows == Inv => TextKept
<1> SUFFICES ASSUME Inv, result = "rendered", AllWhole
             PROVE  /\ \A i \in DOMAIN out :
                          out[i].ch \in IF out[i].src = 0 THEN Space
                                        ELSE {decoded_entity(input[out[i].src])}
                    /\ \A i, j \in DOMAIN out :
                          i < j /\ 0 \notin Places({i, j}) => out[i].src < out[j].src
                    /\ Places({i \in DOMAIN out : out[i].ch \notin Space}) =
                          {Piece(k).from : k \in {k \in Texts :
                                     decoded_entity(input[Piece(k).from]) \notin Space}}
  BY DEF TextKept
<1> DEFINE n == Len(page.pieces)
<1>1. /\ page \in PageType /\ out \in Seq(CharType)
      /\ DOMAIN page.pieces = 1 .. n /\ n \in Nat
      /\ OnlyText(out, n) /\ InOrder(out) /\ AllText(out, n)
  BY AllRead DEF Good, Kept
<1>2. \A k \in Texts : k <= n /\ k \in 1 .. n
  BY <1>1 DEF Texts
<1>3. ASSUME NEW i \in DOMAIN out, out[i].src # 0
      PROVE  \E k \in Texts : IsFrom(out, i, k)
  BY <1>1, <1>3 DEF OnlyText
<1>4. ASSUME NEW i \in DOMAIN out
      PROVE  out[i].ch \in IF out[i].src = 0 THEN Space
                           ELSE {decoded_entity(input[out[i].src])}
  <2>1. CASE out[i].src = 0
    <3>1. out[i].ch \in Space
      BY <1>1, <2>1 DEF OnlyText
    <3> QED BY <2>1, <3>1
  <2>2. CASE out[i].src # 0
    <3>1. PICK k \in Texts : IsFrom(out, i, k)
      BY <1>3, <2>2
    <3>2. out[i].ch = decoded_entity(input[out[i].src])
      BY <3>1, Zenon DEF IsFrom, Shows
    <3> QED BY <2>2, <3>2
  <2> QED BY <2>1, <2>2
<1>5. ASSUME NEW i \in DOMAIN out, NEW j \in DOMAIN out, i < j, 0 \notin Places({i, j})
      PROVE  out[i].src < out[j].src
  <2>1. out[i].src # 0 /\ out[j].src # 0
    BY <1>5, Zenon DEF Places
  <2> QED BY <1>1, <1>5, <2>1 DEF InOrder
<1>6. ASSUME NEW i \in DOMAIN out, out[i].ch \notin Space
      PROVE  \E k \in Texts : out[i].src = Piece(k).from /\ Shows(k) \notin Space
  <2>1. out[i].src # 0
    BY <1>1, <1>6 DEF OnlyText
  <2>2. PICK k \in Texts : IsFrom(out, i, k)
    BY <1>3, <2>1
  <2> QED BY <1>6, <2>2 DEF IsFrom
<1>7. ASSUME NEW k \in Texts, Shows(k) \notin Space
      PROVE  \E i \in DOMAIN out : out[i].src = Piece(k).from /\ out[i].ch \notin Space
  <2>1. PICK i \in DOMAIN out : out[i].src = Piece(k).from
    BY <1>1, <1>2, <1>7 DEF AllText
  <2>2. Piece(k).from # 0
    BY <1>1, <1>2, PieceFacts
  <2>3. PICK l \in Texts : IsFrom(out, i, l)
    BY <1>3, <2>1, <2>2
  <2>4. out[i].ch = Shows(k)
    BY <2>1, <2>3, Zenon DEF IsFrom, Shows
  <2> QED BY <1>7, <2>1, <2>4
<1>8. Places({i \in DOMAIN out : out[i].ch \notin Space}) =
        {Piece(k).from : k \in {k \in Texts : Shows(k) \notin Space}}
  BY <1>6, <1>7 DEF Places
<1>9. {Piece(k).from : k \in {k \in Texts : Shows(k) \notin Space}} =
        {Piece(k).from : k \in {k \in Texts : decoded_entity(input[Piece(k).from]) \notin Space}}
  BY Zenon DEF Shows
<1> QED BY <1>4, <1>5, <1>8, <1>9

LEMMA PreFollows == Inv => PreVerbatim
<1> SUFFICES ASSUME Inv, result = "rendered", AllWhole
             PROVE  /\ Places({i \in DOMAIN out : out[i].pre}) \ {0} =
                          {Piece(k).from : k \in {k \in Texts : Depth(k) > 0}}
                    /\ \A i \in DOMAIN out :
                          out[i].src = 0 => /\ i - 1 \in DOMAIN out /\ i + 1 \in DOMAIN out
                                            /\ EndsBetween(out[i - 1].src, out[i + 1].src) # {}
  BY DEF PreVerbatim
<1> DEFINE n == Len(page.pieces)
<1>1. /\ page \in PageType /\ out \in Seq(CharType)
      /\ DOMAIN page.pieces = 1 .. n /\ n \in Nat
      /\ OnlyText(out, n) /\ AllText(out, n) /\ Parted(out, pending, trailing_newlines, n)
  BY AllRead DEF Good, Kept
<1>2. \A k \in Texts : k <= n /\ k \in 1 .. n
  BY <1>1 DEF Texts
<1>3. ASSUME NEW i \in DOMAIN out, out[i].src # 0
      PROVE  \E k \in Texts : IsFrom(out, i, k)
  BY <1>1, <1>3 DEF OnlyText
<1>4. ASSUME NEW i \in DOMAIN out, out[i].pre, out[i].src # 0
      PROVE  \E k \in Texts : out[i].src = Piece(k).from /\ Depth(k) > 0
  <2>1. PICK k \in Texts : IsFrom(out, i, k)
    BY <1>3, <1>4
  <2> QED BY <1>4, <2>1 DEF IsFrom
<1>5. ASSUME NEW k \in Texts, NEW l \in Texts, Piece(k).from = Piece(l).from
      PROVE  k = l
  <2>1. ASSUME NEW a \in Texts, NEW b \in Texts, a < b
        PROVE  Piece(a).from # Piece(b).from
    <3>1. a \in 1 .. n /\ b \in 1 .. n /\ a \in 0 .. n /\ b > a
      BY <1>1, <1>2, <2>1
    <3>2. /\ Piece(b).from > End(a) /\ Piece(a).to = End(a) /\ Piece(a).from <= Piece(a).to
          /\ Piece(a).from \in Nat /\ Piece(a).to \in Nat /\ Piece(b).from \in Nat
      BY <1>1, <3>1, PieceFacts
    <3> QED BY <3>2
  <2>2. ~(k < l) /\ ~(l < k)
    BY <1>5, <2>1
  <2> QED BY <1>1, <1>2, <2>2
<1>6. ASSUME NEW k \in Texts, Depth(k) > 0
      PROVE  \E i \in DOMAIN out : /\ out[i].pre /\ out[i].src # 0
                                   /\ out[i].src = Piece(k).from
  <2>1. PICK i \in DOMAIN out : out[i].src = Piece(k).from
    BY <1>1, <1>2, <1>6 DEF AllText
  <2>2. Piece(k).from # 0
    BY <1>1, <1>2, PieceFacts
  <2>3. PICK l \in Texts : IsFrom(out, i, l)
    BY <1>3, <2>1, <2>2
  <2>4. l = k
    BY <1>5, <2>1, <2>3 DEF IsFrom
  <2> QED BY <1>6, <2>1, <2>2, <2>3, <2>4 DEF IsFrom
<1>7. Places({i \in DOMAIN out : out[i].pre}) \ {0} =
        {Piece(k).from : k \in {k \in Texts : Depth(k) > 0}}
  BY <1>4, <1>6 DEF Places
<1> QED BY <1>1, <1>7 DEF Parted

LEMMA BlocksFollow == Inv => BlocksApart
<1> SUFFICES ASSUME Inv, result = "rendered", AllWhole,
                    NEW i \in DOMAIN out, NEW j \in DOMAIN out,
                    i < j, {out[i].ch, out[j].ch} \cap Space = {},
                    \A m \in i + 1 .. j - 1 : out[m].ch \in Space
             PROVE  LET between == EndsBetween(out[i].src, out[j].src)
                        blanks == {out[m].ch : m \in i + 1 .. j - 1}
                    IN  /\ "block" \in between => "\n" \in blanks
                        /\ "cell" \in between => blanks # {}
  BY Zenon DEF BlocksApart
<1>1. out \in Seq(CharType) /\ Apart(out, pending, Len(page.pieces))
  BY AllRead DEF Good
<1>2. out[i].ch \notin Space /\ out[j].ch \notin Space
  BY Zenon
<1>3. Blank(out, i + 1, j - 1)
  BY DEF Blank
<1>4. /\ "block" \in EndsBetween(out[i].src, out[j].src) => Newline(out, i + 1, j - 1)
      /\ "cell" \in EndsBetween(out[i].src, out[j].src) => i < j - 1
  BY <1>1, <1>2, <1>3 DEF Apart
<1>5. i < j - 1 => i + 1 \in i + 1 .. j - 1
  BY <1>1
<1>6. Newline(out, i + 1, j - 1) => "\n" \in {out[m].ch : m \in i + 1 .. j - 1}
  BY DEF Newline
<1>7. i < j - 1 => {out[m].ch : m \in i + 1 .. j - 1} # {}
  BY <1>5
<1> QED BY <1>4, <1>6, <1>7

(* Whatever page strip_html renders: if it is made of whole constructs, its *)
(* visible characters are there, in order, each once, and nothing of its    *)
(* tags, attributes, comments and scripts is.                               *)
THEOREM TextIsKept == Spec => []TextKept
<1>1. Init => Inv
  BY InitInv
<1>2. Inv /\ [Next]_vars => Inv'
  BY NextInv
<1>3. Inv => TextKept
  BY TextFollows
<1> QED BY <1>1, <1>2, <1>3, PTL DEF Spec

(* Renderer: every character inside pre and code is rendered, and separators *)
(* come only where a block or a cell ended outside them, on every page.      *)
THEOREM PreIsVerbatim == Spec => []PreVerbatim
<1>1. Init => Inv
  BY InitInv
<1>2. Inv /\ [Next]_vars => Inv'
  BY NextInv
<1>3. Inv => PreVerbatim
  BY PreFollows
<1> QED BY <1>1, <1>2, <1>3, PTL DEF Spec

(* Renderer: the separator a block or a cell asked for is never lost, on     *)
(* every page, however many tags and blanks come before the next character.  *)
THEOREM BlocksStayApart == Spec => []BlocksApart
<1>1. Init => Inv
  BY InitInv
<1>2. Inv /\ [Next]_vars => Inv'
  BY NextInv
<1>3. Inv => BlocksApart
  BY BlocksFollow
<1> QED BY <1>1, <1>2, <1>3, PTL DEF Spec
=============================================================================
