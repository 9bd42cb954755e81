------------------------------ MODULE PhoneProof -------------------------------
(* What AndroidSession shows, for any connections, lines and requests. *)
EXTENDS AndroidSession, SequenceTheorems, FiniteSetTheorems, WellFoundedInduction, TLAPS

\* A set of places has a newest one.
LEMMA GreatestIsThere ==
    ASSUME NEW n \in Nat, NEW found \in SUBSET (1 .. n)
    PROVE  /\ NewestOf(found) \in {0} \cup found
           /\ \A i \in found : i <= NewestOf(found)
<1> DEFINE places == {0} \cup found
           P(k) == \E i \in places : \A j \in places : j <= i + k
           K == {k \in Nat : P(k)}
<1>1. n \in K
  <2>1. \A j \in places : j <= 0 + n
    OBVIOUS
  <2>2. QED
    BY <2>1
<1>2. PICK k \in K : \A m \in K : k <= m
  <2> DEFINE R == OpToRel(<, Nat)
  <2>1. IsWellFoundedOn(R, Nat)
    BY NatLessThanWellFounded
  <2>2. R = {ss \in Nat \X Nat : ss[1] < ss[2]}
    BY Zenon DEF OpToRel
  <2>3. K \in SUBSET Nat /\ K # {}
    BY <1>1
  <2> HIDE DEF R, K
  <2>4. PICK k \in K : \A m \in K : ~(<<m, k>> \in R)
    BY <2>1, <2>3, WFMin
  <2>5. \A m \in K : ~(m < k)
    BY <2>2, <2>3, <2>4
  <2>6. QED
    BY <2>3, <2>4, <2>5
<1>3. PICK i \in places : \A j \in places : j <= i + k
  BY <1>2
<1>4. k = 0
  <2> SUFFICES ASSUME k # 0 PROVE FALSE
    OBVIOUS
  <2>1. k \in Nat /\ k - 1 \in Nat
    BY <1>2
  <2>0. ~(k - 1 \in K)
    <3> HIDE DEF K
    <3>1. QED
      BY <1>2, <2>1
  <2>4. ~P(k - 1)
    BY <2>0, <2>1
  <2>2. PICK j \in places : ~(j <= i + (k - 1))
    BY <2>4
  <2>3. j = i + k
    BY <1>3, <2>1, <2>2
  <2>6. \A m \in places : m <= j + 0
    BY <1>3, <2>3, <2>1
  <2>5. 0 \in K
    BY <2>6
  <2> HIDE DEF K
  <2>7. QED
    BY <1>2, <2>1, <2>5
<1>5. \A j \in places : i >= j
  BY <1>3, <1>4
<1>6. NewestOf(found) = CHOOSE x \in places : \A y \in places : x >= y
  BY DEF NewestOf, Max
<1> HIDE DEF places
<1>7. NewestOf(found) \in places /\ \A y \in places : NewestOf(found) >= y
  BY <1>5, <1>6
<1>8. QED
  BY <1>7 DEF places

---------------------------------------------------------------------------------
(* What the screen shows of the lines that were handled. *)

\* One line more.
LEMMA AboutMore ==
    ASSUME NEW lines \in Seq(Line), NEW line \in Line, NEW kind
    PROVE  AboutOf(Append(lines, line), kind)
             = AboutOf(lines, kind) \cup (IF line.kind = kind THEN {line.about} ELSE {})
<1> DEFINE more == Append(lines, line)
           n == Len(lines)
<1>1. /\ n \in Nat /\ DOMAIN more = 1 .. n + 1 /\ DOMAIN lines = 1 .. n
      /\ more[n + 1] = line /\ \A i \in 1 .. n : more[i] = lines[i]
  OBVIOUS
<1> HIDE DEF more, n
<1>2. ASSUME NEW x \in AboutOf(more, kind)
      PROVE  x \in AboutOf(lines, kind) \cup (IF line.kind = kind THEN {line.about} ELSE {})
  <2>1. PICK i \in 1 .. n + 1 : more[i].kind = kind /\ x = more[i].about
    BY <1>1 DEF AboutOf
  <2>2. CASE i \in 1 .. n
    BY <1>1, <2>1, <2>2 DEF AboutOf
  <2>3. CASE i = n + 1
    BY <1>1, <2>1, <2>3
  <2>4. QED
    BY <1>1, <2>2, <2>3
<1>3. ASSUME NEW x \in AboutOf(lines, kind)
      PROVE  x \in AboutOf(more, kind)
  <2>1. PICK i \in 1 .. n : lines[i].kind = kind /\ x = lines[i].about
    BY <1>1 DEF AboutOf
  <2>2. i \in 1 .. n + 1 /\ more[i] = lines[i]
    BY <1>1
  <2>3. QED
    BY <1>1, <2>1, <2>2 DEF AboutOf
<1>4. line.kind = kind => line.about \in AboutOf(more, kind)
  BY <1>1 DEF AboutOf
<1>5. QED
  BY <1>2, <1>3, <1>4 DEF more

\* Of two sequences of blocks, the first shows no text and no call that the second does not,
\* nor the other way round.
SameShown(blocks, more) ==
    /\ \A i \in DOMAIN blocks :
         /\ i \in DOMAIN more
         /\ more[i].kind = blocks[i].kind /\ more[i].about = blocks[i].about
         /\ blocks[i].kind = "text" => more[i].text = blocks[i].text
         /\ blocks[i].kind = "call" => more[i].answered = blocks[i].answered
    /\ \A i \in DOMAIN more \ DOMAIN blocks : more[i].kind \notin {"text", "call"}

\* Blocks that show the same show what was handled.
LEMMA SameShows ==
    ASSUME NEW blocks, NEW more, SameShown(blocks, more), NEW lines, ShowsAll(blocks, lines)
    PROVE  ShowsAll(more, lines)
<1>1. PlacesOf(more, "text") = PlacesOf(blocks, "text")
  BY DEF PlacesOf, SameShown
<1>2. PlacesOf(more, "call") = PlacesOf(blocks, "call")
  BY DEF PlacesOf, SameShown
<1>3. \A i \in PlacesOf(blocks, "text") : more[i].text = blocks[i].text
  BY DEF PlacesOf, SameShown
<1>4. \A i \in PlacesOf(blocks, "call") :
        more[i].about = blocks[i].about /\ more[i].answered = blocks[i].answered
  BY DEF PlacesOf, SameShown
<1> DEFINE texts == PlacesOf(blocks, "text")
           calls == PlacesOf(blocks, "call")
<1> HIDE DEF texts, calls
<1>5. UNION {ToSet(more[i].text) : i \in texts} = UNION {ToSet(blocks[i].text) : i \in texts}
  BY <1>3 DEF texts
<1>6. {more[i].about : i \in calls} = {blocks[i].about : i \in calls}
  BY <1>4 DEF calls
<1>7. {more[i].about : i \in {i \in calls : more[i].answered}}
        = {blocks[i].about : i \in {i \in calls : blocks[i].answered}}
  BY <1>4 DEF calls
<1>8. \A i, j \in calls : i < j => more[i].about < more[j].about
  BY <1>4 DEF calls, ShowsAll
<1>9. \A i, j \in texts : \A k \in DOMAIN more[i].text, m \in DOMAIN more[j].text :
        i < j \/ (i = j /\ k < m) => more[i].text[k] < more[j].text[m]
  BY <1>3 DEF texts, ShowsAll
<1>10. /\ UNION {ToSet(blocks[i].text) : i \in texts} = AboutOf(lines, "text")
       /\ {blocks[i].about : i \in calls} = AboutOf(lines, "call")
       /\ {blocks[i].about : i \in {i \in calls : blocks[i].answered}} = AboutOf(lines, "result")
  BY DEF ShowsAll, texts, calls
<1>11. QED
  BY <1>1, <1>2, <1>5, <1>6, <1>7, <1>8, <1>9, <1>10 DEF ShowsAll, texts, calls

\* A line that is no text, no call and no result.
LEMMA OtherLine ==
    ASSUME NEW blocks, NEW lines \in Seq(Line), NEW line \in Line, ShowsAll(blocks, lines),
           line.kind \notin {"text", "call", "result"}
    PROVE  ShowsAll(blocks, Append(lines, line))
<1> DEFINE more == Append(lines, line)
<1>1. ASSUME NEW kind \in {"text", "call", "result"}
      PROVE  AboutOf(more, kind) = AboutOf(lines, kind)
  <2>1. AboutOf(more, kind)
          = AboutOf(lines, kind) \cup (IF line.kind = kind THEN {line.about} ELSE {})
    BY AboutMore
  <2>2. line.kind # kind
    OBVIOUS
  <2> HIDE DEF more
  <2>3. QED
    BY <2>1, <2>2
<1> HIDE DEF more
<1>2. ShowsAll(blocks, more)
  BY <1>1 DEF ShowsAll
<1>3. QED
  BY <1>2 DEF more

\* A block more that is no text and no call.
LEMMA BlockMore ==
    ASSUME NEW blocks \in Seq(Shape), NEW b \in Shape, b.kind \notin {"text", "call"}
    PROVE  SameShown(blocks, Append(blocks, b))
<1> DEFINE more == Append(blocks, b)
           n == Len(blocks)
<1>1. /\ n \in Nat /\ DOMAIN more = 1 .. n + 1 /\ DOMAIN blocks = 1 .. n
      /\ more[n + 1] = b /\ \A i \in 1 .. n : more[i] = blocks[i]
  OBVIOUS
<1> HIDE DEF more, n
<1>2. SameShown(blocks, more)
  BY <1>1 DEF SameShown
<1>3. QED
  BY <1>2 DEF more

\* A block that is replaced by one of the same kind.
LEMMA BlockChanged ==
    ASSUME NEW blocks \in Seq(Shape), NEW i \in DOMAIN blocks, NEW b \in Shape,
           b.kind = blocks[i].kind, b.about = blocks[i].about,
           b.kind = "text" => b.text = blocks[i].text,
           b.kind = "call" => b.answered = blocks[i].answered
    PROVE  SameShown(blocks, [blocks EXCEPT ![i] = b])
<1> DEFINE more == [blocks EXCEPT ![i] = b]
<1>1. /\ DOMAIN more = DOMAIN blocks /\ more[i] = b
      /\ \A k \in DOMAIN blocks \ {i} : more[k] = blocks[k]
  OBVIOUS
<1> HIDE DEF more
<1>2. SameShown(blocks, more)
  BY <1>1 DEF SameShown
<1>3. QED
  BY <1>2 DEF more

\* The lines handled so far, and the next.
NextLine(lines, line) ==
    /\ \A i \in DOMAIN lines : lines[i].kind \in {"text", "call"} => lines[i].about = i
    /\ line.kind \in {"text", "call"} => line.about = Len(lines) + 1
    /\ line.kind = "result" =>
         line.about \in AboutOf(lines, "call") /\ line.about \notin AboutOf(lines, "result")

\* A text that goes on is in order, and all of it was said.
LEMMA TextGrows ==
    ASSUME NEW u \in Seq(Nat), NEW p \in Nat, \A x \in ToSet(u) : x < p,
           \A k, m \in DOMAIN u : k < m => u[k] < u[m]
    PROVE  /\ Append(u, p) \in Seq(Nat) /\ ToSet(Append(u, p)) = ToSet(u) \cup {p}
           /\ \A k, m \in DOMAIN Append(u, p) : k < m => Append(u, p)[k] < Append(u, p)[m]
<1> DEFINE t == Append(u, p)
           n == Len(u)
<1>1. /\ t \in Seq(Nat) /\ DOMAIN t = 1 .. n + 1 /\ t[n + 1] = p /\ n \in Nat
      /\ DOMAIN u = 1 .. n /\ (\A k \in 1 .. n : t[k] = u[k])
      /\ \A k \in 1 .. n : u[k] \in Nat
  OBVIOUS
<1> HIDE DEF t, n
<1>2. ASSUME NEW k \in 1 .. n
      PROVE  t[k] < p
  <2>1. u[k] \in ToSet(u)
    BY <1>1 DEF ToSet
  <2>2. QED
    BY <1>1, <2>1
<1>3. ASSUME NEW k \in DOMAIN t, NEW m \in DOMAIN t, k < m
      PROVE  t[k] < t[m]
  <2>1. k \in 1 .. n /\ m \in 1 .. n + 1
    BY <1>1, <1>3
  <2>2. CASE m = n + 1
    BY <1>1, <1>2, <2>1, <2>2
  <2>3. CASE m # n + 1
    BY <1>1, <1>3, <2>1, <2>3
  <2>4. QED
    BY <2>2, <2>3
<1>4. ToSet(t) = ToSet(u) \cup {p}
  <2>1. ASSUME NEW x \in ToSet(t)
        PROVE  x \in ToSet(u) \cup {p}
    <3>1. PICK k \in 1 .. n + 1 : x = t[k]
      BY <1>1 DEF ToSet
    <3>2. QED
      BY <1>1, <3>1 DEF ToSet
  <2>2. ASSUME NEW x \in ToSet(u)
        PROVE  x \in ToSet(t)
    <3>1. PICK k \in 1 .. n : x = u[k]
      BY <1>1 DEF ToSet
    <3>2. k \in 1 .. n + 1 /\ x = t[k]
      BY <1>1, <3>1
    <3>3. QED
      BY <1>1, <3>2 DEF ToSet
  <2>3. p \in ToSet(t)
    BY <1>1 DEF ToSet
  <2>4. QED
    BY <2>1, <2>2, <2>3
<1>5. QED
  BY <1>1, <1>3, <1>4 DEF t

\* Text goes to the end of the last block, or begins one.
LEMMA TextShows ==
    ASSUME NEW blocks \in Seq(Shape), NEW lines \in Seq(Line), NEW line \in Line,
           ShowsAll(blocks, lines), NextLine(lines, line), line.kind = "text",
           NEW more \in Seq(Shape), NEW last \in DOMAIN more,
           last = Len(more), more[last].kind = "text",
           \/ /\ Len(more) = Len(blocks) /\ blocks[last].kind = "text"
              /\ more[last].text = Append(blocks[last].text, line.about)
           \/ Len(more) = Len(blocks) + 1 /\ more[last].text = Append(<<>>, line.about),
           \A i \in 1 .. last - 1 : more[i] = blocks[i]
    PROVE  ShowsAll(more, Append(lines, line))
<1> DEFINE p == Len(lines) + 1
           was == AboutOf(lines, "text")
           texts == PlacesOf(blocks, "text")
           now == PlacesOf(more, "text")
           t == more[last].text
<1>1. line.about = p /\ p \in Nat
  BY DEF NextLine
<1>2. \A x \in was : x \in Nat /\ x < p
  BY DEF NextLine, AboutOf
<1>3. last \in Nat /\ last # 0 /\ DOMAIN more = 1 .. last /\ Len(blocks) \in Nat
      /\ DOMAIN blocks = 1 .. Len(blocks) /\ Len(blocks) \in {last, last - 1}
  OBVIOUS
<1>4. /\ \A i \in texts : blocks[i].text \in Seq(Nat) /\ i \in DOMAIN blocks
      /\ \A i \in texts : ToSet(blocks[i].text) \subseteq was
      /\ \A i \in texts : \A k, m \in DOMAIN blocks[i].text : k < m => blocks[i].text[k] < blocks[i].text[m]
  <2>1. ASSUME NEW i \in texts
        PROVE  blocks[i].text \in Seq(Nat) /\ i \in DOMAIN blocks
    <3>1. i \in DOMAIN blocks
      BY DEF PlacesOf
    <3>2. blocks[i] \in Shape
      BY <3>1
    <3>3. QED
      BY <3>1, <3>2 DEF Shape
  <2>2. \A i \in texts : ToSet(blocks[i].text) \subseteq was
    BY DEF ShowsAll
  <2>3. \A i \in texts : \A k, m \in DOMAIN blocks[i].text : k < m => blocks[i].text[k] < blocks[i].text[m]
    BY DEF ShowsAll
  <2>4. QED
    BY <2>1, <2>2, <2>3
<1>5. now = texts \cup {last}
  <2>1. ASSUME NEW i \in 1 .. last - 1
        PROVE  i \in now <=> i \in texts
    BY <1>3 DEF PlacesOf
  <2>2. now \subseteq 1 .. last /\ texts \subseteq 1 .. last /\ last \in now
    BY <1>3 DEF PlacesOf
  <2>3. \A i \in 1 .. last : i = last \/ i \in 1 .. last - 1
    BY <1>3
  <2> HIDE DEF now, texts
  <2>4. QED
    BY <2>1, <2>2, <2>3
<1>6. \A i \in now : i # last => i \in texts /\ i \in 1 .. last - 1 /\ more[i] = blocks[i]
  <2>1. \A i \in now : i \in 1 .. last
    BY <1>3 DEF PlacesOf
  <2> HIDE DEF now, texts
  <2>2. QED
    BY <1>3, <1>5, <2>1
<1>7. /\ PlacesOf(more, "call") = PlacesOf(blocks, "call")
      /\ \A i \in PlacesOf(blocks, "call") : more[i] = blocks[i]
  <2>1. \A i \in 1 .. last : i = last \/ i \in 1 .. last - 1
    BY <1>3
  <2>2. \A i \in 1 .. last - 1 : i \in DOMAIN more /\ i \in DOMAIN blocks
    BY <1>3
  <2>3. last \notin PlacesOf(blocks, "call") /\ last \notin PlacesOf(more, "call")
    BY <1>3 DEF PlacesOf
  <2>4. PlacesOf(more, "call") \subseteq 1 .. last /\ PlacesOf(blocks, "call") \subseteq 1 .. last
    BY <1>3 DEF PlacesOf
  <2>5. \A i \in 1 .. last - 1 : i \in PlacesOf(blocks, "call") <=> i \in PlacesOf(more, "call")
    BY <2>2 DEF PlacesOf
  <2> DEFINE before == PlacesOf(blocks, "call")
             after == PlacesOf(more, "call")
  <2> HIDE DEF before, after
  <2>6. before \subseteq after /\ after \subseteq before
    BY <2>1, <2>3, <2>4, <2>5 DEF before, after
  <2>7. \A i \in before : i \in 1 .. last - 1
    BY <2>1, <2>3, <2>4 DEF before
  <2>8. QED
    BY <2>6, <2>7 DEF before, after
<1>8. /\ t \in Seq(Nat) /\ (\A k, m \in DOMAIN t : k < m => t[k] < t[m])
      /\ ToSet(t) = {p} \cup (IF last \in texts THEN ToSet(blocks[last].text) ELSE {})
  <2>1. CASE Len(more) = Len(blocks)
    <3>1. last \in texts /\ t = Append(blocks[last].text, p)
      BY <1>1, <1>3, <2>1 DEF PlacesOf
    <3> DEFINE u == blocks[last].text
    <3>2. /\ u \in Seq(Nat) /\ (\A x \in ToSet(u) : x < p)
          /\ \A k, m \in DOMAIN u : k < m => u[k] < u[m]
      BY <1>2, <1>4, <3>1
    <3>3. t = Append(u, p)
      BY <3>1
    <3> HIDE DEF u, t, p, texts
    <3>4. /\ Append(u, p) \in Seq(Nat) /\ ToSet(Append(u, p)) = ToSet(u) \cup {p}
          /\ \A k, m \in DOMAIN Append(u, p) : k < m => Append(u, p)[k] < Append(u, p)[m]
      BY <1>1, <3>2, TextGrows
    <3>5. t \in Seq(Nat) /\ ToSet(t) = ToSet(u) \cup {p} /\ \A k, m \in DOMAIN t : k < m => t[k] < t[m]
      BY <3>3, <3>4, Zenon
    <3>6. QED
      BY <3>1, <3>5 DEF u
  <2>2. CASE Len(more) = Len(blocks) + 1
    <3> DEFINE u == <<>>
    <3>0. last = Len(blocks) + 1 /\ last \notin 1 .. Len(blocks) /\ Len(more) # Len(blocks)
      <4> DEFINE b == Len(blocks)
                 l == Len(more)
      <4>1. l = b + 1 /\ last = l /\ b \in Nat
        BY <1>3, <2>2
      <4> HIDE DEF b, l
      <4>2. last = b + 1 /\ last \notin 1 .. b /\ l # b
        BY <4>1
      <4>3. QED
        BY <4>2 DEF b, l
    <3>1. last \notin texts
      BY <1>4, <1>3, <3>0
    <3>2. t = Append(u, p)
      BY <1>1, <3>0, Zenon
    <3>3. /\ u \in Seq(Nat) /\ ToSet(u) = {} /\ (\A x \in ToSet(u) : x < p)
          /\ \A k, m \in DOMAIN u : k < m => u[k] < u[m]
      BY DEF ToSet
    <3> HIDE DEF u, t, p, texts
    <3>4. /\ Append(u, p) \in Seq(Nat) /\ ToSet(Append(u, p)) = ToSet(u) \cup {p}
          /\ \A k, m \in DOMAIN Append(u, p) : k < m => Append(u, p)[k] < Append(u, p)[m]
      BY <1>1, <3>3, TextGrows
    <3>5. t \in Seq(Nat) /\ ToSet(t) = ToSet(u) \cup {p} /\ \A k, m \in DOMAIN t : k < m => t[k] < t[m]
      BY <3>2, <3>4, Zenon
    <3>6. QED
      BY <3>1, <3>3, <3>5
  <2>3. QED
    BY <2>1, <2>2
<1>9. /\ PlacesOf(blocks, "text") = texts /\ AboutOf(lines, "text") = was
      /\ PlacesOf(more, "text") = now
  OBVIOUS
<1>10. p \in ToSet(t) /\ ToSet(t) \subseteq was \cup {p}
       /\ \A i \in texts : i = last => ToSet(blocks[i].text) \subseteq ToSet(t)
  BY <1>4, <1>8
<1> HIDE DEF now, texts, was, p
<1>11. \A i, j \in now : \A k \in DOMAIN more[i].text, m \in DOMAIN more[j].text :
          i < j \/ (i = j /\ k < m) => more[i].text[k] < more[j].text[m]
  <2> SUFFICES ASSUME NEW i \in now, NEW j \in now, NEW k \in DOMAIN more[i].text,
                      NEW m \in DOMAIN more[j].text, i < j \/ (i = j /\ k < m)
               PROVE  more[i].text[k] < more[j].text[m]
    OBVIOUS
  <2>1. i \in texts \cup {last} /\ j \in texts \cup {last}
    BY <1>5
  <2>2. CASE i # last /\ j # last
    <3>1. i \in texts /\ j \in texts /\ more[i] = blocks[i] /\ more[j] = blocks[j]
      BY <1>6, <2>2
    <3>2. QED
      BY <1>9, <3>1 DEF ShowsAll
  <2>3. CASE i # last /\ j = last
    <3>1. i \in texts /\ more[i] = blocks[i] /\ i \in 1 .. last - 1
      BY <1>6, <2>3
    <3> DEFINE u == blocks[i].text
    <3>2. u \in Seq(Nat) /\ ToSet(u) \subseteq was /\ k \in DOMAIN u
      BY <1>4, <3>1
    <3>3. u[k] \in ToSet(u)
      BY <3>2 DEF ToSet
    <3>4. u[k] \in Nat /\ u[k] < p
      BY <1>2, <3>2, <3>3
    <3>5. t[m] \in ToSet(t) /\ m \in DOMAIN t
      BY <2>3 DEF ToSet
    <3>6. CASE last \in texts
      <4> DEFINE v == blocks[last].text
      <4>1. t[m] = p \/ t[m] \in ToSet(v)
        BY <1>8, <3>5, <3>6
      <4>2. CASE t[m] \in ToSet(v)
        <5>1. PICK l \in DOMAIN v : t[m] = v[l]
          BY <4>2 DEF ToSet
        <5>2. \A a, b \in texts : \A x \in DOMAIN blocks[a].text, y \in DOMAIN blocks[b].text :
                 a < b \/ (a = b /\ x < y) => blocks[a].text[x] < blocks[b].text[y]
          BY <1>9 DEF ShowsAll
        <5>4. i < last
          BY <1>3, <3>1
        <5>5. u[k] < v[l]
          BY <3>1, <3>2, <3>6, <5>2, <5>4
        <5>3. QED
          BY <2>3, <3>1, <5>1, <5>5
      <4>3. QED
        BY <2>3, <3>1, <3>4, <4>1, <4>2
    <3>7. CASE last \notin texts
      BY <1>8, <2>3, <3>1, <3>4, <3>5, <3>7
    <3>8. QED
      BY <3>6, <3>7
  <2>4. CASE i = last /\ j = last
    <3>1. k < m
      BY <2>4, <1>3
    <3>2. QED
      BY <1>8, <2>4, <3>1
  <2>5. CASE i = last /\ j # last
    BY <1>3, <1>6, <2>5
  <2>6. QED
    BY <2>2, <2>3, <2>4, <2>5
<1>12. UNION {ToSet(more[i].text) : i \in now} = was \cup {p}
  <2>1. UNION {ToSet(blocks[i].text) : i \in texts} = was
    BY <1>9 DEF ShowsAll
  <2>2. ASSUME NEW x \in was
        PROVE  \E i \in now : x \in ToSet(more[i].text)
    <3>1. PICK i \in texts : x \in ToSet(blocks[i].text)
      BY <2>1
    <3>2. CASE i = last
      BY <1>5, <1>10, <3>1, <3>2
    <3>3. CASE i # last
      BY <1>5, <1>6, <3>1, <3>3
    <3>4. QED
      BY <3>2, <3>3
  <2>3. \E i \in now : p \in ToSet(more[i].text)
    BY <1>5, <1>10
  <2>4. ASSUME NEW i \in now
        PROVE  ToSet(more[i].text) \subseteq was \cup {p}
    BY <1>4, <1>6, <1>10
  <2>5. QED
    BY <2>2, <2>3, <2>4
<1>13. AboutOf(Append(lines, line), "text") = was \cup {p}
  BY <1>1, <1>9, AboutMore
<1>14. /\ AboutOf(Append(lines, line), "call") = AboutOf(lines, "call")
       /\ AboutOf(Append(lines, line), "result") = AboutOf(lines, "result")
  <2>1. ASSUME NEW kind \in {"call", "result"}
        PROVE  AboutOf(Append(lines, line), kind) = AboutOf(lines, kind)
    <3>1. AboutOf(Append(lines, line), kind)
            = AboutOf(lines, kind) \cup (IF line.kind = kind THEN {line.about} ELSE {})
      BY AboutMore
    <3>2. line.kind # kind
      OBVIOUS
    <3> DEFINE after == Append(lines, line)
    <3> HIDE DEF after
    <3>3. QED
      BY <3>1, <3>2 DEF after
  <2>2. QED
    BY <2>1
<1> DEFINE after == Append(lines, line)
           calls == PlacesOf(blocks, "call")
<1>15. /\ AboutOf(after, "call") = AboutOf(lines, "call")
       /\ AboutOf(after, "result") = AboutOf(lines, "result")
       /\ AboutOf(after, "text") = was \cup {p}
  BY <1>13, <1>14
<1>16. /\ PlacesOf(more, "call") = calls /\ PlacesOf(blocks, "call") = calls
       /\ \A i \in calls : more[i] = blocks[i]
  BY <1>7
<1> HIDE DEF after, calls, t
<1>17. /\ \A i, j \in calls : i < j => more[i].about < more[j].about
       /\ {more[i].about : i \in calls} = AboutOf(lines, "call")
       /\ {more[i].about : i \in {i \in calls : more[i].answered}} = AboutOf(lines, "result")
  <2>1. /\ \A i, j \in calls : i < j => blocks[i].about < blocks[j].about
        /\ {blocks[i].about : i \in calls} = AboutOf(lines, "call")
        /\ {blocks[i].about : i \in {i \in calls : blocks[i].answered}} = AboutOf(lines, "result")
    BY <1>16 DEF ShowsAll
  <2>2. {more[i].about : i \in calls} = {blocks[i].about : i \in calls}
    BY <1>16
  <2>3. {more[i].about : i \in {i \in calls : more[i].answered}}
          = {blocks[i].about : i \in {i \in calls : blocks[i].answered}}
    BY <1>16
  <2>4. QED
    BY <1>16, <2>1, <2>2, <2>3
<1>18. ShowsAll(more, after)
  BY <1>9, <1>11, <1>12, <1>15, <1>16, <1>17 DEF ShowsAll
<1>19. QED
  BY <1>18 DEF after

\* What a line of another kind is about makes no difference.
LEMMA OtherKind ==
    ASSUME NEW lines \in Seq(Line), NEW line \in Line, NEW kind, line.kind # kind
    PROVE  AboutOf(Append(lines, line), kind) = AboutOf(lines, kind)
<1> DEFINE more == Append(lines, line)
<1>1. AboutOf(more, kind) = AboutOf(lines, kind) \cup (IF line.kind = kind THEN {line.about} ELSE {})
  BY AboutMore
<1> HIDE DEF more
<1>2. AboutOf(more, kind) = AboutOf(lines, kind)
  BY <1>1
<1>3. QED
  BY <1>2 DEF more

\* A call is put below those before it.
LEMMA CallShows ==
    ASSUME NEW blocks \in Seq(Shape), NEW lines \in Seq(Line), NEW line \in Line,
           ShowsAll(blocks, lines), NextLine(lines, line), line.kind = "call",
           NEW b \in Shape, b.kind = "call", b.about = line.about, ~b.answered
    PROVE  ShowsAll(Append(blocks, b), Append(lines, line))
<1> DEFINE p == Len(lines) + 1
           n == Len(blocks)
           more == Append(blocks, b)
           after == Append(lines, line)
           calls == PlacesOf(blocks, "call")
           was == AboutOf(lines, "call")
<1>1. line.about = p /\ p \in Nat /\ b.about = p
  BY DEF NextLine
<1>2. \A x \in was : x \in Nat /\ x < p
  BY DEF NextLine, AboutOf
<1>3. /\ n \in Nat /\ DOMAIN more = 1 .. n + 1 /\ DOMAIN blocks = 1 .. n
      /\ more[n + 1] = b /\ \A i \in 1 .. n : more[i] = blocks[i]
  OBVIOUS
<1>4. /\ AboutOf(after, "call") = was \cup {p}
      /\ AboutOf(after, "result") = AboutOf(lines, "result")
      /\ AboutOf(after, "text") = AboutOf(lines, "text")
  <2>1. AboutOf(after, "call") = was \cup (IF line.kind = "call" THEN {line.about} ELSE {})
    BY AboutMore
  <2> HIDE DEF was, p
  <2>2. AboutOf(after, "call") = was \cup {p}
    <3> HIDE DEF after
    <3>1. QED
      BY <1>1, <2>1
  <2>3. QED
    BY <2>2, OtherKind
<1> HIDE DEF more, after, n, p
<1>5. PlacesOf(more, "call") = calls \cup {n + 1} /\ n + 1 \notin calls
  <2>1. ASSUME NEW i \in PlacesOf(more, "call")
        PROVE  i \in calls \cup {n + 1}
    BY <1>3 DEF PlacesOf
  <2>2. calls \subseteq PlacesOf(more, "call") /\ n + 1 \in PlacesOf(more, "call")
    BY <1>3 DEF PlacesOf
  <2>3. n + 1 \notin calls
    BY <1>3 DEF PlacesOf
  <2>4. QED
    BY <2>1, <2>2, <2>3
<1>6. PlacesOf(more, "text") = PlacesOf(blocks, "text")
  <2>1. ASSUME NEW i \in PlacesOf(more, "text")
        PROVE  i \in PlacesOf(blocks, "text")
    BY <1>3 DEF PlacesOf
  <2>2. PlacesOf(blocks, "text") \subseteq PlacesOf(more, "text")
    BY <1>3 DEF PlacesOf
  <2>3. QED
    BY <2>1, <2>2
<1>7. \A i \in calls : i \in 1 .. n /\ more[i] = blocks[i]
  BY <1>3 DEF PlacesOf
<1>8. \A i \in PlacesOf(blocks, "text") : more[i] = blocks[i]
  BY <1>3 DEF PlacesOf
<1>9. PlacesOf(blocks, "call") = calls /\ AboutOf(lines, "call") = was
  OBVIOUS
<1> HIDE DEF calls, was
<1>10. \A i \in calls : blocks[i].about \in was
  BY <1>9 DEF ShowsAll
<1>11. \A i, j \in calls \cup {n + 1} : i < j => more[i].about < more[j].about
  <2>1. ASSUME NEW i \in calls \cup {n + 1}, NEW j \in calls \cup {n + 1}, i < j
        PROVE  more[i].about < more[j].about
    <3>1. i \in calls
      BY <1>3, <1>7, <2>1
    <3>2. CASE j = n + 1
      BY <1>1, <1>2, <1>3, <1>7, <1>10, <3>1, <3>2
    <3>3. CASE j \in calls
      BY <1>7, <1>9, <2>1, <3>1, <3>3 DEF ShowsAll
    <3>4. QED
      BY <3>2, <3>3
  <2>2. QED
    BY <2>1
<1>12. {more[i].about : i \in calls \cup {n + 1}} = was \cup {p}
  <2>1. {blocks[i].about : i \in calls} = was
    BY <1>9 DEF ShowsAll
  <2>2. {more[i].about : i \in calls} = {blocks[i].about : i \in calls}
    BY <1>7
  <2>3. more[n + 1].about = p
    BY <1>1, <1>3
  <2>4. QED
    BY <2>1, <2>2, <2>3
<1>13. {more[i].about : i \in {i \in calls \cup {n + 1} : more[i].answered}} = AboutOf(lines, "result")
  <2>1. {i \in calls \cup {n + 1} : more[i].answered} = {i \in calls : blocks[i].answered}
    BY <1>3, <1>5, <1>7
  <2> DEFINE answered == {i \in calls : blocks[i].answered}
  <2>2. {more[i].about : i \in answered} = {blocks[i].about : i \in answered}
    BY <1>7
  <2>3. {blocks[i].about : i \in answered} = AboutOf(lines, "result")
    BY <1>9 DEF ShowsAll
  <2> HIDE DEF answered
  <2>4. {i \in calls \cup {n + 1} : more[i].answered} = answered
    BY <2>1 DEF answered
  <2>5. QED
    BY <2>2, <2>3, <2>4
<1> DEFINE texts == PlacesOf(blocks, "text")
<1>14. PlacesOf(blocks, "text") = texts /\ PlacesOf(more, "text") = texts
       /\ \A i \in texts : more[i] = blocks[i]
  BY <1>6, <1>8
<1> HIDE DEF texts
<1>15. /\ \A i, j \in texts : \A k \in DOMAIN more[i].text, m \in DOMAIN more[j].text :
            i < j \/ (i = j /\ k < m) => more[i].text[k] < more[j].text[m]
       /\ UNION {ToSet(more[i].text) : i \in texts} = AboutOf(lines, "text")
  <2>1. \A i, j \in texts : \A k \in DOMAIN blocks[i].text, m \in DOMAIN blocks[j].text :
            i < j \/ (i = j /\ k < m) => blocks[i].text[k] < blocks[j].text[m]
    BY <1>14 DEF ShowsAll
  <2>2. UNION {ToSet(blocks[i].text) : i \in texts} = AboutOf(lines, "text")
    BY <1>14 DEF ShowsAll
  <2>3. {ToSet(more[i].text) : i \in texts} = {ToSet(blocks[i].text) : i \in texts}
    BY <1>14
  <2>4. QED
    BY <1>14, <2>1, <2>2, <2>3
<1>16. ShowsAll(more, after)
  BY <1>4, <1>5, <1>11, <1>12, <1>13, <1>14, <1>15 DEF ShowsAll
<1>17. QED
  BY <1>16 DEF more, after

\* A result goes to its call, which has none yet.
LEMMA ResultShows ==
    ASSUME NEW blocks \in Seq(Shape), NEW lines \in Seq(Line), NEW line \in Line,
           ShowsAll(blocks, lines), NextLine(lines, line), line.kind = "result",
           NEW c \in DOMAIN blocks, blocks[c].kind = "call", blocks[c].about = line.about,
           NEW b \in Shape, b.kind = "call", b.about = line.about, b.answered
    PROVE  ShowsAll([blocks EXCEPT ![c] = b], Append(lines, line))
<1> DEFINE more == [blocks EXCEPT ![c] = b]
           after == Append(lines, line)
           calls == PlacesOf(blocks, "call")
           texts == PlacesOf(blocks, "text")
           x == line.about
<1>1. /\ DOMAIN more = DOMAIN blocks /\ more[c] = b
      /\ \A i \in DOMAIN blocks : i # c => more[i] = blocks[i]
  OBVIOUS
<1>2. /\ AboutOf(after, "result") = AboutOf(lines, "result") \cup {x}
      /\ AboutOf(after, "call") = AboutOf(lines, "call")
      /\ AboutOf(after, "text") = AboutOf(lines, "text")
  <2>1. AboutOf(after, "result") = AboutOf(lines, "result")
                                      \cup (IF line.kind = "result" THEN {line.about} ELSE {})
    BY AboutMore
  <2>2. AboutOf(after, "result") = AboutOf(lines, "result") \cup {x}
    <3> HIDE DEF after
    <3>1. QED
      BY <2>1
  <2>3. QED
    BY <2>2, OtherKind
<1> HIDE DEF more, after
<1>3. PlacesOf(more, "call") = calls /\ PlacesOf(more, "text") = texts
  BY <1>1 DEF PlacesOf
<1>4. /\ c \in calls /\ c \notin texts
      /\ \A i \in calls : more[i].about = blocks[i].about
      /\ \A i \in calls : i # c => more[i] = blocks[i]
      /\ \A i \in texts : more[i] = blocks[i]
      /\ more[c].answered /\ more[c].about = x /\ blocks[c].about = x
  BY <1>1 DEF PlacesOf
<1>5. PlacesOf(blocks, "call") = calls /\ PlacesOf(blocks, "text") = texts
  OBVIOUS
<1> HIDE DEF calls, texts, x
<1>6. /\ \A i, j \in calls : i < j => more[i].about < more[j].about
      /\ {more[i].about : i \in calls} = AboutOf(lines, "call")
  <2>1. /\ \A i, j \in calls : i < j => blocks[i].about < blocks[j].about
        /\ {blocks[i].about : i \in calls} = AboutOf(lines, "call")
    BY <1>5 DEF ShowsAll
  <2>2. {more[i].about : i \in calls} = {blocks[i].about : i \in calls}
    BY <1>4
  <2>3. QED
    BY <1>4, <2>1, <2>2
<1>7. {more[i].about : i \in {i \in calls : more[i].answered}} = AboutOf(lines, "result") \cup {x}
  <2> DEFINE answered == {i \in calls : blocks[i].answered}
  <2>1. {blocks[i].about : i \in answered} = AboutOf(lines, "result")
    BY <1>5 DEF ShowsAll
  <2>2. {i \in calls : more[i].answered} = answered \cup {c}
    BY <1>4
  <2>3. {more[i].about : i \in answered} = {blocks[i].about : i \in answered}
    BY <1>4
  <2> HIDE DEF answered
  <2>4. {more[i].about : i \in answered \cup {c}} = AboutOf(lines, "result") \cup {x}
    BY <1>4, <2>1, <2>3
  <2>5. QED
    BY <2>2, <2>4
<1>8. /\ \A i, j \in texts : \A k \in DOMAIN more[i].text, m \in DOMAIN more[j].text :
            i < j \/ (i = j /\ k < m) => more[i].text[k] < more[j].text[m]
      /\ UNION {ToSet(more[i].text) : i \in texts} = AboutOf(lines, "text")
  <2>1. \A i, j \in texts : \A k \in DOMAIN blocks[i].text, m \in DOMAIN blocks[j].text :
            i < j \/ (i = j /\ k < m) => blocks[i].text[k] < blocks[j].text[m]
    BY <1>5 DEF ShowsAll
  <2>2. UNION {ToSet(blocks[i].text) : i \in texts} = AboutOf(lines, "text")
    BY <1>5 DEF ShowsAll
  <2>3. {ToSet(more[i].text) : i \in texts} = {ToSet(blocks[i].text) : i \in texts}
    BY <1>4
  <2>4. QED
    BY <1>4, <2>1, <2>2, <2>3
<1>9. ShowsAll(more, after)
  BY <1>2, <1>3, <1>6, <1>7, <1>8 DEF ShowsAll
<1>10. QED
  BY <1>9 DEF more, after

\* A block that gets more text, and one that is answered.
LEMMA BlockGrows ==
    ASSUME NEW b \in Shape, NEW p \in Nat
    PROVE  /\ [b EXCEPT !.text = Append(b.text, p)] \in Shape
           /\ [b EXCEPT !.text = Append(b.text, p)].kind = b.kind
           /\ [b EXCEPT !.text = Append(b.text, p)].about = b.about
           /\ [b EXCEPT !.text = Append(b.text, p)].answered = b.answered
           /\ [b EXCEPT !.text = Append(b.text, p)].text = Append(b.text, p)
<1> DEFINE t == Append(b.text, p)
<1>1. t \in Seq(Nat)
  BY DEF Shape
<1> HIDE DEF t
<1>2. /\ [b EXCEPT !.text = t] \in Shape /\ [b EXCEPT !.text = t].kind = b.kind
      /\ [b EXCEPT !.text = t].about = b.about
      /\ [b EXCEPT !.text = t].answered = b.answered /\ [b EXCEPT !.text = t].text = t
  BY <1>1 DEF Shape
<1>3. QED
  BY <1>2 DEF t

\* One that is answered.
LEMMA BlockAnswered ==
    ASSUME NEW b \in Shape
    PROVE  /\ [b EXCEPT !.answered = TRUE] \in Shape
           /\ [b EXCEPT !.answered = TRUE].kind = b.kind
           /\ [b EXCEPT !.answered = TRUE].about = b.about
           /\ [b EXCEPT !.answered = TRUE].answered
           /\ [b EXCEPT !.answered = TRUE].text = b.text
  BY DEF Shape

\* What the blocks show of a line that is neither text nor a call nor a result.
LEMMA AddsNothing ==
    ASSUME NEW blocks \in Seq(Shape), NEW line \in Line,
           line.kind \notin {"text", "call", "result"}
    PROVE  Adds(blocks, line) \in Seq(Shape) /\ SameShown(blocks, Adds(blocks, line))
<1> DEFINE n == Len(blocks)
           open == {i \in DOMAIN blocks : blocks[i].kind = "call" /\ ~blocks[i].answered}
           dialogs == {i \in DOMAIN blocks : blocks[i].kind = "ask" /\ blocks[i].about = line.about}
           growing == NewestOf(open)
           request == NewestOf(dialogs)
<1>1. n \in Nat /\ DOMAIN blocks = 1 .. n /\ \A i \in 1 .. n : blocks[i] \in Shape
  OBVIOUS
<1>2. open \in SUBSET (1 .. n) /\ dialogs \in SUBSET (1 .. n)
  BY <1>1
<1>3. growing \in {0} \cup open /\ request \in {0} \cup dialogs
  BY <1>1, <1>2, GreatestIsThere
<1>4. line.about \in Nat /\ <<>> \in Seq(Nat)
  BY DEF Line
<1>5. SameShown(blocks, blocks)
  BY DEF SameShown
<1>6. CASE line.kind \in {"begin", "junk", "ask"} \cup Ends
  <2> DEFINE b == BlockOf(line.kind, line.about, <<>>, FALSE)
  <2>1. b \in Shape /\ b.kind = line.kind
    <3>1. line.kind \in {"begin", "junk", "ask", "trailer", "eof"}
      BY <1>6 DEF Ends
    <3> HIDE <1>6
    <3>2. QED
      BY <1>4, <3>1 DEF BlockOf, Shape, Ends
  <2>2. Adds(blocks, line) = Append(blocks, b)
    BY <1>6 DEF Adds, Ends
  <2> HIDE DEF b
  <2>3. Append(blocks, b) \in Seq(Shape) /\ SameShown(blocks, Append(blocks, b))
    BY <2>1, BlockMore
  <2>4. QED
    BY <2>2, <2>3
<1>7. CASE line.kind = "part"
  <2>1. CASE growing = 0
    <3>1. Adds(blocks, line) = blocks
      BY <1>7, <2>1 DEF Adds, Ends
    <3>2. QED
      BY <1>5, <3>1
  <2>2. CASE growing # 0
    <3> DEFINE b == [blocks[growing] EXCEPT !.text = Append(blocks[growing].text, line.about)]
    <3>1. growing \in 1 .. n /\ blocks[growing] \in Shape /\ blocks[growing].kind = "call"
      BY <1>1, <1>3, <2>2
    <3>2. Adds(blocks, line) = [blocks EXCEPT ![growing] = b]
      BY <1>7, <2>2 DEF Adds, Ends
    <3> HIDE DEF growing
    <3>3. /\ b \in Shape /\ b.kind = "call" /\ b.about = blocks[growing].about
          /\ b.answered = blocks[growing].answered
      BY <1>4, <3>1, BlockGrows
    <3> HIDE DEF b, n
    <3>4. SameShown(blocks, [blocks EXCEPT ![growing] = b])
      BY <1>1, <3>1, <3>3, BlockChanged
    <3>5. [blocks EXCEPT ![growing] = b] \in Seq(Shape)
      BY <1>1, <3>1, <3>3
    <3>6. QED
      BY <3>2, <3>4, <3>5
  <2>3. QED
    BY <2>1, <2>2
<1>8. CASE line.kind = "answered"
  <2>1. CASE request = 0
    <3>1. Adds(blocks, line) = blocks
      BY <1>8, <2>1 DEF Adds, Ends
    <3>2. QED
      BY <1>5, <3>1
  <2>2. CASE request # 0
    <3> DEFINE b == [blocks[request] EXCEPT !.answered = TRUE]
    <3>1. request \in 1 .. n /\ blocks[request] \in Shape /\ blocks[request].kind = "ask"
      BY <1>1, <1>3, <2>2
    <3>2. Adds(blocks, line) = [blocks EXCEPT ![request] = b]
      BY <1>8, <2>2 DEF Adds, Ends
    <3> HIDE DEF request
    <3>3. b \in Shape /\ b.kind = "ask" /\ b.about = blocks[request].about
      BY <3>1, BlockAnswered
    <3> HIDE DEF b, n
    <3>4. SameShown(blocks, [blocks EXCEPT ![request] = b])
      BY <1>1, <3>1, <3>3, BlockChanged
    <3>5. [blocks EXCEPT ![request] = b] \in Seq(Shape)
      BY <1>1, <3>1, <3>3
    <3>6. QED
      BY <3>2, <3>4, <3>5
  <2>3. QED
    BY <2>1, <2>2
<1>9. CASE line.kind \in {"ack", "end", "tool", "response", "refusal"}
  <2>1. Adds(blocks, line) = blocks
    BY <1>9 DEF Adds, Ends
  <2>2. QED
    BY <1>5, <2>1
<1>10. QED
  BY <1>6, <1>7, <1>8, <1>9 DEF Line

\* Whatever line is added next is shown.
LEMMA AddsShows ==
    ASSUME NEW blocks \in Seq(Shape), NEW lines \in Seq(Line), NEW line \in Line,
           ShowsAll(blocks, lines), NextLine(lines, line)
    PROVE  /\ Adds(blocks, line) \in Seq(Shape)
           /\ ShowsAll(Adds(blocks, line), Append(lines, line))
<1> DEFINE n == Len(blocks)
           open == {i \in DOMAIN blocks : blocks[i].kind = "call" /\ ~blocks[i].answered}
           sought == {i \in open : blocks[i].about = line.about}
           called == NewestOf(sought)
<1>1. n \in Nat /\ DOMAIN blocks = 1 .. n /\ \A i \in 1 .. n : blocks[i] \in Shape
  OBVIOUS
<1>2. line.about \in Nat /\ <<>> \in Seq(Nat)
  BY DEF Line
<1>3. CASE line.kind \notin {"text", "call", "result"}
  <2> DEFINE more == Adds(blocks, line)
  <2>1. more \in Seq(Shape) /\ SameShown(blocks, more)
    BY <1>3, AddsNothing
  <2> HIDE DEF more
  <2>2. ShowsAll(more, lines)
    BY <2>1, SameShows
  <2>3. ShowsAll(more, Append(lines, line))
    BY <1>3, <2>2, OtherLine
  <2>4. QED
    BY <2>1, <2>3 DEF more
<1>4. CASE line.kind = "text"
  <2>1. CASE n > 0 /\ blocks[n].kind = "text"
    <3> DEFINE b == [blocks[n] EXCEPT !.text = Append(blocks[n].text, line.about)]
               more == [blocks EXCEPT ![n] = b]
    <3>1. n \in 1 .. n /\ blocks[n] \in Shape
      BY <1>1, <2>1
    <3>2. Adds(blocks, line) = more
      BY <1>4, <2>1 DEF Adds, Ends
    <3>3. b \in Shape /\ b.kind = "text" /\ b.text = Append(blocks[n].text, line.about)
      BY <1>2, <2>1, <3>1, BlockGrows
    <3> HIDE DEF b
    <3>4. /\ more \in Seq(Shape) /\ Len(more) = n /\ more[n] = b
          /\ \A i \in 1 .. n - 1 : more[i] = blocks[i]
      BY <1>1, <3>1, <3>3
    <3> HIDE DEF more
    <3>5. n \in DOMAIN more
      BY <3>1, <3>4
    <3>6. ShowsAll(more, Append(lines, line))
      BY <1>1, <1>4, <2>1, <3>3, <3>4, <3>5, TextShows
    <3>7. QED
      BY <3>2, <3>4, <3>6
  <2>2. CASE ~(n > 0 /\ blocks[n].kind = "text")
    <3> DEFINE b == BlockOf("text", 0, <<line.about>>, FALSE)
               more == Append(blocks, b)
    <3>1. Adds(blocks, line) = more
      BY <1>4, <2>2 DEF Adds, Ends
    <3>2. <<line.about>> \in Seq(Nat) /\ <<line.about>> = Append(<<>>, line.about)
      BY <1>2
    <3>3. b \in Shape /\ b.kind = "text" /\ b.text = Append(<<>>, line.about)
      <4> DEFINE t == <<line.about>>
      <4>1. t \in Seq(Nat) /\ t = Append(<<>>, line.about)
        BY <3>2
      <4> HIDE DEF t
      <4>2. /\ BlockOf("text", 0, t, FALSE) \in Shape /\ BlockOf("text", 0, t, FALSE).kind = "text"
            /\ BlockOf("text", 0, t, FALSE).text = t
        BY <4>1 DEF BlockOf, Shape
      <4>3. QED
        BY <4>1, <4>2 DEF t
    <3> HIDE DEF b
    <3>4. /\ more \in Seq(Shape) /\ Len(more) = n + 1 /\ more[n + 1] = b
          /\ \A i \in 1 .. (n + 1) - 1 : more[i] = blocks[i]
      BY <1>1, <3>3
    <3> HIDE DEF more
    <3>5. n + 1 \in DOMAIN more
      BY <1>1, <3>4
    <3>6. ShowsAll(more, Append(lines, line))
      BY <1>1, <1>4, <3>3, <3>4, <3>5, TextShows
    <3>7. QED
      BY <3>1, <3>4, <3>6
  <2>3. QED
    BY <2>1, <2>2
<1>5. CASE line.kind = "call"
  <2> DEFINE b == BlockOf("call", line.about, <<>>, FALSE)
  <2>1. b \in Shape /\ b.kind = "call" /\ b.about = line.about /\ ~b.answered
    BY <1>2 DEF BlockOf, Shape
  <2>2. Adds(blocks, line) = Append(blocks, b)
    BY <1>5 DEF Adds, Ends
  <2> HIDE DEF b
  <2>3. Append(blocks, b) \in Seq(Shape) /\ ShowsAll(Append(blocks, b), Append(lines, line))
    BY <1>5, <2>1, CallShows
  <2>4. QED
    BY <2>2, <2>3
<1>6. CASE line.kind = "result"
  <2>1. line.about \in AboutOf(lines, "call") /\ line.about \notin AboutOf(lines, "result")
    BY <1>6 DEF NextLine
  <2>2. PICK k \in DOMAIN blocks : blocks[k].kind = "call" /\ blocks[k].about = line.about
    BY <2>1 DEF ShowsAll, PlacesOf
  <2>3. ~blocks[k].answered
    BY <2>1, <2>2 DEF ShowsAll, PlacesOf
  <2>4. k \in sought /\ sought \in SUBSET (1 .. n)
    BY <1>1, <2>2, <2>3
  <2>5. called \in {0} \cup sought /\ k <= called
    BY <1>1, <2>4, GreatestIsThere
  <2>6. called \in sought /\ called \in 1 .. n
    BY <1>1, <2>4, <2>5
  <2> DEFINE b == [blocks[called] EXCEPT !.answered = TRUE]
  <2>7. /\ blocks[called] \in Shape /\ blocks[called].kind = "call"
        /\ blocks[called].about = line.about /\ called \in DOMAIN blocks
    BY <1>1, <2>6
  <2>0. called # 0
    BY <1>1, <2>6
  <2>8. Adds(blocks, line) = [blocks EXCEPT ![called] = b]
    <3>1. Adds(blocks, line)
            = IF called # 0 THEN [blocks EXCEPT ![called].answered = TRUE]
              ELSE Append(blocks, BlockOf("call", line.about, <<>>, TRUE))
      BY <1>6 DEF Adds, Ends
    <3>2. QED
      BY <2>0, <3>1, Zenon
  <2> HIDE DEF called, sought, open, n
  <2>9. b \in Shape /\ b.kind = "call" /\ b.about = line.about /\ b.answered
    BY <2>7, BlockAnswered
  <2> HIDE DEF b
  <2>10. ShowsAll([blocks EXCEPT ![called] = b], Append(lines, line))
    BY <1>6, <2>7, <2>9, ResultShows
  <2>11. [blocks EXCEPT ![called] = b] \in Seq(Shape)
    BY <2>7, <2>9
  <2>12. QED
    BY <2>8, <2>10, <2>11
<1>7. QED
  BY <1>3, <1>4, <1>5, <1>6

\* Blocks stay blocks, whatever line is added.
LEMMA AddsTyped ==
    ASSUME NEW blocks \in Seq(Shape), NEW line \in Line
    PROVE  Adds(blocks, line) \in Seq(Shape)
<1> DEFINE n == Len(blocks)
           open == {i \in DOMAIN blocks : blocks[i].kind = "call" /\ ~blocks[i].answered}
           sought == {i \in open : blocks[i].about = line.about}
           called == NewestOf(sought)
<1>1. n \in Nat /\ DOMAIN blocks = 1 .. n /\ \A i \in 1 .. n : blocks[i] \in Shape
  OBVIOUS
<1>2. line.about \in Nat /\ <<>> \in Seq(Nat) /\ <<line.about>> \in Seq(Nat)
  BY DEF Line
<1>3. CASE line.kind = "text"
  <2>1. CASE n > 0 /\ blocks[n].kind = "text"
    <3> DEFINE b == [blocks[n] EXCEPT !.text = Append(blocks[n].text, line.about)]
    <3>1. n \in 1 .. n /\ blocks[n] \in Shape
      BY <1>1, <2>1
    <3>2. Adds(blocks, line) = [blocks EXCEPT ![n] = b]
      BY <1>3, <2>1 DEF Adds, Ends
    <3>3. b \in Shape
      BY <1>2, <3>1, BlockGrows
    <3> HIDE DEF b
    <3>4. QED
      BY <1>1, <3>1, <3>2, <3>3
  <2>2. CASE ~(n > 0 /\ blocks[n].kind = "text")
    <3> DEFINE t == <<line.about>>
               b == BlockOf("text", 0, t, FALSE)
    <3>1. Adds(blocks, line) = Append(blocks, b)
      BY <1>3, <2>2 DEF Adds, Ends
    <3>2. t \in Seq(Nat)
      BY <1>2
    <3> HIDE DEF t
    <3>3. b \in Shape
      BY <3>2 DEF BlockOf, Shape
    <3> HIDE DEF b
    <3>4. QED
      BY <3>1, <3>3
  <2>3. QED
    BY <2>1, <2>2
<1>4. CASE line.kind = "call"
  <2> DEFINE b == BlockOf("call", line.about, <<>>, FALSE)
  <2>1. b \in Shape
    BY <1>2 DEF BlockOf, Shape
  <2>2. Adds(blocks, line) = Append(blocks, b)
    BY <1>4 DEF Adds, Ends
  <2> HIDE DEF b
  <2>3. QED
    BY <2>1, <2>2
<1>5. CASE line.kind = "result"
  <2> DEFINE b == BlockOf("call", line.about, <<>>, TRUE)
  <2>1. sought \in SUBSET (1 .. n)
    BY <1>1
  <2>2. called \in {0} \cup sought
    BY <1>1, <2>1, GreatestIsThere
  <2>3. Adds(blocks, line) = IF called # 0 THEN [blocks EXCEPT ![called].answered = TRUE]
                             ELSE Append(blocks, b)
    BY <1>5 DEF Adds, Ends
  <2>4. b \in Shape
    BY <1>2 DEF BlockOf, Shape
  <2>5. called # 0 => called \in 1 .. n
    BY <2>1, <2>2
  <2> HIDE DEF b, called
  <2>6. CASE called = 0
    BY <2>3, <2>4, <2>6
  <2>7. CASE called # 0
    <3> DEFINE a == [blocks[called] EXCEPT !.answered = TRUE]
    <3>1. a \in Shape
      BY <1>1, <2>5, <2>7, BlockAnswered
    <3>2. Adds(blocks, line) = [blocks EXCEPT ![called] = a]
      BY <2>3, <2>7, Zenon
    <3> HIDE DEF a
    <3>3. QED
      BY <1>1, <2>5, <2>7, <3>1, <3>2
  <2>8. QED
    BY <2>6, <2>7
<1>6. CASE line.kind \notin {"text", "call", "result"}
  BY <1>6, AddsNothing
<1>7. QED
  BY <1>3, <1>4, <1>5, <1>6

\* An empty screen shows that nothing was said.
LEMMA NothingShows == ShowsAll(<<>>, <<>>) /\ DialogsFit({}, <<>>)
  BY DEF ShowsAll, DialogsFit, PlacesOf, AboutOf

---------------------------------------------------------------------------------
(* Lines on their way. *)

\* What an agent says: texts, calls and approvals carry the place they have, a result goes to
\* a call before it and to none twice, and the end is the last.
SaidInOrder(said) ==
    /\ \A i \in DOMAIN said : said[i].kind \in {"text", "call", "ask"} => said[i].about = i
    /\ \A i \in DOMAIN said : said[i].kind = "result" =>
          \E j \in DOMAIN said : j < i /\ said[j].kind = "call" /\ said[j].about = said[i].about
    /\ \A i, j \in DOMAIN said :
          said[i].kind = "result" /\ said[j].kind = "result" /\ said[i].about = said[j].about => i = j
    /\ \A i \in DOMAIN said : said[i].kind \in Ends => i = Len(said)

\* A sequence is its first and what follows it.
LEMMA FirstAndRest ==
    ASSUME NEW x \in Seq(Line), x # <<>>
    PROVE  Head(x) \in Line /\ Tail(x) \in Seq(Line) /\ x = <<Head(x)>> \o Tail(x)
<1> DEFINE y == <<Head(x)>> \o Tail(x)
<1>1. /\ Head(x) \in Line /\ Tail(x) \in Seq(Line) /\ Len(Tail(x)) = Len(x) - 1
      /\ (\A i \in 1 .. Len(x) - 1 : Tail(x)[i] = x[i + 1]) /\ Len(x) \in Nat \ {0}
  OBVIOUS
<1>2. <<Head(x)>> \in Seq(Line) /\ Len(<<Head(x)>>) = 1 /\ <<Head(x)>>[1] = Head(x) /\ Head(x) = x[1]
  BY <1>1
<1>3. y \in Seq(Line) /\ Len(y) = Len(x)
      /\ \A i \in 1 .. Len(x) : y[i] = IF i <= 1 THEN <<Head(x)>>[i] ELSE Tail(x)[i - 1]
  BY <1>1, <1>2, ConcatProperties
<1> HIDE DEF y
<1>4. \A i \in 1 .. Len(x) : y[i] = x[i]
  <2>1. ASSUME NEW i \in 1 .. Len(x)
        PROVE  y[i] = x[i]
    <3>1. CASE i = 1
      BY <1>1, <1>2, <1>3, <3>1
    <3>2. CASE i # 1
      <4>1. i - 1 \in 1 .. Len(x) - 1
        BY <1>1, <3>2
      <4>2. QED
        BY <1>1, <1>3, <3>2, <4>1
    <3>3. QED
      BY <3>1, <3>2
  <2>2. QED
    BY <2>1
<1>5. x = y
  BY <1>3, <1>4, SeqEqual
<1>6. QED
  BY <1>1, <1>5 DEF y

\* One sequence of lines, then another.
Linked(a, b) == a \o b

\* Linked, lines are lines, and it does not matter which are joined first.
LEMMA LinkedLines ==
    \A a, b \in Seq(Line) : Linked(a, b) \in Seq(Line)
  BY DEF Linked

\* Nor in which order three are joined.
LEMMA LinkedThrice ==
    \A a, b, c \in Seq(Line) : Linked(Linked(a, b), c) = Linked(a, Linked(b, c))
<1>1. ASSUME NEW a \in Seq(Line), NEW b \in Seq(Line), NEW c \in Seq(Line)
      PROVE  Linked(Linked(a, b), c) = Linked(a, Linked(b, c))
  <2>1. (a \o b) \o c = a \o (b \o c)
    BY ConcatAssociative
  <2>2. QED
    BY <2>1 DEF Linked
<1>2. QED
  BY <1>1

\* A line at the end is a sequence of one that is joined.
LEMMA LinkedOne ==
    ASSUME NEW a \in Seq(Line), NEW x \in Line
    PROVE  <<x>> \in Seq(Line) /\ Append(a, x) = Linked(a, <<x>>)
<1>1. <<x>> \in Seq(Line)
  OBVIOUS
<1>2. Append(a, x) = a \o <<x>>
  BY AppendIsConcat
<1>3. QED
  BY <1>1, <1>2, Zenon DEF Linked

\* Nothing joined to lines leaves them as they are.
LEMMA LinkedNone ==
    ASSUME NEW a \in Seq(Line)
    PROVE  Linked(a, <<>>) = a /\ Linked(<<>>, a) = a
  BY DEF Linked

\* What comes in from the wire leaves the order as it is.
LEMMA FillKeeps ==
    ASSUME NEW a \in Seq(Line), NEW b \in Seq(Line), NEW w \in Seq(Line), NEW n \in 1 .. Len(w)
    PROVE  /\ SubSeq(w, 1, n) \in Seq(Line) /\ SubSeq(w, n + 1, Len(w)) \in Seq(Line)
           /\ Linked(b, SubSeq(w, 1, n)) \in Seq(Line)
           /\ Linked(Linked(a, Linked(b, SubSeq(w, 1, n))), SubSeq(w, n + 1, Len(w)))
                = Linked(Linked(a, b), w)
           /\ Linked(Linked(b, SubSeq(w, 1, n)), SubSeq(w, n + 1, Len(w))) = Linked(b, w)
<1>1. SubSeq(w, 1, n) \in Seq(Line) /\ SubSeq(w, n + 1, Len(w)) \in Seq(Line)
  OBVIOUS
<1>2. Len(w) \in Nat /\ 1 \in 1 .. Len(w) + 1 /\ n \in 1 - 1 .. Len(w) /\ Len(w) \in n .. Len(w)
  OBVIOUS
<1>3. SubSeq(w, 1, n) \o SubSeq(w, n + 1, Len(w)) = SubSeq(w, 1, Len(w))
  BY <1>2, ConcatAdjacentSubSeq
<1>4. SubSeq(w, 1, Len(w)) = w
  BY SubSeqFull
<1> DEFINE x == SubSeq(w, 1, n)
           y == SubSeq(w, n + 1, Len(w))
<1>5. x \in Seq(Line) /\ y \in Seq(Line) /\ Linked(x, y) = w
  BY <1>1, <1>3, <1>4, Zenon DEF Linked
<1> HIDE DEF x, y
<1>6. Linked(a, b) \in Seq(Line) /\ Linked(b, x) \in Seq(Line)
  BY <1>5, LinkedLines
<1>7. Linked(Linked(b, x), y) = Linked(b, w)
  BY <1>5, LinkedThrice
<1>8. Linked(a, Linked(b, x)) = Linked(Linked(a, b), x)
  BY <1>5, LinkedThrice
<1>9. Linked(Linked(Linked(a, b), x), y) = Linked(Linked(a, b), w)
  BY <1>5, <1>6, LinkedThrice
<1>10. QED
  BY <1>1, <1>6, <1>7, <1>8, <1>9 DEF x, y

\* Nor does what the reader takes from its buffer.
LEMMA TakeKeeps ==
    ASSUME NEW a \in Seq(Line), NEW b \in Seq(Line), NEW w \in Seq(Line), b # <<>>
    PROVE  /\ Append(a, Head(b)) \in Seq(Line) /\ Tail(b) \in Seq(Line)
           /\ Linked(Linked(Append(a, Head(b)), Tail(b)), w) = Linked(Linked(a, b), w)
<1> DEFINE x == Head(b)
           y == Tail(b)
           e == <<x>>
<1>1. x \in Line /\ y \in Seq(Line) /\ b = Linked(e, y)
  BY FirstAndRest DEF Linked
<1> HIDE DEF x, y
<1>2. e \in Seq(Line) /\ Append(a, x) = Linked(a, e)
  BY <1>1, LinkedOne
<1> HIDE DEF e
<1>3. Linked(Linked(a, e), y) = Linked(a, Linked(e, y))
  BY <1>1, <1>2, LinkedThrice
<1>4. Linked(a, e) \in Seq(Line)
  BY <1>2, LinkedLines
<1>5. QED
  BY <1>1, <1>2, <1>3, <1>4 DEF x, y

\* What is handled joins what was.
LEMMA PopKeeps ==
    ASSUME NEW h \in Seq(Line), NEW a \in Seq(Line), NEW b \in Seq(Line), NEW w \in Seq(Line),
           a # <<>>
    PROVE  /\ Append(h, Head(a)) \in Seq(Line) /\ Tail(a) \in Seq(Line)
           /\ Linked(Append(h, Head(a)), Linked(Linked(Tail(a), b), w))
                = Linked(h, Linked(Linked(a, b), w))
<1> DEFINE x == Head(a)
           y == Tail(a)
           e == <<x>>
<1>1. x \in Line /\ y \in Seq(Line) /\ a = Linked(e, y)
  BY FirstAndRest DEF Linked
<1> HIDE DEF x, y
<1>2. e \in Seq(Line) /\ Append(h, x) = Linked(h, e)
  BY <1>1, LinkedOne
<1> HIDE DEF e
<1>3. /\ Linked(h, e) \in Seq(Line) /\ Linked(y, b) \in Seq(Line)
      /\ Linked(Linked(y, b), w) \in Seq(Line)
  BY <1>1, <1>2, LinkedLines
<1>4. Linked(Linked(h, e), Linked(Linked(y, b), w)) = Linked(h, Linked(e, Linked(Linked(y, b), w)))
  BY <1>2, <1>3, LinkedThrice
<1>5. Linked(a, b) = Linked(e, Linked(y, b))
  BY <1>1, <1>2, LinkedThrice
<1>6. Linked(Linked(e, Linked(y, b)), w) = Linked(e, Linked(Linked(y, b), w))
  BY <1>2, <1>3, LinkedThrice
<1>7. QED
  BY <1>1, <1>2, <1>3, <1>4, <1>5, <1>6 DEF x, y

\* What is said comes after all that was.
LEMMA SayKeeps ==
    ASSUME NEW h \in Seq(Line), NEW w \in Seq(Line), NEW x \in Line
    PROVE  Append(w, x) \in Seq(Line) /\ Linked(h, Append(w, x)) = Append(Linked(h, w), x)
<1> DEFINE e == <<x>>
<1>1. e \in Seq(Line) /\ Append(w, x) = Linked(w, e)
  BY LinkedOne
<1>2. Linked(h, w) \in Seq(Line)
  BY LinkedLines
<1>3. Append(Linked(h, w), x) = Linked(Linked(h, w), e)
  BY <1>2, LinkedOne
<1> HIDE DEF e
<1>4. Linked(Linked(h, w), e) = Linked(h, Linked(w, e))
  BY <1>1, LinkedThrice
<1>5. Linked(w, e) \in Seq(Line)
  BY <1>1, LinkedLines
<1>6. QED
  BY <1>1, <1>3, <1>4, <1>5

\* What begins alike goes on alike.
LEMMA LinkedAlike ==
    ASSUME NEW x \in Line, NEW y \in Line, NEW a \in Seq(Line), NEW b \in Seq(Line),
           Linked(<<x>>, a) = Linked(<<y>>, b)
    PROVE  x = y /\ a = b
<1>1. ASSUME NEW z \in Line, NEW s \in Seq(Line)
      PROVE  /\ Len(Linked(<<z>>, s)) = 1 + Len(s) /\ Linked(<<z>>, s)[1] = z
             /\ \A i \in 1 .. Len(s) : Linked(<<z>>, s)[i + 1] = s[i]
  <2> DEFINE e == <<z>>
             u == e \o s
  <2>1. e \in Seq(Line) /\ Len(e) = 1 /\ e[1] = z /\ Len(s) \in Nat
    OBVIOUS
  <2> HIDE DEF e
  <2>2. /\ Len(e \o s) = Len(e) + Len(s)
        /\ \A i \in 1 .. Len(e) + Len(s) :
              (e \o s)[i] = IF i <= Len(e) THEN e[i] ELSE s[i - Len(e)]
    BY <2>1, ConcatProperties
  <2> HIDE DEF u
  <2>3. Len(u) = 1 + Len(s) /\ u[1] = z
    BY <2>1, <2>2 DEF u
  <2>4. ASSUME NEW i \in 1 .. Len(s)
        PROVE  u[i + 1] = s[i]
    <3>1. i + 1 \in 1 .. 1 + Len(s) /\ ~(i + 1 <= 1) /\ (i + 1) - 1 = i
      BY <2>1
    <3>2. QED
      BY <2>1, <2>2, <3>1 DEF u
  <2>5. QED
    BY <2>3, <2>4 DEF Linked, u, e
<1> DEFINE u == Linked(<<x>>, a)
           v == Linked(<<y>>, b)
<1>2. Len(u) = 1 + Len(a) /\ u[1] = x /\ \A i \in 1 .. Len(a) : u[i + 1] = a[i]
  BY <1>1
<1>3. Len(v) = 1 + Len(b) /\ v[1] = y /\ \A i \in 1 .. Len(b) : v[i + 1] = b[i]
  BY <1>1
<1>4. u = v
  OBVIOUS
<1> HIDE DEF u, v
<1>5. Len(a) \in Nat /\ Len(b) \in Nat /\ Len(a) = Len(b)
  BY <1>2, <1>3, <1>4
<1>6. x = y
  BY <1>2, <1>3, <1>4
<1>7. \A i \in 1 .. Len(a) : a[i] = b[i]
  BY <1>2, <1>3, <1>4, <1>5
<1>8. a = b
  BY <1>5, <1>7, SeqEqual
<1>9. QED
  BY <1>6, <1>8

\* Where a line comes first, there is something.
LEMMA LinkedSome ==
    ASSUME NEW x \in Line, NEW a \in Seq(Line)
    PROVE  Linked(<<x>>, a) # <<>>
<1> DEFINE e == <<x>>
<1>1. e \in Seq(Line) /\ Len(e) = 1
  OBVIOUS
<1> HIDE DEF e
<1>2. Len(a) \in Nat
  OBVIOUS
<1>3. Len(e \o a) = Len(e) + Len(a)
  BY <1>1, ConcatProperties
<1>4. e \o a # <<>>
  BY <1>1, <1>2, <1>3
<1>5. QED
  BY <1>4 DEF Linked, e

\* A connection, by its fields.
Conn(stage, wire, buf, inbox, next) ==
    [at |-> stage, wire |-> wire, buffer |-> buf, inbox |-> inbox, next |-> next]

\* What its fields are.
LEMMA ConnIs ==
    ASSUME NEW stage \in Ats, NEW wire \in Seq(Line), NEW buf \in Seq(Line),
           NEW inbox \in Seq(Line), NEW next \in Nat
    PROVE  /\ Conn(stage, wire, buf, inbox, next) \in Connections
           /\ Conn(stage, wire, buf, inbox, next).at = stage
           /\ Conn(stage, wire, buf, inbox, next).wire = wire
           /\ Conn(stage, wire, buf, inbox, next).buffer = buf
           /\ Conn(stage, wire, buf, inbox, next).inbox = inbox
           /\ Conn(stage, wire, buf, inbox, next).next = next
  BY DEF Conn, Connections, Ats

\* What the fields of any connection are.
LEMMA ConnTyped ==
    ASSUME NEW r \in Connections
    PROVE  /\ r.at \in Ats /\ r.next \in Nat
           /\ r.wire \in Seq(Line) /\ r.buffer \in Seq(Line) /\ r.inbox \in Seq(Line)
  BY DEF Connections, Ats

\* A connection one field of which is changed.
LEMMA ConnWith ==
    ASSUME NEW r \in Connections
    PROVE  /\ \A v : [r EXCEPT !.at = v] = Conn(v, r.wire, r.buffer, r.inbox, r.next)
           /\ \A v : [r EXCEPT !.wire = v] = Conn(r.at, v, r.buffer, r.inbox, r.next)
           /\ \A v : [r EXCEPT !.buffer = v] = Conn(r.at, r.wire, v, r.inbox, r.next)
           /\ \A v : [r EXCEPT !.inbox = v] = Conn(r.at, r.wire, r.buffer, v, r.next)
           /\ \A v : [r EXCEPT !.next = v] = Conn(r.at, r.wire, r.buffer, r.inbox, v)
<1>1. r = [at |-> r.at, wire |-> r.wire, buffer |-> r.buffer, inbox |-> r.inbox, next |-> r.next]
  BY DEF Connections
<1> DEFINE a == r.at
           w == r.wire
           b == r.buffer
           i == r.inbox
           n == r.next
<1>2. r = [at |-> a, wire |-> w, buffer |-> b, inbox |-> i, next |-> n]
  BY <1>1
<1> HIDE DEF a, w, b, i, n
<1>3. \A v : [r EXCEPT !.at = v] = Conn(v, w, b, i, n)
  BY <1>2 DEF Conn
<1>4. \A v : [r EXCEPT !.wire = v] = Conn(a, v, b, i, n)
  BY <1>2 DEF Conn
<1>5. \A v : [r EXCEPT !.buffer = v] = Conn(a, w, v, i, n)
  BY <1>2 DEF Conn
<1>6. \A v : [r EXCEPT !.inbox = v] = Conn(a, w, b, v, n)
  BY <1>2 DEF Conn
<1>7. \A v : [r EXCEPT !.next = v] = Conn(a, w, b, i, v)
  BY <1>2 DEF Conn
<1>8. QED
  BY <1>3, <1>4, <1>5, <1>6, <1>7 DEF a, w, b, i, n

\* A connection d is where it was, with its lines, and one that has moved, as the others
\* have not.
Same(cs, more, d) ==
    /\ more[d].at = cs[d].at /\ more[d].wire = cs[d].wire
    /\ more[d].buffer = cs[d].buffer /\ more[d].inbox = cs[d].inbox
Moved(cs, more, c, stage, wire, buf, inbox) ==
    /\ more \in [Dialled -> Connections]
    /\ more[c].at = stage /\ more[c].wire = wire /\ more[c].buffer = buf /\ more[c].inbox = inbox
    /\ \A d \in Dialled \ {c} : Same(cs, more, d)

\* One connection is replaced.
LEMMA ConnMoved ==
    ASSUME NEW cs \in [Dialled -> Connections], NEW c \in Dialled,
           NEW stage \in Ats, NEW wire \in Seq(Line), NEW buf \in Seq(Line),
           NEW inbox \in Seq(Line), NEW next \in Nat
    PROVE  Moved(cs, [cs EXCEPT ![c] = Conn(stage, wire, buf, inbox, next)], c,
                 stage, wire, buf, inbox)
<1> DEFINE r == Conn(stage, wire, buf, inbox, next)
           more == [cs EXCEPT ![c] = r]
<1>1. /\ r \in Connections /\ r.at = stage /\ r.wire = wire /\ r.buffer = buf /\ r.inbox = inbox
  BY ConnIs
<1> HIDE DEF r
<1>2. /\ more \in [Dialled -> Connections] /\ more[c] = r
      /\ \A d \in Dialled \ {c} : more[d] = cs[d]
  BY <1>1
<1> HIDE DEF more
<1>3. Moved(cs, more, c, stage, wire, buf, inbox)
  BY <1>1, <1>2 DEF Moved, Same
<1>4. QED
  BY <1>3 DEF more, r

\* One connection comes to somewhere else.
LEMMA AtMoved ==
    ASSUME NEW cs \in [Dialled -> Connections], NEW c \in Dialled, NEW v \in Ats
    PROVE  Moved(cs, [cs EXCEPT ![c].at = v], c, v, cs[c].wire, cs[c].buffer, cs[c].inbox)
<1>1. [cs EXCEPT ![c].at = v] = [cs EXCEPT ![c] = [cs[c] EXCEPT !.at = v]]
  OBVIOUS
<1>2. cs[c] \in Connections
  OBVIOUS
<1>3. [cs[c] EXCEPT !.at = v] = Conn(v, cs[c].wire, cs[c].buffer, cs[c].inbox, cs[c].next)
  BY <1>2, ConnWith
<1>4. Moved(cs, [cs EXCEPT ![c] = Conn(v, cs[c].wire, cs[c].buffer, cs[c].inbox, cs[c].next)], c,
             v, cs[c].wire, cs[c].buffer, cs[c].inbox)
  BY <1>2, ConnTyped, ConnMoved
<1>5. QED
  BY <1>1, <1>3, <1>4, Zenon

\* One has other lines on the wire.
LEMMA WireMoved ==
    ASSUME NEW cs \in [Dialled -> Connections], NEW c \in Dialled, NEW v \in Seq(Line)
    PROVE  Moved(cs, [cs EXCEPT ![c].wire = v], c, cs[c].at, v, cs[c].buffer, cs[c].inbox)
<1>1. [cs EXCEPT ![c].wire = v] = [cs EXCEPT ![c] = [cs[c] EXCEPT !.wire = v]]
  OBVIOUS
<1>2. cs[c] \in Connections
  OBVIOUS
<1>3. [cs[c] EXCEPT !.wire = v] = Conn(cs[c].at, v, cs[c].buffer, cs[c].inbox, cs[c].next)
  BY <1>2, ConnWith
<1>4. Moved(cs, [cs EXCEPT ![c] = Conn(cs[c].at, v, cs[c].buffer, cs[c].inbox, cs[c].next)], c,
             cs[c].at, v, cs[c].buffer, cs[c].inbox)
  BY <1>2, ConnTyped, ConnMoved
<1>5. QED
  BY <1>1, <1>3, <1>4, Zenon

\* One has other lines in its buffer.
LEMMA BufferMoved ==
    ASSUME NEW cs \in [Dialled -> Connections], NEW c \in Dialled, NEW v \in Seq(Line)
    PROVE  Moved(cs, [cs EXCEPT ![c].buffer = v], c, cs[c].at, cs[c].wire, v, cs[c].inbox)
<1>1. [cs EXCEPT ![c].buffer = v] = [cs EXCEPT ![c] = [cs[c] EXCEPT !.buffer = v]]
  OBVIOUS
<1>2. cs[c] \in Connections
  OBVIOUS
<1>3. [cs[c] EXCEPT !.buffer = v] = Conn(cs[c].at, cs[c].wire, v, cs[c].inbox, cs[c].next)
  BY <1>2, ConnWith
<1>4. Moved(cs, [cs EXCEPT ![c] = Conn(cs[c].at, cs[c].wire, v, cs[c].inbox, cs[c].next)], c,
             cs[c].at, cs[c].wire, v, cs[c].inbox)
  BY <1>2, ConnTyped, ConnMoved
<1>5. QED
  BY <1>1, <1>3, <1>4, Zenon

\* One has other lines to be handled.
LEMMA InboxMoved ==
    ASSUME NEW cs \in [Dialled -> Connections], NEW c \in Dialled, NEW v \in Seq(Line)
    PROVE  Moved(cs, [cs EXCEPT ![c].inbox = v], c, cs[c].at, cs[c].wire, cs[c].buffer, v)
<1>1. [cs EXCEPT ![c].inbox = v] = [cs EXCEPT ![c] = [cs[c] EXCEPT !.inbox = v]]
  OBVIOUS
<1>2. cs[c] \in Connections
  OBVIOUS
<1>3. [cs[c] EXCEPT !.inbox = v] = Conn(cs[c].at, cs[c].wire, cs[c].buffer, v, cs[c].next)
  BY <1>2, ConnWith
<1>4. Moved(cs, [cs EXCEPT ![c] = Conn(cs[c].at, cs[c].wire, cs[c].buffer, v, cs[c].next)], c,
             cs[c].at, cs[c].wire, cs[c].buffer, v)
  BY <1>2, ConnTyped, ConnMoved
<1>5. QED
  BY <1>1, <1>3, <1>4, Zenon

\* One has another id for its next request.
LEMMA NextMoved ==
    ASSUME NEW cs \in [Dialled -> Connections], NEW c \in Dialled, NEW v \in Nat
    PROVE  Moved(cs, [cs EXCEPT ![c].next = v], c, cs[c].at, cs[c].wire, cs[c].buffer, cs[c].inbox)
<1>1. [cs EXCEPT ![c].next = v] = [cs EXCEPT ![c] = [cs[c] EXCEPT !.next = v]]
  OBVIOUS
<1>2. cs[c] \in Connections
  OBVIOUS
<1>3. [cs[c] EXCEPT !.next = v] = Conn(cs[c].at, cs[c].wire, cs[c].buffer, cs[c].inbox, v)
  BY <1>2, ConnWith
<1>4. Moved(cs, [cs EXCEPT ![c] = Conn(cs[c].at, cs[c].wire, cs[c].buffer, cs[c].inbox, v)], c,
             cs[c].at, cs[c].wire, cs[c].buffer, cs[c].inbox)
  BY <1>2, ConnTyped, ConnMoved
<1>5. QED
  BY <1>1, <1>3, <1>4, Zenon

\* How many connections there are, if those that are used come first.
LEMMA UsedAre ==
    ASSUME NEW cs \in [Dialled -> Connections], NEW n \in 0 .. MaxDialled,
           \A c \in Dialled : cs[c].at = "unused" <=> c > n
    PROVE  Cardinality({c \in Dialled : cs[c].at # "unused"}) = n
<1>1. MaxDialled \in Nat
  BY AndroidAssumption
<1>2. {c \in Dialled : cs[c].at # "unused"} = 1 .. n
  BY <1>1 DEF Dialled
<1>3. Cardinality(1 .. n) = n
  BY <1>1, FS_Interval
<1>4. QED
  BY <1>2, <1>3

\* Two changes of the same connection are one.
LEMMA MovedOn ==
    ASSUME NEW cs, NEW mid, NEW more, NEW c \in Dialled, NEW stage, NEW wire, NEW buf, NEW inbox,
           NEW stage2, NEW wire2, NEW buf2, NEW inbox2,
           Moved(cs, mid, c, stage, wire, buf, inbox),
           Moved(mid, more, c, stage2, wire2, buf2, inbox2)
    PROVE  Moved(cs, more, c, stage2, wire2, buf2, inbox2)
  BY DEF Moved, Same

\* Fill: the lines taken in are the buffer's last.
LEMMA FillMoves ==
    ASSUME NEW cs \in [Dialled -> Connections], NEW c \in Dialled, NEW n \in 1 .. Len(cs[c].wire)
    PROVE  Moved(cs, [cs EXCEPT ![c].buffer = @ \o SubSeq(cs[c].wire, 1, n),
                                ![c].wire = SubSeq(@, n + 1, Len(@))],
                 c, cs[c].at, SubSeq(cs[c].wire, n + 1, Len(cs[c].wire)),
                 Linked(cs[c].buffer, SubSeq(cs[c].wire, 1, n)), cs[c].inbox)
<1> DEFINE w == cs[c].wire
           x == SubSeq(w, 1, n)
           y == SubSeq(w, n + 1, Len(w))
           b == Linked(cs[c].buffer, x)
           mid == [cs EXCEPT ![c].buffer = b]
           more == [mid EXCEPT ![c].wire = y]
<1>1. /\ cs[c].at \in Ats /\ w \in Seq(Line) /\ cs[c].buffer \in Seq(Line)
      /\ cs[c].inbox \in Seq(Line)
  BY ConnTyped
<1>2. x \in Seq(Line) /\ y \in Seq(Line) /\ b \in Seq(Line)
  BY <1>1, FillKeeps
<1>3. [cs EXCEPT ![c].buffer = @ \o SubSeq(cs[c].wire, 1, n),
                 ![c].wire = SubSeq(@, n + 1, Len(@))]
        = [[cs EXCEPT ![c].buffer = @ \o SubSeq(cs[c].wire, 1, n)]
              EXCEPT ![c].wire = SubSeq(@, n + 1, Len(@))]
  OBVIOUS
<1>4. [cs EXCEPT ![c].buffer = @ \o SubSeq(cs[c].wire, 1, n)] = mid
  BY DEF Linked
<1>5. Moved(cs, mid, c, cs[c].at, cs[c].wire, b, cs[c].inbox)
  BY <1>2, BufferMoved
<1> HIDE DEF b, mid
<1>6. mid \in [Dialled -> Connections] /\ mid[c].wire = cs[c].wire
  BY <1>5 DEF Moved
<1>7. Moved(mid, more, c, mid[c].at, y, mid[c].buffer, mid[c].inbox)
  BY <1>2, <1>6, WireMoved
<1>8. [mid EXCEPT ![c].wire = SubSeq(@, n + 1, Len(@))] = more
  BY <1>6
<1> HIDE DEF more, y
<1>9. Moved(mid, more, c, cs[c].at, y, b, cs[c].inbox)
  BY <1>5, <1>7 DEF Moved
<1>10. Moved(cs, more, c, cs[c].at, y, b, cs[c].inbox)
  BY <1>5, <1>9, MovedOn
<1>11. QED
  BY <1>3, <1>4, <1>8, <1>10 DEF y, b

\* StreamBegins: the frame is taken off the buffer.
LEMMA StreamMoves ==
    ASSUME NEW cs \in [Dialled -> Connections], NEW c \in Dialled, cs[c].buffer # <<>>
    PROVE  Moved(cs, [cs EXCEPT ![c].at = "open", ![c].buffer = Tail(@), ![c].next = @ + 1],
                 c, "open", cs[c].wire, Tail(cs[c].buffer), cs[c].inbox)
<1> DEFINE y == Tail(cs[c].buffer)
           one == [cs EXCEPT ![c].at = "open"]
           two == [one EXCEPT ![c].buffer = y]
           three == [two EXCEPT ![c].next = two[c].next + 1]
<1>1. cs[c].buffer \in Seq(Line) /\ y \in Seq(Line)
  BY ConnTyped
<1>2. [cs EXCEPT ![c].at = "open", ![c].buffer = Tail(@), ![c].next = @ + 1]
             = [[[cs EXCEPT ![c].at = "open"] EXCEPT ![c].buffer = Tail(@)] EXCEPT ![c].next = @ + 1]
  OBVIOUS
<1>3. Moved(cs, one, c, "open", cs[c].wire, cs[c].buffer, cs[c].inbox)
  BY AtMoved DEF Ats
<1> HIDE DEF one
<1>4. one \in [Dialled -> Connections] /\ one[c].buffer = cs[c].buffer
  BY <1>3 DEF Moved
<1>5. [one EXCEPT ![c].buffer = Tail(@)] = two
  BY <1>4
<1>6. Moved(one, two, c, one[c].at, one[c].wire, y, one[c].inbox)
  BY <1>1, <1>4, BufferMoved
<1> HIDE DEF two, y
<1>7. Moved(one, two, c, "open", cs[c].wire, y, cs[c].inbox)
  BY <1>3, <1>6 DEF Moved
<1>8. Moved(cs, two, c, "open", cs[c].wire, y, cs[c].inbox)
  BY <1>3, <1>7, MovedOn
<1>9. two \in [Dialled -> Connections] /\ two[c].next + 1 \in Nat
  BY <1>8, ConnTyped DEF Moved
<1>10. Moved(two, three, c, two[c].at, two[c].wire, two[c].buffer, two[c].inbox)
  BY <1>9, NextMoved
<1>11. [two EXCEPT ![c].next = @ + 1] = three
  BY <1>9
<1> HIDE DEF three
<1>12. Moved(two, three, c, "open", cs[c].wire, y, cs[c].inbox)
  BY <1>8, <1>10 DEF Moved
<1>13. Moved(cs, three, c, "open", cs[c].wire, y, cs[c].inbox)
  BY <1>8, <1>12, MovedOn
<1>14. QED
  BY <1>2, <1>5, <1>11, <1>13 DEF one, y

\* TakesLine: a line goes from the buffer to be handled.
LEMMA LineMoves ==
    ASSUME NEW cs \in [Dialled -> Connections], NEW c \in Dialled, NEW line \in Line, NEW y \in Seq(Line),
           NEW stage \in Ats
    PROVE  Moved(cs, [cs EXCEPT ![c].buffer = y, ![c].inbox = Append(@, line), ![c].at = stage],
                 c, stage, cs[c].wire, y, Append(cs[c].inbox, line))
<1> DEFINE one == [cs EXCEPT ![c].buffer = y]
           e == Append(cs[c].inbox, line)
           two == [one EXCEPT ![c].inbox = e]
           three == [two EXCEPT ![c].at = stage]
<1>1. cs[c].inbox \in Seq(Line) /\ e \in Seq(Line)
  BY ConnTyped
<1>2. [cs EXCEPT ![c].buffer = y, ![c].inbox = Append(@, line), ![c].at = stage]
             = [[[cs EXCEPT ![c].buffer = y] EXCEPT ![c].inbox = Append(@, line)] EXCEPT ![c].at = stage]
  OBVIOUS
<1>3. Moved(cs, one, c, cs[c].at, cs[c].wire, y, cs[c].inbox)
  BY BufferMoved
<1> HIDE DEF one
<1>4. one \in [Dialled -> Connections] /\ one[c].inbox = cs[c].inbox
  BY <1>3 DEF Moved
<1>5. [one EXCEPT ![c].inbox = Append(@, line)] = two
  BY <1>4
<1>6. Moved(one, two, c, one[c].at, one[c].wire, one[c].buffer, e)
  BY <1>1, <1>4, InboxMoved
<1> HIDE DEF two, e
<1>7. Moved(one, two, c, cs[c].at, cs[c].wire, y, e)
  BY <1>3, <1>6 DEF Moved
<1>8. Moved(cs, two, c, cs[c].at, cs[c].wire, y, e)
  BY <1>3, <1>7, MovedOn
<1>9. two \in [Dialled -> Connections]
  BY <1>8 DEF Moved
<1>10. Moved(two, three, c, stage, two[c].wire, two[c].buffer, two[c].inbox)
  BY <1>9, AtMoved
<1> HIDE DEF three
<1>12. Moved(two, three, c, stage, cs[c].wire, y, e)
  BY <1>8, <1>10 DEF Moved
<1>13. Moved(cs, three, c, stage, cs[c].wire, y, e)
  BY <1>8, <1>12, MovedOn
<1>14. QED
  BY <1>2, <1>5, <1>13 DEF one, e, three

\* Where the lines of a connection are: with an agent that has said something the daemon's
\* frame is on its way first, and who reads past it reads on.
Feeds(stage, inbox, buf, wire, said, handled) ==
    /\ stage = "unused" => inbox = <<>> /\ buf = <<>> /\ wire = <<>>
                        /\ said = <<>> /\ handled = <<>>
    /\ stage = "dialing" =>
          /\ inbox = <<>> /\ handled = <<>>
          /\ \/ buf = <<>> /\ wire = <<>> /\ said = <<>>
             \/ Linked(buf, wire) = Linked(<<Said("ack", 0)>>, said)
    /\ stage \in {"open", "closing", "ended"} => said = Linked(handled, Linked(Linked(inbox, buf), wire))

\* The daemon's frame is a line.
LEMMA AckIsALine == Said("ack", 0) \in Line
  BY DEF Said, Line

\* The lines stay where they belong as the reader takes in what has come,
LEMMA FeedFills ==
    ASSUME NEW stage \in Ats, NEW a \in Seq(Line), NEW b \in Seq(Line), NEW w \in Seq(Line),
           NEW s \in Seq(Line), NEW h \in Seq(Line), NEW n \in 1 .. Len(w),
           Feeds(stage, a, b, w, s, h)
    PROVE  Feeds(stage, a, Linked(b, SubSeq(w, 1, n)), SubSeq(w, n + 1, Len(w)), s, h)
<1>1. /\ Linked(Linked(a, Linked(b, SubSeq(w, 1, n))), SubSeq(w, n + 1, Len(w)))
           = Linked(Linked(a, b), w)
      /\ Linked(Linked(b, SubSeq(w, 1, n)), SubSeq(w, n + 1, Len(w))) = Linked(b, w)
  BY FillKeeps
<1>2. w # <<>>
  OBVIOUS
<1>3. QED
  BY <1>1, <1>2 DEF Feeds

\* as it goes on from the frame to the stream,
LEMMA FeedReads ==
    ASSUME NEW a \in Seq(Line), NEW b \in Seq(Line), NEW w \in Seq(Line),
           NEW s \in Seq(Line), NEW h \in Seq(Line), b # <<>>,
           Feeds("dialing", a, b, w, s, h)
    PROVE  Feeds("open", a, Tail(b), w, s, h)
<1> DEFINE x == Head(b)
           y == Tail(b)
           ack == Said("ack", 0)
<1>1. x \in Line /\ y \in Seq(Line) /\ b = Linked(<<x>>, y)
  BY FirstAndRest DEF Linked
<1>2. a = <<>> /\ h = <<>> /\ Linked(b, w) = Linked(<<ack>>, s)
  BY DEF Feeds
<1>3. ack \in Line
  BY AckIsALine
<1> HIDE DEF x, y, ack
<1>4. <<x>> \in Seq(Line)
  BY <1>1
<1>5. Linked(Linked(<<x>>, y), w) = Linked(<<x>>, Linked(y, w)) /\ Linked(y, w) \in Seq(Line)
  BY <1>1, <1>4, LinkedThrice, LinkedLines
<1>6. Linked(<<x>>, Linked(y, w)) = Linked(<<ack>>, s)
  BY <1>1, <1>2, <1>5
<1>7. s = Linked(y, w)
  BY <1>1, <1>3, <1>5, <1>6, LinkedAlike
<1>8. Linked(a, y) = y /\ Linked(h, Linked(y, w)) = Linked(y, w)
  BY <1>1, <1>2, <1>5, LinkedNone
<1>9. QED
  BY <1>7, <1>8 DEF Feeds, y

\* as it passes a line on,
LEMMA FeedTakes ==
    ASSUME NEW stage \in {"open", "closing", "ended"}, NEW stage2 \in {"open", "closing", "ended"},
           NEW a \in Seq(Line), NEW b \in Seq(Line), NEW w \in Seq(Line),
           NEW s \in Seq(Line), NEW h \in Seq(Line), b # <<>>,
           Feeds(stage, a, b, w, s, h)
    PROVE  Feeds(stage2, Append(a, Head(b)), Tail(b), w, s, h)
  BY TakeKeeps DEF Feeds

\* as that line is handled,
LEMMA FeedPops ==
    ASSUME NEW stage \in Ats, NEW a \in Seq(Line), NEW b \in Seq(Line), NEW w \in Seq(Line),
           NEW s \in Seq(Line), NEW h \in Seq(Line), a # <<>>,
           Feeds(stage, a, b, w, s, h)
    PROVE  Feeds(stage, Tail(a), b, w, s, Append(h, Head(a)))
  BY PopKeeps DEF Feeds

\* as the daemon sends its frame,
LEMMA FeedAcks ==
    ASSUME NEW a \in Seq(Line), NEW s \in Seq(Line), NEW h \in Seq(Line),
           Feeds("dialing", a, <<>>, <<>>, s, h)
    PROVE  Feeds("dialing", a, <<>>, <<Said("ack", 0)>>, s, h)
<1> DEFINE e == <<Said("ack", 0)>>
<1>1. e \in Seq(Line)
  BY AckIsALine
<1>2. Linked(e, s) # <<>>
  BY AckIsALine, LinkedSome
<1>3. Linked(<<>>, <<>>) = <<>>
  BY DEF Linked
<1> HIDE DEF e
<1>4. Linked(<<>>, e) = e /\ Linked(e, <<>>) = e
  BY <1>1, LinkedNone
<1>5. s = <<>>
  BY <1>2, <1>3 DEF Feeds, e
<1>6. QED
  BY <1>4, <1>5 DEF Feeds, e

\* and as the agent says something, which it does after the frame.
LEMMA FeedSays ==
    ASSUME NEW stage \in {"dialing", "open", "closing"},
           NEW a \in Seq(Line), NEW b \in Seq(Line), NEW w \in Seq(Line),
           NEW s \in Seq(Line), NEW h \in Seq(Line), NEW x \in Line,
           stage = "dialing" => w # <<>> \/ b # <<>>,
           Feeds(stage, a, b, w, s, h)
    PROVE  Feeds(stage, a, b, Append(w, x), Append(s, x), h)
<1> DEFINE e == <<Said("ack", 0)>>
<1>1. e \in Seq(Line)
  BY AckIsALine
<1> HIDE DEF e
<1>2. Linked(a, b) \in Seq(Line) /\ Linked(Linked(a, b), w) \in Seq(Line)
  BY LinkedLines
<1>3. CASE stage = "dialing"
  <2>1. Linked(b, w) = Linked(e, s)
    BY <1>3 DEF Feeds, e
  <2>2. Linked(b, Append(w, x)) = Append(Linked(b, w), x)
    BY SayKeeps
  <2>3. Linked(e, Append(s, x)) = Append(Linked(e, s), x)
    BY <1>1, SayKeeps
  <2>4. Linked(b, Append(w, x)) = Linked(e, Append(s, x))
    BY <2>1, <2>2, <2>3
  <2>5. QED
    BY <1>3, <2>4 DEF Feeds, e
<1>4. CASE stage \in {"open", "closing"}
  <2>1. s = Linked(h, Linked(Linked(a, b), w))
    BY <1>4 DEF Feeds
  <2>2. Linked(Linked(a, b), Append(w, x)) = Append(Linked(Linked(a, b), w), x)
    BY <1>2, SayKeeps
  <2>3. Linked(h, Append(Linked(Linked(a, b), w), x)) = Append(s, x)
    BY <1>2, <2>1, SayKeeps
  <2>4. QED
    BY <1>4, <2>2, <2>3 DEF Feeds
<1>5. QED
  BY <1>3, <1>4

\* One line more is said.
LEMMA SaidMore ==
    ASSUME NEW said \in Seq(Line), SaidInOrder(said), NEW line \in Line,
           \A i \in DOMAIN said : said[i].kind \notin Ends,
           line.kind \in {"text", "call", "ask"} => line.about = Len(said) + 1,
           line.kind = "result" => /\ line.about \in AboutOf(said, "call")
                                   /\ line.about \notin AboutOf(said, "result")
    PROVE  SaidInOrder(Append(said, line))
<1> DEFINE n == Len(said)
           more == Append(said, line)
<1>1. /\ n \in Nat /\ DOMAIN more = 1 .. n + 1 /\ DOMAIN said = 1 .. n /\ Len(more) = n + 1
      /\ more[n + 1] = line /\ \A i \in 1 .. n : more[i] = said[i]
  OBVIOUS
<1>2. line.kind = "result" =>
        /\ \E j \in 1 .. n : said[j].kind = "call" /\ said[j].about = line.about
        /\ \A j \in 1 .. n : said[j].kind = "result" => said[j].about # line.about
  BY <1>1 DEF AboutOf
<1> HIDE DEF more, n
<1>3. \A i \in DOMAIN more : more[i].kind \in {"text", "call", "ask"} => more[i].about = i
  BY <1>1 DEF SaidInOrder, n
<1>4. \A i \in DOMAIN more : more[i].kind = "result" =>
          \E j \in DOMAIN more : j < i /\ more[j].kind = "call" /\ more[j].about = more[i].about
  BY <1>1, <1>2 DEF SaidInOrder
<1>5. \A i, j \in DOMAIN more :
          more[i].kind = "result" /\ more[j].kind = "result" /\ more[i].about = more[j].about => i = j
  BY <1>1, <1>2 DEF SaidInOrder
<1>6. \A i \in DOMAIN more : more[i].kind \in Ends => i = Len(more)
  BY <1>1
<1>7. QED
  BY <1>3, <1>4, <1>5, <1>6 DEF SaidInOrder, more

\* What was handled was said, and what is handled next was said after it.
LEMMA NextIs ==
    ASSUME NEW said \in Seq(Line), SaidInOrder(said), NEW h \in Seq(Line), NEW x \in Line,
           NEW r \in Seq(Line), said = Linked(Append(h, x), r)
    PROVE  NextLine(h, x) /\ \A i \in DOMAIN h : h[i].kind \notin Ends
<1> DEFINE p == Append(h, x)
           n == Len(h)
<1>1. /\ n \in Nat /\ p \in Seq(Line) /\ Len(p) = n + 1 /\ DOMAIN h = 1 .. n
      /\ p[n + 1] = x /\ \A i \in 1 .. n : p[i] = h[i]
  OBVIOUS
<1> HIDE DEF p
<1>2. Len(r) \in Nat /\ Len(p \o r) = Len(p) + Len(r)
  <2>1. p \in Seq(Line)
    BY <1>1
  <2>2. Len(r) \in Nat
    OBVIOUS
  <2>3. Len(p \o r) = Len(p) + Len(r)
    BY <2>1, ConcatProperties
  <2>4. QED
    BY <2>2, <2>3
<1>12. \A i \in 1 .. Len(p) + Len(r) :
          (p \o r)[i] = IF i <= Len(p) THEN p[i] ELSE r[i - Len(p)]
  BY <1>1, ConcatProperties
<1>3. said = p \o r
  BY DEF Linked, p
<1>4. Len(said) \in Nat /\ DOMAIN said = 1 .. Len(said) /\ Len(said) >= n + 1
  BY <1>1, <1>2, <1>3
<1>5. \A i \in 1 .. n : said[i] = h[i]
  BY <1>1, <1>2, <1>3, <1>12
<1>6. said[n + 1] = x
  BY <1>1, <1>2, <1>3, <1>12
<1> HIDE <1>2, <1>3, <1>12
<1> HIDE DEF n
<1>7. \A i \in 1 .. n : h[i].kind \in {"text", "call"} => h[i].about = i
  BY <1>1, <1>4, <1>5 DEF SaidInOrder
<1>8. x.kind \in {"text", "call"} => x.about = n + 1
  BY <1>1, <1>4, <1>6 DEF SaidInOrder
<1>9. ASSUME x.kind = "result"
      PROVE  x.about \in AboutOf(h, "call") /\ x.about \notin AboutOf(h, "result")
  <2>1. n + 1 \in DOMAIN said
    BY <1>1, <1>4
  <2>2. PICK j \in DOMAIN said : j < n + 1 /\ said[j].kind = "call" /\ said[j].about = x.about
    BY <1>6, <1>9, <2>1 DEF SaidInOrder
  <2>3. j \in 1 .. n /\ h[j].kind = "call" /\ h[j].about = x.about
    BY <1>1, <1>4, <1>5, <2>2
  <2>4. ASSUME NEW i \in 1 .. n, h[i].kind = "result", h[i].about = x.about
        PROVE  FALSE
    <3>1. i \in DOMAIN said /\ said[i].kind = "result" /\ said[i].about = x.about
      BY <1>1, <1>4, <1>5, <2>4
    <3>2. i = n + 1
      BY <1>6, <1>9, <2>1, <3>1 DEF SaidInOrder
    <3>3. QED
      BY <1>1, <3>2
  <2>5. QED
    BY <1>1, <2>3, <2>4 DEF AboutOf
<1>10. \A i \in 1 .. n : h[i].kind \notin Ends
  BY <1>1, <1>4, <1>5 DEF SaidInOrder
<1>11. QED
  BY <1>1, <1>7, <1>8, <1>9, <1>10 DEF NextLine, n

\* The types, one by one.
LEMMA PhoneTypes ==
    AndroidTypeOK <=>
        /\ conns \in [Dialled -> Connections] /\ heard \in [Dialled -> SUBSET Nat]
        /\ spoken \in [Dialled -> Histories] /\ screen \in Screens
        /\ client \in Dialled \cup {0} /\ crossed \in BOOLEAN /\ ids \in RequestIds
        /\ jobs \subseteq Jobs
  BY DEF AndroidTypeOK, Connections, Histories, Screens, RequestIds, Jobs, Whats

\* A screen with another phase, other blocks or other dialogs.
LEMMA ScreenWith ==
    ASSUME NEW s \in Screens
    PROVE  /\ s.phase \in Phases
           /\ s.blocks \in Seq(Shape) /\ s.dialogs \in SUBSET Nat
           /\ \A p \in Phases :
                 /\ [s EXCEPT !.phase = p] \in Screens
                 /\ [s EXCEPT !.phase = p].blocks = s.blocks
                 /\ [s EXCEPT !.phase = p].dialogs = s.dialogs
           /\ \A b \in Seq(Shape) :
                 /\ [s EXCEPT !.blocks = b] \in Screens /\ [s EXCEPT !.blocks = b].blocks = b
                 /\ [s EXCEPT !.blocks = b].dialogs = s.dialogs
           /\ \A d \in SUBSET Nat :
                 /\ [s EXCEPT !.dialogs = d] \in Screens /\ [s EXCEPT !.dialogs = d].dialogs = d
                 /\ [s EXCEPT !.dialogs = d].blocks = s.blocks
  BY DEF Screens, Phases

\* A request that is launched is one.
LEMMA JobIs ==
    ASSUME NEW c \in Dialled, conns \in [Dialled -> Connections], NEW what \in Whats,
           NEW about \in Nat
    PROVE  Job(c, what, about) \in Jobs
  BY DEF Job, Jobs, Connections

\* So is one that was sent.
LEMMA JobSent ==
    ASSUME NEW j \in Jobs
    PROVE  /\ [j EXCEPT !.at = "sent"] \in Jobs
           /\ j.conn \in Dialled /\ j.about \in Nat /\ j.id \in Nat /\ j.what \in Whats
  BY DEF Jobs

\* Ids one of which is changed.
LEMMA IdsWith ==
    ASSUME NEW i \in RequestIds, NEW n \in Nat
    PROVE  /\ [i EXCEPT !.init = n] \in RequestIds /\ [i EXCEPT !.replay = n] \in RequestIds
           /\ [i EXCEPT !.prompt = n] \in RequestIds
           /\ \A what \in {"init", "replay", "prompt"} : [i EXCEPT ![what] = n] \in RequestIds
  BY DEF RequestIds

\* Where a connection is that has been answered.
Live == {"open", "closing", "ended"}

\* Of every connection: its lines are where they belong, and were said in order.
FeedInv ==
    \A c \in Dialled :
        /\ Feeds(conns[c].at, conns[c].inbox, conns[c].buffer, conns[c].wire,
                 spoken[c].said, spoken[c].handled)
        /\ SaidInOrder(spoken[c].said)

\* The connections are used one after another.
DialledTo(cs, n) == n \in 0 .. MaxDialled /\ \A c \in Dialled : cs[c].at = "unused" <=> c > n
\* And the client is of one that has been answered.
DialInv == DialledTo(conns, AndroidLast) /\ (client # 0 => conns[client].at \in Live)

\* The screen shows what was handled of the last of them.
ScreenInv ==
    ~crossed /\ AndroidLast # 0 /\ conns[AndroidLast].at # "failed" =>
        /\ ShowsAll(screen.blocks, spoken[AndroidLast].handled)
        /\ DialogsFit(screen.dialogs, spoken[AndroidLast].handled)

\* What every step keeps.
PhoneInv == AndroidTypeOK /\ FeedInv /\ DialInv /\ ScreenInv

\* The last connection is the one up to which they are used.
LEMMA LastIs ==
    ASSUME conns' \in [Dialled -> Connections], NEW n, DialledTo(conns', n)
    PROVE  AndroidLast' = n /\ DialledTo(conns', AndroidLast')
<1>1. \A c \in Dialled : (conns')[c].at = "unused" <=> c > n
  BY DEF DialledTo
<1>2. n \in 0 .. MaxDialled
  BY DEF DialledTo
<1>3. Cardinality({c \in Dialled : (conns')[c].at # "unused"}) = n
  BY <1>1, <1>2, UsedAre
<1>4. AndroidLast' = n
  BY <1>3 DEF AndroidLast, Dialled
<1>5. QED
  BY <1>4

\* It stays the last as long as no other is used.
LEMMA LastStays ==
    ASSUME conns' \in [Dialled -> Connections], DialInv,
           \A c \in Dialled : conns'[c].at = "unused" <=> conns[c].at = "unused"
    PROVE  AndroidLast' = AndroidLast /\ DialledTo(conns', AndroidLast')
<1>1. DialledTo(conns', AndroidLast)
  BY DEF DialInv, DialledTo
<1>2. QED
  BY <1>1, LastIs

\* One connection in use moves on, or its agent has more to say: all lines are where they
\* belong, and the last connection is what it was.
LEMMA OneMoves ==
    ASSUME FeedInv, DialInv, NEW c \in Dialled, NEW stage, NEW wire, NEW buf, NEW inbox,
           Moved(conns, conns', c, stage, wire, buf, inbox), stage # "unused", conns[c].at # "unused",
           \A d \in Dialled \ {c} : spoken'[d] = spoken[d],
           Feeds(stage, inbox, buf, wire, spoken'[c].said, spoken'[c].handled),
           SaidInOrder(spoken'[c].said)
    PROVE  FeedInv' /\ AndroidLast' = AndroidLast /\ DialledTo(conns', AndroidLast')
<1>1. FeedInv'
  <2>1. ASSUME NEW d \in Dialled
        PROVE  /\ Feeds(conns'[d].at, conns'[d].inbox, conns'[d].buffer, conns'[d].wire,
                        spoken'[d].said, spoken'[d].handled)
               /\ SaidInOrder(spoken'[d].said)
    <3>1. CASE d = c
      BY <3>1 DEF Moved
    <3>2. CASE d # c
      BY <3>2 DEF Moved, Same, FeedInv
    <3>3. QED
      BY <3>1, <3>2
  <2>2. QED
    BY <2>1 DEF FeedInv
<1>2. \A d \in Dialled : conns'[d].at = "unused" <=> conns[d].at = "unused"
  BY DEF Moved, Same
<1>3. conns' \in [Dialled -> Connections]
  BY DEF Moved
<1>4. QED
  BY <1>1, <1>2, <1>3, LastStays

\* Blocks show what they show.
LEMMA SameIsShown == ASSUME NEW blocks PROVE SameShown(blocks, blocks)
  BY DEF SameShown

\* What is handled stays on the screen.
LEMMA StillShown ==
    ASSUME ScreenInv, DialInv, AndroidLast' = AndroidLast, crossed' = crossed,
           \A c \in Dialled : spoken'[c].handled = spoken[c].handled,
           \A c \in Dialled : conns[c].at = "failed" => conns'[c].at = "failed",
           SameShown(screen.blocks, screen'.blocks), screen'.dialogs \subseteq screen.dialogs
    PROVE  ScreenInv'
<1> DEFINE n == AndroidLast
<1> SUFFICES ASSUME ~crossed', n # 0, conns'[n].at # "failed"
             PROVE  /\ ShowsAll(screen'.blocks, spoken'[n].handled)
                    /\ DialogsFit(screen'.dialogs, spoken'[n].handled)
  BY DEF ScreenInv
<1>1. n \in Dialled
  BY AndroidAssumption DEF DialInv, DialledTo, Dialled
<1> HIDE DEF n
<1>2. ~crossed /\ conns[n].at # "failed" /\ spoken'[n].handled = spoken[n].handled
  BY <1>1
<1>3. /\ ShowsAll(screen.blocks, spoken[n].handled)
      /\ DialogsFit(screen.dialogs, spoken[n].handled)
  BY <1>2 DEF ScreenInv, n
<1>4. ShowsAll(screen'.blocks, spoken[n].handled)
  BY <1>3, SameShows
<1>5. DialogsFit(screen'.dialogs, spoken[n].handled)
  BY <1>3 DEF DialogsFit
<1>6. QED
  BY <1>2, <1>4, <1>5

\* Nothing of the connections changes, and the screen goes on showing what it did.
LEMMA NothingMoves ==
    ASSUME PhoneInv, UNCHANGED <<conns, spoken, crossed>>,
           client' = client, AndroidTypeOK',
           SameShown(screen.blocks, screen'.blocks), screen'.dialogs \subseteq screen.dialogs
    PROVE  PhoneInv'
<1>1. FeedInv' /\ DialInv' /\ AndroidLast' = AndroidLast
  BY DEF PhoneInv, FeedInv, DialInv, AndroidLast, DialledTo
<1>2. ScreenInv'
  BY <1>1, StillShown DEF PhoneInv
<1>3. QED
  BY <1>1, <1>2 DEF PhoneInv

\* At first nobody has connected.
LEMMA PhoneStarts == AndroidInit => PhoneInv
<1> SUFFICES ASSUME AndroidInit
             PROVE  PhoneInv
  OBVIOUS
<1>1. /\ conns \in [Dialled -> Connections] /\ \A c \in Dialled : conns[c] = Unused
      /\ spoken \in [Dialled -> Histories]
      /\ \A c \in Dialled : spoken[c].said = <<>> /\ spoken[c].handled = <<>>
  BY DEF AndroidInit, Unused, Connections, Ats, Histories
<1>2. AndroidTypeOK
  <2>1. screen \in Screens /\ ids \in RequestIds
    BY DEF AndroidInit, Screens, Phases, RequestIds
  <2>2. QED
    BY <1>1, <2>1, PhoneTypes DEF AndroidInit
<1>3. \A c \in Dialled : /\ conns[c].at = "unused" /\ conns[c].wire = <<>>
                         /\ conns[c].buffer = <<>> /\ conns[c].inbox = <<>>
  BY <1>1 DEF Unused
<1>4. SaidInOrder(<<>>)
  BY DEF SaidInOrder
<1>5. FeedInv
  BY <1>1, <1>3, <1>4 DEF FeedInv, Feeds
<1>6. AndroidLast = 0 /\ DialInv
  <2>1. {c \in Dialled : conns[c].at # "unused"} = {}
    BY <1>3
  <2>2. AndroidLast = 0
    BY <2>1, FS_EmptySet DEF AndroidLast
  <2>3. client = 0 /\ \A c \in Dialled : c > 0
    BY DEF AndroidInit, Dialled
  <2>4. QED
    BY <1>3, <2>2, <2>3, AndroidAssumption DEF DialInv, DialledTo
<1>7. QED
  BY <1>2, <1>5, <1>6 DEF PhoneInv, ScreenInv

\* What disconnect does to the connection of the client.
LEMMA ClosingMoves ==
    ASSUME PhoneInv
    PROVE  /\ client = 0 => Closing(client) = conns
           /\ client # 0 => /\ client \in Dialled /\ conns[client].at \in Live
                            /\ Moved(conns, Closing(client), client, "closing", conns[client].wire,
                                     conns[client].buffer, conns[client].inbox)
<1>1. conns \in [Dialled -> Connections] /\ client \in Dialled \cup {0}
  BY PhoneTypes DEF PhoneInv
<1>2. ASSUME client # 0
      PROVE  Moved(conns, Closing(client), client, "closing", conns[client].wire,
                   conns[client].buffer, conns[client].inbox)
  <2>1. client \in Dialled /\ "closing" \in Ats
    BY <1>1, <1>2 DEF Ats
  <2>2. Closing(client) = [conns EXCEPT ![client].at = "closing"]
    BY <1>2 DEF Closing
  <2>3. Moved(conns, [conns EXCEPT ![client].at = "closing"], client, "closing",
              conns[client].wire, conns[client].buffer, conns[client].inbox)
    BY <1>1, <2>1, AtMoved
  <2>4. QED
    BY <2>2, <2>3
<1>3. QED
  BY <1>1, <1>2 DEF PhoneInv, DialInv, Closing

\* It goes on being read.
LEMMA ClosingFeeds ==
    ASSUME NEW stage \in Live, NEW a, NEW b, NEW w, NEW s, NEW h, Feeds(stage, a, b, w, s, h)
    PROVE  Feeds("closing", a, b, w, s, h)
  BY DEF Feeds, Live

\* The user disconnects: the agent may go on speaking, and what it says is shown.
LEMMA DisconnectsKeeps == PhoneInv /\ PhoneDisconnects => PhoneInv'
<1> SUFFICES ASSUME PhoneInv, PhoneDisconnects
             PROVE  PhoneInv'
  OBVIOUS
<1>1. client' = 0 /\ conns' = Closing(client) /\ UNCHANGED <<heard, spoken, ids, jobs, crossed>>
  BY DEF PhoneDisconnects
<1>2. screen \in Screens /\ conns \in [Dialled -> Connections]
  BY PhoneTypes DEF PhoneInv
<1>3. screen' \in Screens /\ screen'.blocks = screen.blocks /\ screen'.dialogs \subseteq screen.dialogs
  <2>1. CASE screen.phase = "Failed"
    BY <1>2, <2>1 DEF PhoneDisconnects
  <2>2. CASE screen.phase # "Failed"
    <3> DEFINE closed == [screen EXCEPT !.phase = "Disconnected"]
    <3>1. screen' = [closed EXCEPT !.dialogs = {}]
      BY <2>2 DEF PhoneDisconnects, Shows
    <3>2. closed \in Screens /\ closed.blocks = screen.blocks
      BY <1>2, ScreenWith DEF Phases
    <3> HIDE DEF closed
    <3>3. {} \in SUBSET Nat
      OBVIOUS
    <3>4. /\ [closed EXCEPT !.dialogs = {}] \in Screens
          /\ [closed EXCEPT !.dialogs = {}].blocks = closed.blocks
          /\ [closed EXCEPT !.dialogs = {}].dialogs = {}
      BY <3>2, <3>3, ScreenWith
    <3>5. QED
      BY <3>1, <3>2, <3>4
  <2>3. QED
    BY <2>1, <2>2
<1>4. CASE client = 0
  <2>1. conns' = conns
    BY <1>1, <1>4, ClosingMoves
  <2>2. AndroidTypeOK'
    BY <1>1, <1>3, <2>1, PhoneTypes DEF PhoneInv, AndroidTypeOK, Screens
  <2>3. QED
    BY <1>1, <1>3, <1>4, <2>1, <2>2, SameIsShown, NothingMoves
<1>5. CASE client # 0
  <2>1. /\ client \in Dialled /\ conns[client].at \in Live
        /\ Moved(conns, conns', client, "closing", conns[client].wire,
                 conns[client].buffer, conns[client].inbox)
    BY <1>1, <1>5, ClosingMoves
  <2>2. Feeds("closing", conns[client].inbox, conns[client].buffer, conns[client].wire,
              spoken[client].said, spoken[client].handled)
    BY <2>1, ClosingFeeds DEF PhoneInv, FeedInv
  <2>3. conns[client].at # "unused" /\ SaidInOrder(spoken[client].said)
    BY <2>1 DEF Live, PhoneInv, FeedInv
  <2>4. FeedInv' /\ AndroidLast' = AndroidLast /\ DialledTo(conns', AndroidLast')
    BY <1>1, <2>1, <2>2, <2>3, OneMoves DEF PhoneInv
  <2>5. DialInv'
    BY <1>1, <2>4 DEF DialInv
  <2>6. AndroidTypeOK'
    BY <1>1, <1>3, <2>1 DEF PhoneInv, AndroidTypeOK, Screens, Connections, Moved
  <2>7. \A c \in Dialled : conns[c].at = "failed" => conns'[c].at = "failed"
    BY <2>1 DEF Moved, Same, Live
  <2>8. ScreenInv'
    BY <1>1, <1>3, <2>4, <2>7, SameIsShown, StillShown DEF PhoneInv
  <2>9. QED
    BY <2>4, <2>5, <2>6, <2>8 DEF PhoneInv
<1>6. QED
  BY <1>4, <1>5

\* The user connects: the screen is empty, and so is all that was said.
LEMMA ConnectsKeeps == PhoneInv /\ PhoneConnects => PhoneInv'
<1> SUFFICES ASSUME PhoneInv, PhoneConnects
             PROVE  PhoneInv'
  OBVIOUS
<1> DEFINE n == AndroidLast + 1
           mid == Closing(client)
<1>1. /\ client' = 0 /\ conns' = [mid EXCEPT ![n].at = "dialing"]
      /\ screen' = [phase |-> "Connecting", blocks |-> <<>>, dialogs |-> {}]
      /\ UNCHANGED <<heard, spoken, ids, jobs, crossed>>
  BY DEF PhoneConnects
<1>2. /\ AndroidLast \in Nat /\ n \in 0 .. MaxDialled /\ n \in Dialled
      /\ \A c \in Dialled : conns[c].at = "unused" <=> c > AndroidLast
  BY AndroidAssumption DEF PhoneConnects, PhoneInv, DialInv, DialledTo, Dialled
<1>3. conns \in [Dialled -> Connections] /\ \A c \in Dialled : conns[c] \in Connections
  BY PhoneTypes DEF PhoneInv
<1>4. /\ mid \in [Dialled -> Connections]
      /\ \A c \in Dialled : \/ Same(conns, mid, c)
                            \/ /\ conns[c].at \in Live /\ mid[c].at = "closing"
                               /\ mid[c].wire = conns[c].wire /\ mid[c].buffer = conns[c].buffer
                               /\ mid[c].inbox = conns[c].inbox
  BY <1>3, ClosingMoves DEF Moved, Same
<1> HIDE DEF mid, n
<1>5. \A c \in Dialled :
          /\ Feeds(mid[c].at, mid[c].inbox, mid[c].buffer, mid[c].wire,
                   spoken[c].said, spoken[c].handled)
          /\ mid[c].at = "unused" <=> conns[c].at = "unused"
  BY <1>4, ClosingFeeds DEF Same, Live, PhoneInv, FeedInv
<1>6. conns[n].at = "unused" /\ mid[n].at = "unused"
  BY <1>2, <1>5 DEF n
<1>7. Moved(mid, conns', n, "dialing", mid[n].wire, mid[n].buffer, mid[n].inbox)
  <2>1. "dialing" \in Ats
    BY DEF Ats
  <2>2. Moved(mid, [mid EXCEPT ![n].at = "dialing"], n, "dialing", mid[n].wire, mid[n].buffer,
              mid[n].inbox)
    BY <1>2, <1>4, <2>1, AtMoved
  <2>3. QED
    BY <1>1, <2>2
<1>8. /\ mid[n].wire = <<>> /\ mid[n].buffer = <<>> /\ mid[n].inbox = <<>>
      /\ spoken[n].said = <<>> /\ spoken[n].handled = <<>>
  BY <1>2, <1>5, <1>6 DEF Feeds
<1>9. FeedInv'
  <2>1. ASSUME NEW d \in Dialled
        PROVE  /\ Feeds(conns'[d].at, conns'[d].inbox, conns'[d].buffer, conns'[d].wire,
                        spoken'[d].said, spoken'[d].handled)
               /\ SaidInOrder(spoken'[d].said)
    <3>1. SaidInOrder(spoken[d].said) /\ spoken' = spoken
      BY <1>1 DEF PhoneInv, FeedInv
    <3>2. CASE d = n
      BY <1>7, <1>8, <3>1, <3>2 DEF Moved, Feeds
    <3>3. CASE d # n
      BY <1>5, <1>7, <3>1, <3>3 DEF Moved, Same
    <3>4. QED
      BY <3>2, <3>3
  <2>2. QED
    BY <2>1 DEF FeedInv
<1>10. conns' \in [Dialled -> Connections]
  BY <1>7 DEF Moved
<1>11. AndroidLast' = n /\ DialledTo(conns', AndroidLast')
  <2>1. DialledTo(conns', n)
    <3>1. ASSUME NEW d \in Dialled
          PROVE  conns'[d].at = "unused" <=> d > n
      <4>1. CASE d = n
        BY <1>2, <1>7, <4>1 DEF Moved, n
      <4>2. CASE d # n
        <5>1. conns'[d].at = mid[d].at /\ (mid[d].at = "unused" <=> d > AndroidLast)
          BY <1>2, <1>5, <1>7, <4>2 DEF Moved, Same
        <5>2. d \in Int /\ (d > AndroidLast <=> d > n)
          BY <1>2, <4>2 DEF n, Dialled
        <5>3. QED
          BY <5>1, <5>2
      <4>3. QED
        BY <4>1, <4>2
    <3>2. QED
      BY <1>2, <3>1 DEF DialledTo
  <2>2. QED
    BY <1>10, <2>1, LastIs
<1>12. DialInv'
  BY <1>1, <1>11 DEF DialInv
<1>13. AndroidTypeOK'
  <2>1. screen' \in Screens
    BY <1>1 DEF Screens, Phases
  <2>2. QED
    BY <1>1, <1>10, <2>1 DEF PhoneInv, AndroidTypeOK, Screens, Connections
<1>14. ScreenInv'
  <2>1. spoken'[AndroidLast'].handled = <<>> /\ screen'.blocks = <<>> /\ screen'.dialogs = {}
    BY <1>1, <1>8, <1>11
  <2>2. QED
    BY <2>1, NothingShows DEF ScreenInv
<1>15. QED
  BY <1>9, <1>12, <1>13, <1>14 DEF PhoneInv

\* A connection in use goes on: to where, and with which lines, is all that changes.
LEMMA GoesOn ==
    ASSUME PhoneInv, NEW c \in Dialled, NEW stage, NEW wire, NEW buf, NEW inbox,
           Moved(conns, conns', c, stage, wire, buf, inbox), stage # "unused", conns[c].at # "unused",
           conns[c].at = "failed" => stage = "failed",
           UNCHANGED <<heard, spoken, ids, crossed>>,
           client' \in Dialled \cup {0}, client' # 0 => conns'[client'].at \in Live,
           jobs' \subseteq Jobs, screen' \in Screens, screen'.blocks = screen.blocks,
           screen'.dialogs = screen.dialogs,
           Feeds(stage, inbox, buf, wire, spoken[c].said, spoken[c].handled)
    PROVE  PhoneInv'
<1>1. FeedInv' /\ AndroidLast' = AndroidLast /\ DialledTo(conns', AndroidLast')
  <2>1. SaidInOrder(spoken[c].said)
    BY DEF PhoneInv, FeedInv
  <2>2. spoken' = spoken
    OBVIOUS
  <2>3. QED
    BY <2>1, <2>2, OneMoves DEF PhoneInv
<1>2. DialInv'
  BY <1>1 DEF DialInv
<1>3. conns' \in [Dialled -> Connections]
  BY DEF Moved
<1>4. AndroidTypeOK'
  BY <1>3 DEF PhoneInv, AndroidTypeOK, Screens, Connections, Jobs, Whats
<1>5. \A d \in Dialled : conns[d].at = "failed" => conns'[d].at = "failed"
  BY DEF Moved, Same
<1>6. SameShown(screen.blocks, screen'.blocks) /\ screen'.dialogs \subseteq screen.dialogs
  BY SameIsShown
<1>7. ScreenInv'
  BY <1>1, <1>5, <1>6, StillShown DEF PhoneInv
<1>8. QED
  BY <1>1, <1>2, <1>4, <1>7 DEF PhoneInv

\* What the invariant says of one connection, and of all that is not the connections.
LEMMA PhoneOf ==
    ASSUME PhoneInv
    PROVE  /\ conns \in [Dialled -> Connections] /\ spoken \in [Dialled -> Histories]
           /\ screen \in Screens /\ client \in Dialled \cup {0} /\ jobs \subseteq Jobs
           /\ ids \in RequestIds /\ heard \in [Dialled -> SUBSET Nat]
           /\ client # 0 => conns[client].at \in Live
           /\ \A c \in Dialled :
                 /\ conns[c].at \in Ats /\ conns[c].next \in Nat
                 /\ conns[c].wire \in Seq(Line) /\ conns[c].buffer \in Seq(Line)
                 /\ conns[c].inbox \in Seq(Line)
                 /\ spoken[c].said \in Seq(Line) /\ spoken[c].handled \in Seq(Line)
                 /\ Feeds(conns[c].at, conns[c].inbox, conns[c].buffer, conns[c].wire,
                          spoken[c].said, spoken[c].handled)
                 /\ SaidInOrder(spoken[c].said)
<1>1. /\ conns \in [Dialled -> Connections] /\ spoken \in [Dialled -> Histories]
      /\ screen \in Screens /\ client \in Dialled \cup {0} /\ jobs \subseteq Jobs
      /\ ids \in RequestIds /\ heard \in [Dialled -> SUBSET Nat]
  BY PhoneTypes DEF PhoneInv
<1>2. ASSUME NEW c \in Dialled
      PROVE  /\ conns[c].at \in Ats /\ conns[c].next \in Nat
             /\ conns[c].wire \in Seq(Line) /\ conns[c].buffer \in Seq(Line)
             /\ conns[c].inbox \in Seq(Line)
             /\ spoken[c].said \in Seq(Line) /\ spoken[c].handled \in Seq(Line)
  <2>1. conns[c] \in Connections
    BY <1>1
  <2>2. spoken[c].said \in Seq(Line) /\ spoken[c].handled \in Seq(Line)
    BY <1>1 DEF Histories
  <2>3. QED
    BY <2>1, <2>2, ConnTyped
<1>3. QED
  BY <1>1, <1>2 DEF PhoneInv, FeedInv, DialInv

\* A dial fails, of which nothing is shown again.
LEMMA DialFailsKeeps == ASSUME PhoneInv, NEW c \in Dialled, PhoneDialFails(c) PROVE PhoneInv'
<1>1. /\ conns[c].at = "dialing" /\ conns' = [conns EXCEPT ![c].at = "failed"]
      /\ screen' = [screen EXCEPT !.phase = "Failed"]
      /\ UNCHANGED <<heard, spoken, client, ids, jobs, crossed>>
  BY DEF PhoneDialFails, Shows
<1>2. Moved(conns, conns', c, "failed", conns[c].wire, conns[c].buffer, conns[c].inbox)
  BY <1>1, PhoneOf, AtMoved DEF Ats
<1>3. screen' \in Screens /\ screen'.blocks = screen.blocks /\ screen'.dialogs = screen.dialogs
  BY <1>1, PhoneOf, ScreenWith DEF Phases
<1>4. Feeds("failed", conns[c].inbox, conns[c].buffer, conns[c].wire,
            spoken[c].said, spoken[c].handled)
  BY DEF Feeds
<1>5. client' # 0 => conns'[client'].at \in Live
  BY <1>1, <1>2, PhoneOf DEF Moved, Same, Live
<1>6. QED
  BY <1>1, <1>2, <1>3, <1>4, <1>5, PhoneOf, GoesOn

\* The daemon answers.
LEMMA AcksKeeps == ASSUME PhoneInv, NEW c \in Dialled, Acks(c) PROVE PhoneInv'
<1> DEFINE w == <<Said("ack", 0)>>
<1>1. /\ conns[c].at = "dialing" /\ conns[c].wire = <<>> /\ conns[c].buffer = <<>>
      /\ conns' = [conns EXCEPT ![c].wire = w]
      /\ UNCHANGED <<heard, spoken, screen, client, ids, jobs, crossed>>
  BY DEF Acks
<1>2. w \in Seq(Line)
  BY AckIsALine
<1>3. Feeds("dialing", conns[c].inbox, conns[c].buffer, w, spoken[c].said, spoken[c].handled)
  BY <1>1, PhoneOf, FeedAcks
<1> HIDE DEF w
<1>4. Moved(conns, conns', c, "dialing", w, conns[c].buffer, conns[c].inbox)
  BY <1>1, <1>2, PhoneOf, WireMoved
<1>5. client' # 0 => conns'[client'].at \in Live
  BY <1>1, <1>4, PhoneOf DEF Moved, Same, Live
<1>6. QED
  BY <1>1, <1>3, <1>4, <1>5, PhoneOf, GoesOn

\* The reader takes in what has come.
LEMMA FillsKeeps ==
    ASSUME PhoneInv, NEW c \in Dialled, NEW n \in 1 .. Len(conns[c].wire), Fill(c, n)
    PROVE  PhoneInv'
<1> DEFINE w == SubSeq(conns[c].wire, n + 1, Len(conns[c].wire))
           b == Linked(conns[c].buffer, SubSeq(conns[c].wire, 1, n))
<1>1. /\ conns' = [conns EXCEPT ![c].buffer = @ \o SubSeq(conns[c].wire, 1, n),
                                ![c].wire = SubSeq(@, n + 1, Len(@))]
      /\ UNCHANGED <<heard, spoken, screen, client, ids, jobs, crossed>>
  BY DEF Fill
<1>2. Moved(conns, conns', c, conns[c].at, w, b, conns[c].inbox)
  BY <1>1, PhoneOf, FillMoves
<1>3. Feeds(conns[c].at, conns[c].inbox, b, w, spoken[c].said, spoken[c].handled)
  BY PhoneOf, FeedFills
<1> HIDE DEF w, b
<1>4. conns[c].at # "unused"
  <2>1. conns[c].wire # <<>>
    BY PhoneOf
  <2>2. QED
    BY <2>1, PhoneOf DEF Feeds
<1>5. client' # 0 => conns'[client'].at \in Live
  BY <1>1, <1>2, PhoneOf DEF Moved, Same
<1>6. QED
  BY <1>1, <1>2, <1>3, <1>4, <1>5, PhoneOf, GoesOn

\* The frame is read, and the stream begins with whatever came along with it.
LEMMA ReadsKeeps == ASSUME PhoneInv, NEW c \in Dialled, ReadAck(c) PROVE PhoneInv'
<1> DEFINE b == Tail(conns[c].buffer)
<1>1. /\ conns[c].at = "dialing" /\ conns[c].buffer # <<>>
      /\ conns' = [conns EXCEPT ![c].at = "open", ![c].buffer = Tail(@), ![c].next = @ + 1]
      /\ client' = c /\ jobs' = jobs \cup {Job(c, "init", 0)}
      /\ UNCHANGED <<heard, spoken, screen, ids, crossed>>
  BY DEF ReadAck, StreamBegins
<1>2. Moved(conns, conns', c, "open", conns[c].wire, b, conns[c].inbox)
  BY <1>1, PhoneOf, StreamMoves
<1>3. Feeds("open", conns[c].inbox, b, conns[c].wire, spoken[c].said, spoken[c].handled)
  BY <1>1, PhoneOf, FeedReads
<1> HIDE DEF b
<1>4. jobs' \subseteq Jobs
  BY <1>1, PhoneOf, JobIs DEF Whats
<1>5. client' \in Dialled \cup {0} /\ conns'[client'].at \in Live
  BY <1>1, <1>2 DEF Moved, Live
<1>6. QED
  BY <1>1, <1>2, <1>3, <1>4, <1>5, PhoneOf, GoesOn

\* A line is read.
LEMMA TakesKeeps == ASSUME PhoneInv, NEW c \in Dialled, TakesLine(c) PROVE PhoneInv'
<1> DEFINE line == Head(conns[c].buffer)
           b == Tail(conns[c].buffer)
           stage == IF line.kind \in Ends THEN "ended" ELSE conns[c].at
<1>1. /\ conns[c].at \in {"open", "closing"} /\ conns[c].buffer # <<>>
      /\ UNCHANGED <<heard, spoken, screen, client, ids, jobs, crossed>>
  BY DEF TakesLine
<1>2. line \in Line /\ b \in Seq(Line)
  BY <1>1, PhoneOf, FirstAndRest
<1>3. stage \in {"open", "closing", "ended"}
  BY <1>1
<1>4. conns' = [conns EXCEPT ![c].buffer = b, ![c].inbox = Append(@, line), ![c].at = stage]
  BY DEF TakesLine
<1>5. Feeds(stage, Append(conns[c].inbox, line), b, conns[c].wire, spoken[c].said, spoken[c].handled)
  BY <1>1, <1>3, PhoneOf, FeedTakes
<1> HIDE DEF line, b, stage
<1>6. Moved(conns, conns', c, stage, conns[c].wire, b, Append(conns[c].inbox, line))
  <2>1. stage \in Ats
    BY <1>3 DEF Ats
  <2>2. conns \in [Dialled -> Connections]
    BY PhoneOf
  <2>3. Moved(conns, [conns EXCEPT ![c].buffer = b, ![c].inbox = Append(@, line), ![c].at = stage],
              c, stage, conns[c].wire, b, Append(conns[c].inbox, line))
    BY <1>2, <2>1, <2>2, LineMoves
  <2>4. QED
    BY <1>4, <2>3, Zenon
<1>7. client' # 0 => conns'[client'].at \in Live
  BY <1>1, <1>3, <1>6, PhoneOf DEF Moved, Same, Live
<1>8. QED
  BY <1>1, <1>3, <1>5, <1>6, <1>7, PhoneOf, GoesOn

\* A request takes an id.
LEMMA LaunchedMoves ==
    ASSUME NEW cs \in [Dialled -> Connections], NEW c \in Dialled
    PROVE  Moved(cs, Launched(cs, c), c, cs[c].at, cs[c].wire, cs[c].buffer, cs[c].inbox)
<1>1. cs[c].next + 1 \in Nat
  BY ConnTyped
<1>2. Launched(cs, c) = [cs EXCEPT ![c].next = cs[c].next + 1]
  BY DEF Launched
<1>3. QED
  BY <1>1, <1>2, NextMoved

\* A request is launched.
LEMMA LaunchesKeeps ==
    ASSUME PhoneInv, NEW what \in Whats, NEW about \in Nat, Launches(what, about)
    PROVE  PhoneInv'
<1>1. /\ client # 0 /\ jobs' = jobs \cup {Job(client, what, about)}
      /\ conns' = Launched(conns, client)
      /\ UNCHANGED <<heard, spoken, screen, client, ids, crossed>>
  BY DEF Launches
<1>2. client \in Dialled /\ conns[client].at \in Live
  BY <1>1, PhoneOf
<1>3. Moved(conns, conns', client, conns[client].at, conns[client].wire, conns[client].buffer,
            conns[client].inbox)
  BY <1>1, <1>2, PhoneOf, LaunchedMoves
<1>4. jobs' \subseteq Jobs
  BY <1>1, <1>2, PhoneOf, JobIs
<1>5. conns'[client'].at \in Live /\ conns[client].at # "unused"
  BY <1>1, <1>2, <1>3 DEF Moved, Live
<1>6. QED
  BY <1>1, <1>2, <1>3, <1>4, <1>5, PhoneOf, GoesOn

\* The user sends, stops or answers.
LEMMA AsksKeep == PhoneInv /\ (SendText \/ CancelTurn \/ AnswersDialog) => PhoneInv'
<1>1. ASSUME PhoneInv, SendText
      PROVE  PhoneInv'
  <2>1. CASE screen.phase = "Ready"
    BY <1>1, <2>1, LaunchesKeeps DEF SendText, Whats
  <2>2. CASE screen.phase # "Ready"
    BY <1>1, <2>2, LaunchesKeeps DEF SendText, Whats
  <2>3. QED
    BY <2>1, <2>2
<1>2. ASSUME PhoneInv, CancelTurn
      PROVE  PhoneInv'
  BY <1>2, LaunchesKeeps DEF CancelTurn, Whats
<1>3. ASSUME PhoneInv, AnswersDialog
      PROVE  PhoneInv'
  <2>1. PICK ask \in screen.dialogs : Launches("answer", ask)
    BY <1>3 DEF AnswersDialog
  <2>2. ask \in Nat
    BY <1>3, <2>1, PhoneOf, ScreenWith
  <2>3. QED
    BY <1>3, <2>1, <2>2, LaunchesKeeps DEF Whats
<1>4. QED
  BY <1>1, <1>2, <1>3

\* A request is sent.
LEMMA SentKeeps == ASSUME PhoneInv, NEW j \in jobs, Sent(j) PROVE PhoneInv'
<1>1. /\ jobs' = (jobs \ {j}) \cup {[j EXCEPT !.at = "sent"]}
      /\ heard' = [heard EXCEPT ![j.conn] =
                     IF j.what \in {"answer", "refuse"} THEN @ ELSE @ \cup {j.id}]
      /\ UNCHANGED <<conns, spoken, screen, client, ids, crossed>>
  BY DEF Sent
<1>2. j \in Jobs
  BY PhoneOf
<1>3. jobs' \subseteq Jobs
  BY <1>1, <1>2, PhoneOf, JobSent
<1>4. heard' \in [Dialled -> SUBSET Nat]
  <2>1. j.conn \in Dialled /\ j.id \in Nat
    BY <1>2, JobSent
  <2>2. QED
    BY <1>1, <2>1, PhoneOf
<1>5. AndroidTypeOK'
  BY <1>1, <1>3, <1>4 DEF PhoneInv, AndroidTypeOK, Jobs, Whats
<1>6. QED
  BY <1>1, <1>5, SameIsShown, NothingMoves

\* Its coroutine goes on: a dialog closes, and the block of its request is marked.
LEMMA ResumedKeeps == ASSUME PhoneInv, NEW j \in jobs, Resumed(j) PROVE PhoneInv'
<1>1. /\ jobs' = jobs \ {j}
      /\ ids' = IF j.what \in {"init", "replay", "prompt"} THEN [ids EXCEPT ![j.what] = j.id]
                ELSE ids
      /\ UNCHANGED <<conns, heard, spoken, client, crossed>>
  BY DEF Resumed
<1>2. j \in Jobs /\ j.about \in Nat /\ j.id \in Nat /\ screen \in Screens
  BY PhoneOf, JobSent
<1>3. ids' \in RequestIds
  BY <1>1, <1>2, PhoneOf, IdsWith
<1>4. /\ screen' \in Screens /\ SameShown(screen.blocks, screen'.blocks)
      /\ screen'.dialogs \subseteq screen.dialogs
  <2>1. CASE j.what = "prompt"
    <3>1. screen' = [screen EXCEPT !.phase = "Running"]
      BY <2>1 DEF Resumed, Shows
    <3>2. QED
      BY <1>2, <3>1, ScreenWith, SameIsShown DEF Phases
  <2>2. CASE j.what = "answer"
    <3> DEFINE more == Adds(screen.blocks, Said("answered", j.about))
               fewer == screen.dialogs \ {j.about}
    <3>1. screen' = [screen EXCEPT !.blocks = more, !.dialogs = fewer]
      BY <2>2 DEF Resumed
    <3>2. screen.blocks \in Seq(Shape) /\ screen.dialogs \in SUBSET Nat
      BY <1>2, ScreenWith
    <3>3. Said("answered", j.about) \in Line /\ Said("answered", j.about).kind = "answered"
      BY <1>2 DEF Said, Line
    <3>4. more \in Seq(Shape) /\ SameShown(screen.blocks, more)
      BY <3>2, <3>3, AddsNothing
    <3>5. fewer \in SUBSET Nat /\ fewer \subseteq screen.dialogs
      BY <3>2
    <3> HIDE DEF more, fewer
    <3>6. screen' \in Screens /\ screen'.blocks = more /\ screen'.dialogs = fewer
      BY <1>2, <3>1, <3>4, <3>5 DEF Screens
    <3>7. QED
      BY <3>4, <3>5, <3>6
  <2>3. CASE j.what \notin {"prompt", "answer"}
    <3>1. screen' = screen
      BY <2>3 DEF Resumed
    <3>2. QED
      BY <1>2, <3>1, SameIsShown
  <2>4. QED
    BY <2>1, <2>2, <2>3
<1>5. jobs' \subseteq Jobs
  BY <1>1, PhoneOf
<1>6. AndroidTypeOK'
  BY <1>1, <1>3, <1>4, <1>5 DEF PhoneInv, AndroidTypeOK, Screens, RequestIds, Jobs, Whats
<1>7. QED
  BY <1>1, <1>4, <1>6, NothingMoves

\* A request cannot be sent: initialize says so, anything else ends the app.
LEMMA FailsKeeps == ASSUME PhoneInv, NEW j \in jobs, SendFails(j) PROVE PhoneInv'
<1>1. UNCHANGED <<heard, spoken, crossed>>
  BY DEF SendFails
<1>2. CASE j.what = "init"
  <2>1. /\ jobs' = jobs \ {j} /\ screen' = [screen EXCEPT !.phase = "Failed"]
        /\ UNCHANGED <<conns, client, ids>>
    BY <1>2 DEF SendFails, Shows
  <2>2. /\ screen' \in Screens /\ SameShown(screen.blocks, screen'.blocks)
        /\ screen'.dialogs \subseteq screen.dialogs
    BY <2>1, PhoneOf, ScreenWith, SameIsShown DEF Phases
  <2>3. jobs' \subseteq Jobs
    BY <2>1, PhoneOf
  <2>4. AndroidTypeOK'
    BY <1>1, <2>1, <2>2, <2>3 DEF PhoneInv, AndroidTypeOK, Screens, Jobs, Whats
  <2>5. QED
    BY <1>1, <2>1, <2>2, <2>4, NothingMoves
<1>3. CASE j.what # "init"
  <2>1. /\ jobs' = {} /\ client' = 0 /\ ids' = [init |-> 0, replay |-> 0, prompt |-> 0]
        /\ screen' = [phase |-> "Disconnected", blocks |-> <<>>, dialogs |-> {}]
        /\ conns' = [c \in Dialled |-> IF conns[c].at = "unused" THEN Unused
                                       ELSE [Unused EXCEPT !.at = "failed"]]
    BY <1>3 DEF SendFails
  <2>2. /\ Unused \in Connections /\ [Unused EXCEPT !.at = "failed"] \in Connections
        /\ Unused.at = "unused" /\ [Unused EXCEPT !.at = "failed"].at = "failed"
        /\ Unused.wire = <<>> /\ Unused.buffer = <<>> /\ Unused.inbox = <<>>
    <3>1. /\ "unused" \in Ats /\ "failed" \in Ats /\ <<>> \in Seq(Line) /\ 1 \in Nat
      BY DEF Ats
    <3>2. Unused = Conn("unused", <<>>, <<>>, <<>>, 1)
      BY DEF Unused, Conn
    <3>3. Unused \in Connections
      BY <3>1, <3>2, ConnIs
    <3>4. Unused.wire = <<>> /\ Unused.buffer = <<>> /\ Unused.inbox = <<>> /\ Unused.next = 1
      BY DEF Unused
    <3>5. [Unused EXCEPT !.at = "failed"] = Conn("failed", <<>>, <<>>, <<>>, 1)
      BY <3>3, <3>4, ConnWith
    <3>6. /\ Conn("failed", <<>>, <<>>, <<>>, 1) \in Connections
          /\ Conn("failed", <<>>, <<>>, <<>>, 1).at = "failed"
      <4> DEFINE none == <<>>
      <4>1. none \in Seq(Line)
        BY <3>1
      <4> HIDE DEF none
      <4>2. /\ Conn("failed", none, none, none, 1) \in Connections
            /\ Conn("failed", none, none, none, 1).at = "failed"
        BY <3>1, <4>1, ConnIs
      <4>3. QED
        BY <4>2 DEF none
    <3>7. QED
      BY <3>3, <3>4, <3>5, <3>6 DEF Unused
  <2>3. /\ conns' \in [Dialled -> Connections]
        /\ \A c \in Dialled :
              \/ /\ conns[c].at = "unused" /\ conns'[c].at = "unused" /\ conns'[c].wire = <<>>
                 /\ conns'[c].buffer = <<>> /\ conns'[c].inbox = <<>>
              \/ conns[c].at # "unused" /\ conns'[c].at = "failed"
    BY <2>1, <2>2
  <2> HIDE <2>2
  <2>4. AndroidLast' = AndroidLast /\ DialledTo(conns', AndroidLast')
    BY <2>3, LastStays DEF PhoneInv
  <2>5. DialInv'
    BY <2>1, <2>4 DEF DialInv
  <2>6. FeedInv'
    BY <1>1, <2>3 DEF PhoneInv, FeedInv, Feeds
  <2>7. AndroidTypeOK'
    <3>1. screen' \in Screens /\ ids' \in RequestIds
      BY <2>1 DEF Screens, Phases, RequestIds
    <3>2. QED
      BY <1>1, <2>1, <2>3, <3>1 DEF PhoneInv, AndroidTypeOK, Screens, RequestIds, Connections
  <2>8. ScreenInv'
    <3>1. AndroidLast # 0 => AndroidLast \in Dialled /\ conns[AndroidLast].at # "unused"
      BY AndroidAssumption DEF PhoneInv, DialInv, DialledTo, Dialled
    <3>2. AndroidLast' # 0 => conns'[AndroidLast'].at = "failed"
      BY <2>3, <2>4, <3>1
    <3>3. QED
      BY <3>2 DEF ScreenInv
  <2>9. QED
    BY <2>5, <2>6, <2>7, <2>8 DEF PhoneInv
<1>4. QED
  BY <1>2, <1>3

\* The types after a step, one by one.
LEMMA TypesNext ==
    ASSUME conns' \in [Dialled -> Connections], heard' \in [Dialled -> SUBSET Nat],
           spoken' \in [Dialled -> Histories], screen' \in Screens,
           client' \in Dialled \cup {0}, crossed' \in BOOLEAN, ids' \in RequestIds, jobs' \subseteq Jobs
    PROVE  AndroidTypeOK'
  BY DEF AndroidTypeOK, Connections, Histories, Screens, RequestIds, Jobs, Whats

\* A history in which more is said,
LEMMA HistorySaid ==
    ASSUME NEW hs \in [Dialled -> Histories], NEW c \in Dialled, NEW more \in Seq(Line)
    PROVE  /\ [hs EXCEPT ![c].said = more] \in [Dialled -> Histories]
           /\ [hs EXCEPT ![c].said = more][c].said = more
           /\ [hs EXCEPT ![c].said = more][c].handled = hs[c].handled
           /\ \A d \in Dialled \ {c} : [hs EXCEPT ![c].said = more][d] = hs[d]
  BY DEF Histories

\* and one in which more is handled.
LEMMA HistoryHandled ==
    ASSUME NEW hs \in [Dialled -> Histories], NEW c \in Dialled, NEW more \in Seq(Line)
    PROVE  /\ [hs EXCEPT ![c].handled = more] \in [Dialled -> Histories]
           /\ [hs EXCEPT ![c].handled = more][c].handled = more
           /\ [hs EXCEPT ![c].handled = more][c].said = hs[c].said
           /\ \A d \in Dialled \ {c} : [hs EXCEPT ![c].handled = more][d] = hs[d]
  BY DEF Histories

\* What was said of a kind.
LEMMA SaidAbout ==
    ASSUME NEW c \in Dialled, spoken[c].said \in Seq(Line), NEW kind
    PROVE  SaidSoFar(c, kind) = AboutOf(spoken[c].said, kind)
  BY DEF SaidSoFar, AboutOf, ToSet

\* The agent says a line, and what it says is in order.
LEMMA SpeaksKeeps == ASSUME PhoneInv, NEW c \in Dialled, Speaks(c) PROVE PhoneInv'
<1> DEFINE said == spoken[c].said
           h == spoken[c].handled
           n == Len(said)
<1>1. /\ \/ conns[c].at \in {"open", "closing"}
         \/ conns[c].at = "dialing" /\ conns[c].wire \o conns[c].buffer # <<>>
      /\ \A line \in ToSet(said) : line.kind \notin Ends
      /\ UNCHANGED <<screen, client, ids, jobs, crossed>>
  BY DEF Speaks
<1>2. PICK line \in MaySay(c) :
           /\ spoken' = [spoken EXCEPT ![c].said = Append(@, line)]
           /\ conns' = [conns EXCEPT ![c].wire = Append(@, line)]
           /\ heard' = [heard EXCEPT ![c] =
                           IF line.kind \in {"response", "refusal"} THEN @ \ {line.about} ELSE @]
  BY DEF Speaks
<1>3. /\ said \in Seq(Line) /\ h \in Seq(Line) /\ n \in Nat /\ DOMAIN said = 1 .. n
      /\ heard[c] \in SUBSET Nat /\ SaidInOrder(said)
  BY PhoneOf
<1>4. \A kind : SaidSoFar(c, kind) = AboutOf(said, kind) /\ AboutOf(said, kind) \subseteq Nat
  <2>1. \A i \in DOMAIN said : said[i].about \in Nat
    <3>1. \A i \in DOMAIN said : said[i] \in Line
      BY <1>3
    <3>2. QED
      BY <3>1 DEF Line
  <2>2. QED
    BY <1>3, <2>1, SaidAbout DEF AboutOf
<1>5. /\ line \in Line
      /\ line.kind \in {"text", "call", "ask"} => line.about = n + 1
      /\ line.kind = "result" => /\ line.about \in AboutOf(said, "call")
                                 /\ line.about \notin AboutOf(said, "result")
  <2>7. /\ SaidSoFar(c, "call") = AboutOf(said, "call")
        /\ SaidSoFar(c, "result") = AboutOf(said, "result")
        /\ SaidSoFar(c, "ask") = AboutOf(said, "ask")
    BY <1>4
  <2>1. \/ \E kind \in {"begin", "end", "text", "call", "part", "ask", "tool", "junk",
                        "trailer", "eof"} : line = Said(kind, n + 1)
        \/ \E kind \in {"response", "refusal"}, id \in heard[c] : line = Said(kind, id)
        \/ \E k \in AboutOf(said, "call") \ AboutOf(said, "result") : line = Said("result", k)
        \/ \E k \in AboutOf(said, "ask") : line = Said("answered", k)
    <3>1. \/ \E kind \in {"begin", "end", "text", "call", "part", "ask", "tool", "junk",
                          "trailer", "eof"} : line = Said(kind, n + 1)
          \/ \E kind \in {"response", "refusal"}, id \in heard[c] : line = Said(kind, id)
          \/ \E k \in SaidSoFar(c, "call") \ SaidSoFar(c, "result") : line = Said("result", k)
          \/ \E k \in SaidSoFar(c, "ask") : line = Said("answered", k)
      <4> DEFINE K == {"begin", "end", "text", "call", "part", "ask", "tool", "junk"} \cup Ends
                 A == {Said(kind, n + 1) : kind \in K}
                 B == {Said("response", id) : id \in heard[c]}
                 C == {Said("refusal", id) : id \in heard[c]}
                 D == {Said("result", k) : k \in SaidSoFar(c, "call") \ SaidSoFar(c, "result")}
                 E == {Said("answered", k) : k \in SaidSoFar(c, "ask") \ SaidSoFar(c, "answered")}
      <4>1. K = {"begin", "end", "text", "call", "part", "ask", "tool", "junk", "trailer", "eof"}
        BY DEF Ends
      <4>2. MaySay(c) = A \cup B \cup C \cup D \cup E
        BY DEF MaySay
      <4> HIDE DEF A, B, C, D, E
      <4>3. line \in A \/ line \in B \/ line \in C \/ line \in D \/ line \in E
        BY <1>2, <4>2
      <4> HIDE DEF K, n, said
      <4>4. CASE line \in A
        BY <4>1, <4>4 DEF A
      <4>5. CASE line \in B \/ line \in C
        BY <4>5 DEF B, C
      <4>6. CASE line \in D \/ line \in E
        BY <4>6 DEF D, E
      <4>7. QED
        BY <4>3, <4>4, <4>5, <4>6
    <3> HIDE DEF said, n
    <3>2. QED
      BY <2>7, <3>1
  <2> HIDE DEF said, n
  <2>2. CASE \E kind \in {"begin", "end", "text", "call", "part", "ask", "tool", "junk",
                          "trailer", "eof"} : line = Said(kind, n + 1)
    BY <1>3, <2>2 DEF Said, Line, Ends
  <2>3. CASE \E kind \in {"response", "refusal"}, id \in heard[c] : line = Said(kind, id)
    BY <1>3, <2>3 DEF Said, Line, Ends
  <2>4. CASE \E k \in AboutOf(said, "call") \ AboutOf(said, "result") : line = Said("result", k)
    BY <1>4, <2>4 DEF Said, Line, Ends
  <2>5. CASE \E k \in AboutOf(said, "ask") : line = Said("answered", k)
    BY <1>4, <2>5 DEF Said, Line, Ends
  <2>6. QED
    BY <2>1, <2>2, <2>3, <2>4, <2>5
<1>6. \A i \in DOMAIN said : said[i].kind \notin Ends
  BY <1>1, <1>3 DEF ToSet
<1>7. SaidInOrder(Append(said, line)) /\ Append(said, line) \in Seq(Line)
  BY <1>3, <1>5, <1>6, SaidMore
<1>8. /\ spoken' \in [Dialled -> Histories] /\ spoken'[c].said = Append(said, line)
      /\ spoken'[c].handled = h /\ \A d \in Dialled \ {c} : spoken'[d] = spoken[d]
  <2> DEFINE more == Append(said, line)
  <2>1. spoken' = [spoken EXCEPT ![c].said = more]
    BY <1>2
  <2>2. more \in Seq(Line)
    BY <1>7
  <2> HIDE DEF more
  <2>3. QED
    <3> HIDE DEF said, h
    <3>1. spoken \in [Dialled -> Histories] /\ h = spoken[c].handled
      BY PhoneOf DEF h
    <3>2. /\ [spoken EXCEPT ![c].said = more] \in [Dialled -> Histories]
          /\ [spoken EXCEPT ![c].said = more][c].said = more
          /\ [spoken EXCEPT ![c].said = more][c].handled = spoken[c].handled
          /\ \A d \in Dialled \ {c} : [spoken EXCEPT ![c].said = more][d] = spoken[d]
      <4>1. ASSUME NEW hs \in [Dialled -> Histories], NEW m \in Seq(Line)
            PROVE  /\ [hs EXCEPT ![c].said = m] \in [Dialled -> Histories]
                   /\ [hs EXCEPT ![c].said = m][c].said = m
                   /\ [hs EXCEPT ![c].said = m][c].handled = hs[c].handled
                   /\ \A d \in Dialled \ {c} : [hs EXCEPT ![c].said = m][d] = hs[d]
        BY HistorySaid
      <4>2. QED
        BY <2>2, <3>1, <4>1, Zenon
    <3>3. QED
      BY <2>1, <3>1, <3>2 DEF more
<1>9. heard' \in [Dialled -> SUBSET Nat]
  BY <1>2, PhoneOf
<1>10. /\ conns[c].at \in {"dialing", "open", "closing"}
       /\ conns[c].at = "dialing" => conns[c].wire # <<>> \/ conns[c].buffer # <<>>
  <2>1. <<>> \o <<>> = <<>>
    OBVIOUS
  <2>2. QED
    BY <1>1, <2>1
<1>11. Moved(conns, conns', c, conns[c].at, Append(conns[c].wire, line), conns[c].buffer,
             conns[c].inbox)
  <2> DEFINE w == Append(conns[c].wire, line)
  <2>1. w \in Seq(Line) /\ conns' = [conns EXCEPT ![c].wire = w]
    BY <1>2, <1>5, PhoneOf
  <2> HIDE DEF w
  <2>2. Moved(conns, [conns EXCEPT ![c].wire = w], c, conns[c].at, w, conns[c].buffer,
              conns[c].inbox)
    <3>1. conns \in [Dialled -> Connections]
      BY PhoneOf
    <3>2. QED
      BY <2>1, <3>1, WireMoved
  <2>4. QED
    BY <2>1, <2>2, Zenon DEF w
<1>12. Feeds(conns[c].at, conns[c].inbox, conns[c].buffer, Append(conns[c].wire, line),
             Append(said, line), h)
  BY <1>3, <1>5, <1>10, PhoneOf, FeedSays
<1> HIDE DEF said, h, n
<1>13. FeedInv' /\ AndroidLast' = AndroidLast /\ DialledTo(conns', AndroidLast')
  <2>1. Feeds(conns[c].at, conns[c].inbox, conns[c].buffer, Append(conns[c].wire, line),
              spoken'[c].said, spoken'[c].handled)
    BY <1>8, <1>12, Zenon
  <2>2. SaidInOrder(spoken'[c].said)
    BY <1>7, <1>8, Zenon
  <2>3. conns[c].at # "unused" /\ FeedInv /\ DialInv
    BY <1>10 DEF PhoneInv
  <2>4. QED
    BY <1>8, <1>11, <2>1, <2>2, <2>3, OneMoves
<1>14. client' # 0 => conns'[client'].at \in Live
  BY <1>1, <1>11, PhoneOf DEF Moved, Same
<1>15. DialInv'
  BY <1>13, <1>14 DEF DialInv
<1>16. conns' \in [Dialled -> Connections]
  BY <1>11 DEF Moved
<1>17. AndroidTypeOK'
  <2>1. /\ screen' \in Screens /\ client' \in Dialled \cup {0} /\ ids' \in RequestIds
        /\ jobs' \subseteq Jobs
    BY <1>1, PhoneOf
  <2>2. crossed' \in BOOLEAN
    BY <1>1 DEF PhoneInv, AndroidTypeOK
  <2>3. spoken' \in [Dialled -> Histories]
    BY <1>8
  <2>4. QED
    BY <1>9, <1>16, <2>1, <2>2, <2>3, TypesNext
<1>18. \A d \in Dialled : spoken'[d].handled = spoken[d].handled
  BY <1>8 DEF h
<1>19. \A d \in Dialled : conns[d].at = "failed" => conns'[d].at = "failed"
  BY <1>11 DEF Moved, Same
<1>20. ScreenInv'
  BY <1>1, <1>13, <1>18, <1>19, SameIsShown, StillShown DEF PhoneInv
<1>21. QED
  BY <1>13, <1>15, <1>17, <1>20 DEF PhoneInv

\* What handling a line does to the connections, apart from the ids of requests.
LEMMA PopMoves ==
    ASSUME PhoneInv, NEW c \in Dialled, conns[c].inbox # <<>>,
           \/ conns' = Popped(c)
           \/ client # 0 /\ conns' = Launched(Popped(c), client)
    PROVE  Moved(conns, conns', c, conns[c].at, conns[c].wire, conns[c].buffer, Tail(conns[c].inbox))
<1> DEFINE a == Tail(conns[c].inbox)
           mid == Popped(c)
<1>1. a \in Seq(Line) /\ conns \in [Dialled -> Connections] /\ client \in Dialled \cup {0}
  BY PhoneOf
<1>2. mid = [conns EXCEPT ![c].inbox = a]
  BY DEF Popped
<1> HIDE DEF mid, a
<1>3. Moved(conns, mid, c, conns[c].at, conns[c].wire, conns[c].buffer, a)
  BY <1>1, <1>2, InboxMoved
<1>4. mid \in [Dialled -> Connections]
  BY <1>3 DEF Moved
<1>5. CASE conns' = mid
  BY <1>3, <1>5 DEF a
<1>6. CASE client # 0 /\ conns' = Launched(mid, client)
  <2>1. Moved(mid, conns', client, mid[client].at, mid[client].wire, mid[client].buffer,
              mid[client].inbox)
    BY <1>1, <1>4, <1>6, LaunchedMoves
  <2>2. Moved(mid, conns', c, mid[c].at, mid[c].wire, mid[c].buffer, mid[c].inbox)
    BY <2>1 DEF Moved, Same
  <2>3. Moved(mid, conns', c, conns[c].at, conns[c].wire, conns[c].buffer, a)
    BY <1>3, <2>2 DEF Moved
  <2>4. Moved(conns, conns', c, conns[c].at, conns[c].wire, conns[c].buffer, a)
    BY <1>3, <2>3, MovedOn
  <2>5. QED
    BY <2>4 DEF a
<1>7. QED
  BY <1>5, <1>6 DEF mid

\* What it does to the screen.
Handled(line) ==
    /\ screen' \in Screens
    /\ \/ screen'.blocks = Adds(screen.blocks, line)
       \/ line.kind \notin {"text", "call", "result"} /\ SameShown(screen.blocks, screen'.blocks)
    /\ \/ screen'.dialogs \subseteq screen.dialogs
       \/ line.kind = "ask" /\ screen'.dialogs \subseteq screen.dialogs \cup {line.about}
    /\ line.kind \in Ends => screen'.dialogs = {}

\* What it does to what is neither.
PhoneGoes(c) ==
    /\ \/ conns' = Popped(c)
       \/ client # 0 /\ conns' = Launched(Popped(c), client)
    /\ ids' \in RequestIds /\ jobs' \subseteq Jobs

\* A line of which at most the phase tells leaves all else on the screen.
LEMMA PhaseHandled ==
    ASSUME screen \in Screens, NEW line, line.kind \notin {"text", "call", "result"} \cup Ends,
           \/ screen' = screen
           \/ \E p \in Phases :
                 screen' = Shows(p)
    PROVE  Handled(line)
<1>1. /\ screen' \in Screens /\ screen'.blocks = screen.blocks
      /\ screen'.dialogs = screen.dialogs
  <2>1. CASE screen' = screen
    BY <2>1
  <2>2. CASE screen' # screen
    <3>1. PICK p \in Phases :
             screen' = [screen EXCEPT !.phase = p]
      BY <2>2 DEF Shows
    <3>2. QED
      BY <3>1, ScreenWith
  <2>3. QED
    BY <2>1, <2>2
<1>2. SameShown(screen.blocks, screen'.blocks)
  BY <1>1, SameIsShown
<1>3. QED
  BY <1>1, <1>2 DEF Handled

\* A response or a refusal,
LEMMA ResponseHandled ==
    ASSUME PhoneInv, NEW c \in Dialled, NEW line \in Line, line.kind \in {"response", "refusal"},
           HandleResponse(c, line)
    PROVE  Handled(line) /\ PhoneGoes(c)
<1>1. /\ screen \in Screens /\ ids \in RequestIds /\ jobs \subseteq Jobs /\ client \in Dialled \cup {0}
      /\ conns \in [Dialled -> Connections]
      /\ line.kind \notin {"text", "call", "result"} \cup Ends
  BY PhoneOf DEF Ends
<1>2. CASE line.about = ids.init
  <2>1. ids' = [ids EXCEPT !.init = 0] /\ ids' \in RequestIds
    BY <1>1, <1>2, IdsWith DEF HandleResponse
  <2>2. CASE line.kind = "refusal"
    <3>1. screen' = Shows("Failed") /\ conns' = Popped(c) /\ jobs' = jobs
      BY <1>2, <2>2 DEF HandleResponse
    <3>2. QED
      BY <1>1, <2>1, <3>1, PhaseHandled DEF PhoneGoes, Phases
  <2>3. CASE line.kind # "refusal" /\ client = 0
    <3>1. conns' = Popped(c) /\ screen' = screen /\ jobs' = jobs
      BY <1>2, <2>3 DEF HandleResponse
    <3>2. QED
      BY <1>1, <2>1, <3>1, PhaseHandled DEF PhoneGoes, Phases
  <2>4. CASE line.kind # "refusal" /\ client # 0
    <3>1. /\ screen' = Shows("Replaying") /\ jobs' = jobs \cup {Job(client, "replay", 0)}
          /\ conns' = Launched(Popped(c), client)
      BY <1>2, <2>4 DEF HandleResponse
    <3>2. Job(client, "replay", 0) \in Jobs
      BY <1>1, <2>4, JobIs DEF Whats
    <3>3. Handled(line)
      BY <1>1, <3>1, PhaseHandled DEF Phases
    <3>4. QED
      BY <1>1, <2>1, <2>4, <3>1, <3>2, <3>3 DEF PhoneGoes
  <2>5. QED
    BY <2>2, <2>3, <2>4
<1>3. CASE line.about # ids.init /\ line.about = ids.replay
  <2>1. /\ ids' = [ids EXCEPT !.replay = 0] /\ conns' = Popped(c) /\ jobs' = jobs
        /\ screen' = Shows("Failed") \/ screen' = Shows("Ready")
    BY <1>3 DEF HandleResponse
  <2>2. ids' \in RequestIds
    BY <1>1, <2>1, IdsWith
  <2>3. Handled(line)
    BY <1>1, <2>1, PhaseHandled DEF Phases
  <2>4. QED
    BY <1>1, <2>1, <2>2, <2>3 DEF PhoneGoes
<1>4. CASE line.about \notin {ids.init, ids.replay} /\ line.about = ids.prompt
  <2> DEFINE b == BlockOf("failed", 0, <<>>, FALSE)
             more == Append(screen.blocks, b)
  <2>1. /\ ids' = [ids EXCEPT !.prompt = 0] /\ conns' = Popped(c) /\ jobs' = jobs
        /\ screen' = IF line.kind = "response" THEN screen ELSE [screen EXCEPT !.blocks = more]
    BY <1>4 DEF HandleResponse
  <2>2. ids' \in RequestIds
    BY <1>1, <2>1, IdsWith
  <2>3. screen.blocks \in Seq(Shape)
    BY <1>1, ScreenWith
  <2>4. b \in Shape /\ b.kind \notin {"text", "call"}
    BY DEF BlockOf, Shape
  <2> HIDE DEF b
  <2>5. more \in Seq(Shape) /\ SameShown(screen.blocks, more)
    BY <2>3, <2>4, BlockMore
  <2> HIDE DEF more
  <2>6. Handled(line)
    <3>1. CASE line.kind = "response"
      BY <1>1, <2>1, <3>1, PhaseHandled
    <3>2. CASE line.kind # "response"
      <4>1. screen' \in Screens /\ screen'.blocks = more /\ screen'.dialogs = screen.dialogs
        BY <1>1, <2>1, <2>5, <3>2, ScreenWith
      <4>2. QED
        BY <1>1, <2>5, <4>1 DEF Handled
    <3>3. QED
      BY <3>1, <3>2
  <2>7. QED
    BY <1>1, <2>1, <2>2, <2>6 DEF PhoneGoes
<1>5. CASE line.about \notin {ids.init, ids.replay, ids.prompt}
  <2>1. conns' = Popped(c) /\ ids' = ids /\ screen' = screen /\ jobs' = jobs
    BY <1>5 DEF HandleResponse
  <2>2. Handled(line)
    BY <1>1, <2>1, PhaseHandled DEF Phases
  <2>3. QED
    BY <1>1, <2>1, <2>2 DEF PhoneGoes
<1>6. QED
  BY <1>2, <1>3, <1>4, <1>5

\* a request,
LEMMA RequestHandled ==
    ASSUME PhoneInv, NEW c \in Dialled, NEW line \in Line, line.kind \in {"ask", "tool"},
           HandleRequest(c, line)
    PROVE  Handled(line) /\ PhoneGoes(c)
<1>1. /\ screen \in Screens /\ ids \in RequestIds /\ jobs \subseteq Jobs /\ client \in Dialled \cup {0}
      /\ conns \in [Dialled -> Connections] /\ line.about \in Nat
      /\ line.kind \notin {"text", "call", "result"} \cup Ends
  BY PhoneOf DEF Ends, Line
<1>2. ids' = ids
  BY DEF HandleRequest
<1>3. CASE client = 0
  <2>1. conns' = Popped(c) /\ screen' = screen /\ jobs' = jobs
    BY <1>3 DEF HandleRequest
  <2>2. QED
    BY <1>1, <1>2, <2>1, PhaseHandled DEF PhoneGoes, Phases
<1>4. CASE client # 0 /\ line.kind = "ask"
  <2> DEFINE more == Adds(screen.blocks, line)
             dialogs == screen.dialogs \cup {line.about}
  <2>1. /\ screen' = [screen EXCEPT !.blocks = more, !.dialogs = dialogs]
        /\ conns' = Popped(c) /\ jobs' = jobs
    BY <1>4 DEF HandleRequest
  <2>2. screen.blocks \in Seq(Shape) /\ screen.dialogs \in SUBSET Nat
    BY <1>1, ScreenWith
  <2>3. more \in Seq(Shape) /\ dialogs \in SUBSET Nat
    BY <1>1, <2>2, AddsTyped
  <2> HIDE DEF more, dialogs
  <2>4. screen' \in Screens /\ screen'.blocks = more /\ screen'.dialogs = dialogs
    BY <1>1, <2>1, <2>3 DEF Screens
  <2>5. Handled(line)
    BY <1>1, <1>4, <2>4 DEF Handled, more, dialogs
  <2>6. QED
    BY <1>1, <1>2, <2>1, <2>5 DEF PhoneGoes
<1>5. CASE client # 0 /\ line.kind # "ask"
  <2>1. /\ jobs' = jobs \cup {Job(client, "refuse", line.about)}
        /\ conns' = Launched(Popped(c), client) /\ screen' = screen
    BY <1>5 DEF HandleRequest
  <2>2. Job(client, "refuse", line.about) \in Jobs
    BY <1>1, <1>5, JobIs DEF Whats
  <2>3. Handled(line)
    BY <1>1, <2>1, PhaseHandled DEF Phases
  <2>4. QED
    BY <1>1, <1>2, <1>5, <2>1, <2>2, <2>3 DEF PhoneGoes
<1>6. QED
  BY <1>3, <1>4, <1>5

\* the end,
LEMMA ExitHandled ==
    ASSUME PhoneInv, NEW c \in Dialled, NEW line \in Line, HandleExit(c, line)
    PROVE  Handled(line) /\ PhoneGoes(c)
<1> DEFINE more == Adds(screen.blocks, line)
<1>1. /\ screen' = [phase |-> "Failed", blocks |-> more, dialogs |-> {}]
      /\ conns' = Popped(c) /\ ids' = ids /\ jobs' = jobs
  BY DEF HandleExit
<1>2. screen.blocks \in Seq(Shape)
  BY PhoneOf, ScreenWith
<1>3. more \in Seq(Shape)
  BY <1>2, AddsTyped
<1> HIDE DEF more
<1>4. screen' \in Screens /\ screen'.blocks = more /\ screen'.dialogs = {}
  BY <1>1, <1>3 DEF Screens, Phases
<1>5. Handled(line)
  BY <1>4 DEF Handled, more
<1>6. QED
  BY <1>1, <1>5, PhoneOf DEF PhoneGoes

\* and an event of the session.
LEMMA EventHandled ==
    ASSUME PhoneInv, NEW c \in Dialled, NEW line \in Line, line.kind \notin Ends,
           HandleEvent(c, line)
    PROVE  Handled(line) /\ PhoneGoes(c)
<1> DEFINE more == Adds(screen.blocks, line)
           after == CASE line.kind = "begin" -> "Running"
                      [] line.kind = "end" -> "Ready" [] OTHER -> screen.phase
<1>1. /\ screen' = [screen EXCEPT !.blocks = more, !.phase = after]
      /\ conns' = Popped(c) /\ ids' = ids /\ jobs' = jobs
  BY DEF HandleEvent
<1>2. screen \in Screens /\ screen.blocks \in Seq(Shape)
  BY PhoneOf, ScreenWith
<1>3. more \in Seq(Shape)
  BY <1>2, AddsTyped
<1>4. after \in {"Running", "Ready", screen.phase}
  OBVIOUS
<1> HIDE DEF more, after
<1>5. screen' \in Screens /\ screen'.blocks = more /\ screen'.dialogs = screen.dialogs
  BY <1>1, <1>2, <1>3, <1>4 DEF Screens, Phases
<1>6. Handled(line)
  BY <1>5 DEF Handled, more
<1>7. QED
  BY <1>1, <1>6, PhoneOf DEF PhoneGoes

\* The same for whatever line is next.
LEMMA LineHandled ==
    ASSUME PhoneInv, NEW c \in Dialled, Handle(c)
    PROVE  Handled(Head(conns[c].inbox)) /\ PhoneGoes(c) /\ conns[c].inbox # <<>>
<1> DEFINE line == Head(conns[c].inbox)
<1>1. conns[c].inbox # <<>> /\ line \in Line
  BY PhoneOf DEF Handle
<1>2. CASE line.kind \in {"response", "refusal"}
  <2>1. HandleResponse(c, line)
    BY <1>2 DEF Handle, Ends
  <2>2. QED
    BY <1>1, <1>2, <2>1, ResponseHandled
<1>3. CASE line.kind \in {"ask", "tool"}
  <2>1. HandleRequest(c, line)
    BY <1>3 DEF Handle, Ends
  <2>2. QED
    BY <1>1, <1>3, <2>1, RequestHandled
<1>4. CASE line.kind \in Ends
  <2>1. HandleExit(c, line)
    BY <1>4 DEF Handle, Ends
  <2>2. QED
    BY <1>1, <2>1, ExitHandled
<1>5. CASE line.kind \notin {"response", "refusal", "ask", "tool"} \cup Ends
  <2>1. HandleEvent(c, line)
    BY <1>5 DEF Handle
  <2>2. QED
    BY <1>1, <1>5, <2>1, EventHandled
<1>6. QED
  BY <1>2, <1>3, <1>4, <1>5

\* The dialogs after a line more.
LEMMA DialogsMore ==
    ASSUME NEW h \in Seq(Line), NEW line \in Line, NEW dialogs, NEW more, DialogsFit(dialogs, h),
           \A i \in DOMAIN h : h[i].kind \notin Ends,
           \/ more \subseteq dialogs
           \/ line.kind = "ask" /\ more \subseteq dialogs \cup {line.about},
           line.kind \in Ends => more = {}
    PROVE  DialogsFit(more, Append(h, line))
<1> DEFINE n == Len(h)
           p == Append(h, line)
<1>1. /\ n \in Nat /\ DOMAIN h = 1 .. n /\ DOMAIN p = 1 .. n + 1
      /\ p[n + 1] = line /\ \A i \in 1 .. n : p[i] = h[i]
  OBVIOUS
<1>2. line = [kind |-> line.kind, about |-> line.about]
  BY DEF Line
<1> HIDE DEF n, p
<1>3. ASSUME NEW ask \in more
      PROVE  \E i \in DOMAIN p : p[i] = Said("ask", ask)
  <2>1. CASE ask \in dialogs
    <3>1. PICK i \in DOMAIN h : h[i] = Said("ask", ask)
      BY <2>1 DEF DialogsFit
    <3>2. i \in DOMAIN p /\ p[i] = h[i]
      BY <1>1, <3>1
    <3>3. QED
      BY <3>1, <3>2
  <2>2. CASE ask \notin dialogs
    <3>1. line.kind = "ask" /\ line.about = ask
      BY <1>3, <2>2
    <3>2. p[n + 1] = Said("ask", ask) /\ n + 1 \in DOMAIN p
      BY <1>1, <1>2, <3>1 DEF Said
    <3>3. QED
      BY <3>2
  <2>3. QED
    BY <2>1, <2>2
<1>4. (\E i \in DOMAIN p : p[i].kind \in Ends) => more = {}
  BY <1>1
<1>5. DialogsFit(more, p)
  BY <1>3, <1>4 DEF DialogsFit
<1>6. QED
  BY <1>5 DEF p

\* The next line of a connection is handled: of the last one it is the next of all it said,
\* which is shown; a line of another leaves what the screen should show open.
LEMMA HandleKeeps == ASSUME PhoneInv, NEW c \in Dialled, Handle(c) PROVE PhoneInv'
<1> DEFINE line == Head(conns[c].inbox)
           h == spoken[c].handled
           more == Append(h, line)
           a == Tail(conns[c].inbox)
           rest == Linked(Linked(a, conns[c].buffer), conns[c].wire)
<1>1. Handled(line) /\ PhoneGoes(c) /\ conns[c].inbox # <<>>
  BY LineHandled
<1>2. /\ spoken' = [spoken EXCEPT ![c].handled = more]
      /\ crossed' = (crossed \/ c # AndroidLast) /\ UNCHANGED <<heard, client>>
  BY DEF Handle
<1>3. line \in Line /\ h \in Seq(Line) /\ more \in Seq(Line) /\ a \in Seq(Line)
  BY <1>1, PhoneOf
<1>4. Moved(conns, conns', c, conns[c].at, conns[c].wire, conns[c].buffer, a)
  BY <1>1, PopMoves DEF PhoneGoes
<1>5. conns[c].at \in Live \cup {"failed"}
  BY <1>1, PhoneOf DEF Feeds, Ats, Live
<1>6. Feeds(conns[c].at, a, conns[c].buffer, conns[c].wire, spoken[c].said, more)
  BY <1>1, PhoneOf, FeedPops
<1>7. /\ spoken' \in [Dialled -> Histories] /\ spoken'[c].handled = more
      /\ spoken'[c].said = spoken[c].said /\ \A d \in Dialled \ {c} : spoken'[d] = spoken[d]
  <2> HIDE DEF more
  <2>1. ASSUME NEW hs \in [Dialled -> Histories], NEW m \in Seq(Line)
        PROVE  /\ [hs EXCEPT ![c].handled = m] \in [Dialled -> Histories]
               /\ [hs EXCEPT ![c].handled = m][c].handled = m
               /\ [hs EXCEPT ![c].handled = m][c].said = hs[c].said
               /\ \A d \in Dialled \ {c} : [hs EXCEPT ![c].handled = m][d] = hs[d]
    BY HistoryHandled
  <2>2. spoken \in [Dialled -> Histories]
    BY PhoneOf
  <2>3. QED
    BY <1>2, <1>3, <2>1, <2>2, Zenon
<1>8. conns[c].at \in Live => NextLine(h, line) /\ \A i \in DOMAIN h : h[i].kind \notin Ends
  <2>1. ASSUME conns[c].at \in Live
        PROVE  NextLine(h, line) /\ \A i \in DOMAIN h : h[i].kind \notin Ends
    <3>1. rest \in Seq(Line)
      <4>1. Linked(a, conns[c].buffer) \in Seq(Line)
        BY <1>3, PhoneOf, LinkedLines
      <4>2. QED
        BY <4>1, PhoneOf, LinkedLines
    <3>2. spoken[c].said = Linked(more, rest)
      BY <1>6, <2>1 DEF Feeds, Live
    <3>3. spoken[c].said \in Seq(Line) /\ SaidInOrder(spoken[c].said)
      BY PhoneOf
    <3> HIDE DEF rest, h, line
    <3>4. QED
      BY <1>3, <3>1, <3>2, <3>3, NextIs
  <2>2. QED
    BY <2>1
<1> HIDE DEF line, h, more, a
<1>9. FeedInv' /\ AndroidLast' = AndroidLast /\ DialledTo(conns', AndroidLast')
  <2>1. Feeds(conns[c].at, a, conns[c].buffer, conns[c].wire, spoken'[c].said, spoken'[c].handled)
    BY <1>6, <1>7
  <2>2. SaidInOrder(spoken'[c].said)
    BY <1>7, PhoneOf
  <2>3. conns[c].at # "unused" /\ FeedInv /\ DialInv
    BY <1>5 DEF PhoneInv, Live
  <2>4. QED
    BY <1>4, <1>7, <2>1, <2>2, <2>3, OneMoves
<1>10. \A d \in Dialled : conns'[d].at = conns[d].at
  BY <1>4 DEF Moved, Same
<1>11. DialInv'
  <2>1. client' # 0 => conns'[client'].at \in Live
    BY <1>2, <1>10, PhoneOf
  <2>2. QED
    BY <1>9, <2>1 DEF DialInv
<1>12. AndroidTypeOK'
  <2>1. conns' \in [Dialled -> Connections]
    BY <1>4 DEF Moved
  <2>2. screen' \in Screens /\ ids' \in RequestIds /\ jobs' \subseteq Jobs
    BY <1>1 DEF Handled, PhoneGoes
  <2>3. heard' \in [Dialled -> SUBSET Nat] /\ client' \in Dialled \cup {0}
    BY <1>2, PhoneOf
  <2>4. crossed' \in BOOLEAN
    BY <1>2
  <2>5. spoken' \in [Dialled -> Histories]
    BY <1>7
  <2>6. QED
    BY <2>1, <2>2, <2>3, <2>4, <2>5, TypesNext
<1>13. ScreenInv'
  <2>1. SUFFICES ASSUME ~crossed', AndroidLast' # 0, conns'[AndroidLast'].at # "failed"
                 PROVE  /\ ShowsAll(screen'.blocks, spoken'[AndroidLast'].handled)
                        /\ DialogsFit(screen'.dialogs, spoken'[AndroidLast'].handled)
    BY DEF ScreenInv
  <2>2. c = AndroidLast /\ ~crossed
    BY <1>2, <2>1
  <2>3. AndroidLast' = c /\ spoken'[c].handled = more /\ conns[c].at \in Live
    BY <1>5, <1>7, <1>9, <1>10, <2>1, <2>2
  <2>4. NextLine(h, line) /\ \A i \in DOMAIN h : h[i].kind \notin Ends
    BY <1>8, <2>3
  <2>5. ShowsAll(screen.blocks, h) /\ DialogsFit(screen.dialogs, h)
    <3>1. AndroidLast # 0 /\ conns[AndroidLast].at # "failed"
      BY <1>9, <1>10, <2>1, <2>2
    <3>2. QED
      BY <2>2, <3>1 DEF PhoneInv, ScreenInv, h
  <2>6. screen.blocks \in Seq(Shape)
    BY PhoneOf, ScreenWith
  <2>7. ShowsAll(screen'.blocks, more)
    <3>1. CASE screen'.blocks = Adds(screen.blocks, line)
      <4>1. ShowsAll(Adds(screen.blocks, line), Append(h, line))
        BY <1>3, <2>4, <2>5, <2>6, AddsShows
      <4>2. QED
        BY <3>1, <4>1 DEF more
    <3>2. CASE line.kind \notin {"text", "call", "result"} /\ SameShown(screen.blocks, screen'.blocks)
      <4>1. ShowsAll(screen'.blocks, h)
        BY <2>5, <3>2, SameShows
      <4>2. QED
        BY <1>3, <3>2, <4>1, OtherLine DEF more
    <3>3. QED
      BY <1>1, <3>1, <3>2 DEF Handled
  <2>8. DialogsFit(screen'.dialogs, more)
    BY <1>1, <1>3, <2>4, <2>5, DialogsMore DEF Handled, more
  <2>9. QED
    BY <2>3, <2>7, <2>8
<1>14. QED
  BY <1>9, <1>11, <1>12, <1>13 DEF PhoneInv

\* Nothing happens.
LEMMA StaysKeeps == PhoneInv /\ UNCHANGED androidVars => PhoneInv'
<1> SUFFICES ASSUME PhoneInv, UNCHANGED androidVars
             PROVE  PhoneInv'
  OBVIOUS
<1>1. UNCHANGED <<conns, heard, spoken, screen, client, ids, jobs, crossed>>
  BY DEF androidVars
<1>2. AndroidTypeOK'
  BY <1>1 DEF PhoneInv, AndroidTypeOK
<1>3. QED
  BY <1>1, <1>2, SameIsShown, NothingMoves

\* Whatever happens next.
LEMMA PhoneKeeps == PhoneInv /\ [AndroidNext]_androidVars => PhoneInv'
<1> SUFFICES ASSUME PhoneInv, [AndroidNext]_androidVars
             PROVE  PhoneInv'
  OBVIOUS
<1>1. CASE UNCHANGED androidVars
  BY <1>1, StaysKeeps
<1>2. CASE PhoneConnects \/ PhoneDisconnects
  BY <1>2, ConnectsKeeps, DisconnectsKeeps
<1>3. CASE SendText \/ CancelTurn \/ AnswersDialog
  BY <1>3, AsksKeep
<1>4. CASE \E c \in Dialled : PhoneDialFails(c) \/ Acks(c) \/ ReadAck(c) \/ TakesLine(c) \/ Handle(c)
  BY <1>4, DialFailsKeeps, AcksKeeps, ReadsKeeps, TakesKeeps, HandleKeeps
<1>5. CASE \E c \in Dialled : \E n \in 1..Len(conns[c].wire) : Fill(c, n)
  BY <1>5, FillsKeeps
<1>6. CASE \E c \in Dialled : Speaks(c)
  BY <1>6, SpeaksKeeps
<1>7. CASE \E j \in jobs : Sent(j) \/ Resumed(j) \/ SendFails(j)
  BY <1>7, SentKeeps, ResumedKeeps, FailsKeeps
<1>8. QED
  BY <1>1, <1>2, <1>3, <1>4, <1>5, <1>6, <1>7 DEF AndroidNext

\* What is kept is more than what is promised.
LEMMA PhoneShows == PhoneInv => AndroidShowsAll
<1> SUFFICES ASSUME PhoneInv, NEW c \in Dialled, conns[c].at \in Live
             PROVE  /\ spoken[c].said = spoken[c].handled \o Unheard(c)
                    /\ c = AndroidLast /\ ~crossed =>
                         /\ ShowsAll(screen.blocks, spoken[c].handled)
                         /\ DialogsFit(screen.dialogs, spoken[c].handled)
  BY DEF AndroidShowsAll, Live
<1>1. spoken[c].said = Linked(spoken[c].handled, Linked(Linked(conns[c].inbox, conns[c].buffer),
                                                        conns[c].wire))
  BY PhoneOf DEF Feeds, Live
<1>2. spoken[c].said = spoken[c].handled \o Unheard(c)
  BY <1>1 DEF Linked, Unheard
<1>3. c # 0 /\ conns[c].at # "failed"
  BY DEF Dialled, Live
<1>4. QED
  BY <1>2, <1>3 DEF PhoneInv, ScreenInv

(* SessionViewModel.kt:38-70, WireClient.kt:40-50: for any number of connections, lines and
   requests the phone's state keeps its types. *)
THEOREM PhoneTypeCorrect == PhoneSpec => []AndroidTypeOK
<1>1. PhoneInv => AndroidTypeOK
  BY DEF PhoneInv
<1>2. QED
  BY <1>1, PhoneStarts, PhoneKeeps, PTL DEF PhoneSpec

(* WireClient.kt:163-164, SessionViewModel.kt:177-300, session/Transcript.kt:44-118: for any
   number of connections, lines and requests, however they are read and whatever the user
   does meanwhile: what an agent has said since the daemon's frame has been handled or is on
   its way, each line once and in order, and what was handled is on the screen. *)
THEOREM PhoneShowsAll == PhoneSpec => []AndroidShowsAll
  BY PhoneStarts, PhoneKeeps, PhoneShows, PTL DEF PhoneSpec
=================================================================================
