------------------------------- MODULE LoopProof -------------------------------
(***************************************************************************)
(* What AgentLoop keeps, for any number of turns, of steps, of tokens and  *)
(* of spoilt lines: the file says what the memory says, a rewind lands on  *)
(* its checkpoint, and the model is asked with no call without a result    *)
(* and no result without a call.                                           *)
(*                                                                         *)
(* What is rewound is read back from the file, so the invariant is about   *)
(* the file: with what is owed to it (Story), every checkpoint in it that  *)
(* can be reached is numbered by what stands before it, all earlier ones   *)
(* are there, and what stands before it is a conversation in which calls   *)
(* and results come in pairs (Good).                                       *)
(***************************************************************************)
EXTENDS AgentLoop, SequenceTheorems, WellFoundedInduction, TLAPS

---------------------------------------------------------------------------------
(* Sequences, and what a file says. *)

\* A set of naturals that is not empty has a least member.
LEMMA LeastOf ==
    ASSUME NEW S \in SUBSET Nat, S # {}
    PROVE  \E m \in S : \A k \in S : m <= k
<1> DEFINE R == OpToRel(<, Nat)
<1>1. IsWellFoundedOn(R, Nat)
  BY NatLessThanWellFounded
<1>2. R = {ss \in Nat \X Nat : ss[1] < ss[2]}
  BY Zenon DEF OpToRel
<1> HIDE DEF R
<1>3. PICK m \in S : \A k \in S : ~(<<k, m>> \in R)
  BY <1>1, WFMin
<1>4. ASSUME NEW k \in S PROVE m <= k
  <2>1. ~(k < m)
    BY <1>2, <1>3
  <2>2. QED
    BY <2>1
<1>5. QED
  BY <1>4

\* One of those up to a bound, a greatest.
LEMMA GreatestOf ==
    ASSUME NEW n \in Nat, NEW S \in SUBSET (0 .. n), S # {}
    PROVE  \E m \in S : \A k \in S : m >= k
<1> DEFINE T == {n - i : i \in S}
<1>1. T \in SUBSET Nat /\ T # {}
  OBVIOUS
<1>2. PICK t \in T : \A k \in T : t <= k
  <2> HIDE DEF T
  <2>1. QED
    BY <1>1, LeastOf
<1>3. PICK m \in S : t = n - m
  OBVIOUS
<1>4. ASSUME NEW k \in S PROVE m >= k
  <2>1. n - k \in T
    OBVIOUS
  <2>2. n - m <= n - k
    BY <1>2, <1>3, <2>1
  <2>3. QED
    BY <2>2
<1>5. QED
  BY <1>4

\* What is true of 0, and of the next of each for which it is true, is true of all.
LEMMA UpTo ==
    ASSUME NEW n \in Nat, NEW S \in SUBSET (0 .. n), 0 \in S,
           \A i \in 0 .. n - 1 : i \in S => i + 1 \in S
    PROVE  S = 0 .. n
<1> DEFINE T == (0 .. n) \ S
<1> SUFFICES ASSUME T # {} PROVE FALSE
  OBVIOUS
<1>1. PICK m \in T : \A k \in T : m <= k
  <2>1. T \in SUBSET Nat
    OBVIOUS
  <2> HIDE DEF T
  <2>2. QED
    BY <2>1, LeastOf
<1>2. m - 1 \in 0 .. n - 1 /\ m - 1 \in S /\ (m - 1) + 1 = m
  BY <1>1
<1>3. QED
  BY <1>1, <1>2

\* Two lists, one behind the other.
LEMMA Joined ==
    ASSUME NEW S, NEW s \in Seq(S), NEW t \in Seq(S)
    PROVE  /\ s \o t \in Seq(S) /\ Len(s \o t) = Len(s) + Len(t)
           /\ DOMAIN (s \o t) = 1 .. Len(s) + Len(t)
           /\ \A i \in 1 .. Len(s) : (s \o t)[i] = s[i]
           /\ \A i \in Len(s) + 1 .. Len(s) + Len(t) : (s \o t)[i] = t[i - Len(s)]
  OBVIOUS

\* What has the members of two lists, one behind the other, is the two joined.
LEMMA JoinIs ==
    ASSUME NEW S, NEW s \in Seq(S), NEW t \in Seq(S), NEW u \in Seq(S),
           Len(u) = Len(s) + Len(t),
           \A i \in 1 .. Len(s) : u[i] = s[i],
           \A i \in Len(s) + 1 .. Len(s) + Len(t) : u[i] = t[i - Len(s)]
    PROVE  s \o t = u
<1> DEFINE x == s \o t
<1>1. /\ x \in Seq(S) /\ Len(x) = Len(s) + Len(t)
      /\ \A i \in 1 .. Len(s) : x[i] = s[i]
      /\ \A i \in Len(s) + 1 .. Len(s) + Len(t) : x[i] = t[i - Len(s)]
      /\ Len(s) \in Nat /\ Len(t) \in Nat
  OBVIOUS
<1> HIDE DEF x
<1>2. \A i \in 1 .. Len(s) + Len(t) : x[i] = u[i]
  <2>1. \A i \in 1 .. Len(s) + Len(t) : i \in 1 .. Len(s) \/ i \in Len(s) + 1 .. Len(s) + Len(t)
    BY <1>1
  <2>2. QED
    BY <1>1, <2>1
<1>3. x = u
  BY <1>1, <1>2
<1>4. QED
  BY <1>3 DEF x

\* Lists written out are joined by writing them out.
LEMMA PairJoined ==
    ASSUME NEW S, NEW a \in S, NEW b \in S
    PROVE  <<a>> \o <<b>> = <<a, b>>
<1> DEFINE s == <<a>>
           t == <<b>>
           u == <<a, b>>
<1>1. /\ Len(<<a>>) = 1 /\ Len(<<b>>) = 1 /\ Len(<<a, b>>) = 2
      /\ \A i \in 1 .. 1 : <<a, b>>[i] = <<a>>[i]
      /\ \A i \in 2 .. 2 : <<a, b>>[i] = <<b>>[i - 1]
  OBVIOUS
<1>2. s \in Seq(S) /\ t \in Seq(S) /\ u \in Seq(S)
  OBVIOUS
<1>3. /\ Len(s) = 1 /\ Len(t) = 1 /\ Len(u) = 2
      /\ \A i \in 1 .. 1 : u[i] = s[i]
      /\ \A i \in 2 .. 2 : u[i] = t[i - 1]
  BY <1>1
<1> HIDE DEF s, t, u
<1>4. Len(u) = Len(s) + Len(t)
  BY <1>3
<1>5. \A i \in 1 .. Len(s) : u[i] = s[i]
  BY <1>3
<1>6. \A i \in Len(s) + 1 .. Len(s) + Len(t) : u[i] = t[i - Len(s)]
  BY <1>3
<1>7. s \o t = u
  BY <1>2, <1>4, <1>5, <1>6, JoinIs
<1>8. QED
  BY <1>7 DEF s, t, u

\* The same, of two and one.
LEMMA TripleJoined ==
    ASSUME NEW S, NEW a \in S, NEW b \in S, NEW c \in S
    PROVE  <<a, b>> \o <<c>> = <<a, b, c>>
<1> DEFINE s == <<a, b>>
           t == <<c>>
           u == <<a, b, c>>
<1>1. /\ Len(<<a, b>>) = 2 /\ Len(<<c>>) = 1 /\ Len(<<a, b, c>>) = 3
      /\ \A i \in 1 .. 2 : <<a, b, c>>[i] = <<a, b>>[i]
      /\ \A i \in 3 .. 3 : <<a, b, c>>[i] = <<c>>[i - 2]
  OBVIOUS
<1>2. s \in Seq(S) /\ t \in Seq(S) /\ u \in Seq(S)
  OBVIOUS
<1>3. /\ Len(s) = 2 /\ Len(t) = 1 /\ Len(u) = 3
      /\ \A i \in 1 .. 2 : u[i] = s[i]
      /\ \A i \in 3 .. 3 : u[i] = t[i - 2]
  BY <1>1
<1> HIDE DEF s, t, u
<1>4. Len(u) = Len(s) + Len(t)
  BY <1>3
<1>5. \A i \in 1 .. Len(s) : u[i] = s[i]
  BY <1>3
<1>6. \A i \in Len(s) + 1 .. Len(s) + Len(t) : u[i] = t[i - Len(s)]
  BY <1>3
<1>7. s \o t = u
  BY <1>2, <1>4, <1>5, <1>6, JoinIs
<1>8. QED
  BY <1>7 DEF s, t, u

\* Joined to nothing, a list stays what it is.
LEMMA JoinNothing ==
    ASSUME NEW S, NEW s \in Seq(S)
    PROVE  s \o <<>> = s /\ <<>> \o s = s /\ SubSeq(s, 1, 0) = <<>>
  OBVIOUS

\* The reading of a file, line by line.
MessageLine == {l \in Line : IsMessage(l)}

\* Lines are added one by one.
LEMMA LinesJoin ==
    ASSUME NEW s \in Seq(Line), NEW t \in Seq(Line), NEW l \in Line
    PROVE  Append(s \o t, l) = s \o Append(t, l)
  OBVIOUS

\* So are messages.
LEMMA MessagesJoin ==
    ASSUME NEW s \in Seq(MessageLine), NEW t \in Seq(MessageLine), NEW l \in MessageLine
    PROVE  Append(s \o t, l) = s \o Append(t, l)
  OBVIOUS

Reads(h, f, n) ==
    /\ h \in [0 .. n -> Seq(MessageLine)] /\ h[0] = <<>>
    /\ \A i \in 0 .. n - 1 :
          h[i + 1] = IF IsMessage(f[i + 1]) THEN Append(h[i], f[i + 1]) ELSE h[i]

\* Every file can be read to its end.
LEMMA ReadsToTheEnd ==
    ASSUME NEW f \in Seq(Line)
    PROVE  \E h : Reads(h, f, Len(f))
<1> DEFINE S == {n \in 0 .. Len(f) : \E h : Reads(h, f, n)}
<1>1. 0 \in S
  <2>1. Reads([i \in 0 .. 0 |-> <<>>], f, 0)
    BY DEF Reads
  <2>2. QED
    BY <2>1
<1>2. ASSUME NEW n \in 0 .. Len(f) - 1, n \in S PROVE n + 1 \in S
  <2>1. PICK h : Reads(h, f, n)
    BY <1>2
  <2> DEFINE more == IF IsMessage(f[n + 1]) THEN Append(h[n], f[n + 1]) ELSE h[n]
             g == [i \in 0 .. n + 1 |-> IF i = n + 1 THEN more ELSE h[i]]
  <2>2. more \in Seq(MessageLine)
    <3>1. h[n] \in Seq(MessageLine) /\ f[n + 1] \in Line
      BY <2>1 DEF Reads
    <3>2. QED
      BY <3>1 DEF MessageLine
  <2> HIDE DEF more
  <2>3. g \in [0 .. n + 1 -> Seq(MessageLine)] /\ g[0] = <<>>
    BY <2>1, <2>2 DEF Reads
  <2>4. ASSUME NEW i \in 0 .. n
        PROVE  g[i + 1] = IF IsMessage(f[i + 1]) THEN Append(g[i], f[i + 1]) ELSE g[i]
    <3>1. CASE i = n
      BY <3>1 DEF more
    <3>2. CASE i # n
      <4>1. i \in 0 .. n - 1
        BY <3>2
      <4>2. g[i + 1] = h[i + 1] /\ g[i] = h[i]
        BY <3>2, <4>1
      <4>3. h[i + 1] = IF IsMessage(f[i + 1]) THEN Append(h[i], f[i + 1]) ELSE h[i]
        BY <2>1, <4>1 DEF Reads
      <4>4. QED
        BY <4>2, <4>3
    <3>3. QED
      BY <3>1, <3>2
  <2>5. Reads(g, f, n + 1)
    <3>1. (n + 1) - 1 = n
      OBVIOUS
    <3> HIDE DEF g
    <3>2. QED
      BY <2>3, <2>4, <3>1 DEF Reads
  <2>6. QED
    BY <2>5
<1>3. Len(f) \in Nat /\ S \in SUBSET (0 .. Len(f))
  OBVIOUS
<1>4. Len(f) \in S
  <2> HIDE DEF S
  <2>1. S = 0 .. Len(f)
    BY <1>1, <1>2, <1>3, UpTo
  <2>2. QED
    BY <1>3, <2>1
<1>5. QED
  BY <1>4

\* MessagesOf reads it so.
LEMMA ReadingIs ==
    ASSUME NEW f \in Seq(Line), NEW h, Reads(h, f, Len(f))
    PROVE  MessagesOf(f) = h[Len(f)]
<1> DEFINE F(r) == [i \in 0 .. Len(f) |->
                      IF i = 0 THEN <<>>
                      ELSE IF IsMessage(f[i]) THEN Append(r[i - 1], f[i]) ELSE r[i - 1]]
           H == CHOOSE r : r = F(r)
<1>1. \A r : r = F(r) => r = h
  <2> SUFFICES ASSUME NEW r, r = F(r) PROVE r = h
    OBVIOUS
  <2>1. DOMAIN r = 0 .. Len(f) /\ r[0] = <<>>
    OBVIOUS
  <2>2. ASSUME NEW i \in 0 .. Len(f) - 1
        PROVE  r[i + 1] = IF IsMessage(f[i + 1]) THEN Append(r[i], f[i + 1]) ELSE r[i]
    <3>1. i + 1 \in 0 .. Len(f) /\ i + 1 # 0 /\ (i + 1) - 1 = i
      OBVIOUS
    <3>2. F(r)[i + 1] = IF IsMessage(f[i + 1]) THEN Append(r[i], f[i + 1]) ELSE r[i]
      BY <3>1
    <3>3. r = F(r)
      OBVIOUS
    <3>4. QED
      <4> HIDE DEF F
      <4>1. QED
        BY <3>2, <3>3
  <2> DEFINE S == {i \in 0 .. Len(f) : r[i] = h[i]}
  <2>3. S = 0 .. Len(f)
    <3>1. 0 \in S
      BY <2>1 DEF Reads
    <3>2. ASSUME NEW i \in 0 .. Len(f) - 1, i \in S PROVE i + 1 \in S
      <4> DEFINE more(x) == IF IsMessage(f[i + 1]) THEN Append(x, f[i + 1]) ELSE x
      <4>1. h[i + 1] = more(h[i]) /\ r[i + 1] = more(r[i])
        BY <2>2 DEF Reads
      <4>2. r[i] = h[i] /\ i + 1 \in 0 .. Len(f)
        BY <3>2
      <4>3. r[i + 1] = h[i + 1]
        <5> HIDE DEF more
        <5>1. QED
          BY <4>1, <4>2
      <4>4. QED
        BY <4>2, <4>3
    <3>3. S \in SUBSET (0 .. Len(f)) /\ Len(f) \in Nat
      OBVIOUS
    <3> HIDE DEF S
    <3>4. QED
      BY <3>1, <3>2, <3>3, UpTo
  <2>4. r = [i \in 0 .. Len(f) |-> r[i]] /\ h = [i \in 0 .. Len(f) |-> h[i]]
    BY DEF Reads
  <2>5. \A i \in 0 .. Len(f) : r[i] = h[i]
    BY <2>3
  <2>6. QED
    <3> HIDE DEF F
    <3>1. QED
      BY <2>4, <2>5
<1>2. h = F(h)
  <2>1. h = [i \in 0 .. Len(f) |-> h[i]]
    BY DEF Reads
  <2>2. ASSUME NEW i \in 0 .. Len(f) PROVE h[i] = F(h)[i]
    <3>1. CASE i = 0
      BY <3>1 DEF Reads
    <3>2. CASE i # 0
      <4>1. i - 1 \in 0 .. Len(f) - 1 /\ (i - 1) + 1 = i
        BY <3>2
      <4>2. h[i] = IF IsMessage(f[i]) THEN Append(h[i - 1], f[i]) ELSE h[i - 1]
        BY <4>1 DEF Reads
      <4>3. QED
        BY <3>2, <4>2
    <3>3. QED
      BY <3>1, <3>2
  <2>3. F(h) = [i \in 0 .. Len(f) |-> F(h)[i]]
    OBVIOUS
  <2>4. QED
    <3> HIDE DEF F
    <3>1. QED
      BY <2>1, <2>2, <2>3
<1>3. H = h
  <2> HIDE DEF F
  <2>1. QED
    BY <1>1, <1>2
<1>4. MessagesOf(f) = H[Len(f)]
  BY Zenon DEF MessagesOf
<1>5. QED
  BY <1>3, <1>4

\* A line more is read behind those there are.
LEMMA ReadsOneMore ==
    ASSUME NEW f \in Seq(Line), NEW l \in Line
    PROVE  /\ MessagesOf(f) \in Seq(MessageLine)
           /\ MessagesOf(Append(f, l)) =
                 IF IsMessage(l) THEN Append(MessagesOf(f), l) ELSE MessagesOf(f)
<1> DEFINE n == Len(f)
           f1 == Append(f, l)
<1>1. /\ f1 \in Seq(Line) /\ Len(f1) = n + 1 /\ n \in Nat /\ f1[n + 1] = l
      /\ \A i \in 1 .. n : f1[i] = f[i]
  OBVIOUS
<1> HIDE DEF f1, n
<1>2. PICK g : Reads(g, f1, n + 1)
  BY <1>1, ReadsToTheEnd
<1> DEFINE h == [i \in 0 .. n |-> g[i]]
<1>3. Reads(h, f, n)
  <2>1. h \in [0 .. n -> Seq(MessageLine)] /\ h[0] = <<>>
    BY <1>1, <1>2 DEF Reads
  <2>2. ASSUME NEW i \in 0 .. n - 1
        PROVE  h[i + 1] = IF IsMessage(f[i + 1]) THEN Append(h[i], f[i + 1]) ELSE h[i]
    <3>1. i \in 0 .. (n + 1) - 1 /\ i + 1 \in 1 .. n /\ i + 1 \in 0 .. n /\ i \in 0 .. n
      BY <1>1
    <3>2. g[i + 1] = IF IsMessage(f1[i + 1]) THEN Append(g[i], f1[i + 1]) ELSE g[i]
      BY <1>2, <3>1 DEF Reads
    <3>3. h[i + 1] = g[i + 1] /\ h[i] = g[i] /\ f1[i + 1] = f[i + 1]
      BY <1>1, <3>1
    <3>4. QED
      <4> HIDE DEF h
      <4>1. QED
        BY <3>2, <3>3
  <2>3. QED
    <3> HIDE DEF h
    <3>1. QED
      BY <2>1, <2>2 DEF Reads
<1>4. h[n] = g[n] /\ g[n] \in Seq(MessageLine)
  BY <1>1, <1>2 DEF Reads
<1>5. g[n + 1] = IF IsMessage(l) THEN Append(g[n], l) ELSE g[n]
  <2>1. n \in 0 .. (n + 1) - 1
    BY <1>1
  <2>2. QED
    BY <1>1, <1>2, <2>1 DEF Reads
<1>6. MessagesOf(f) = h[n]
  <2> HIDE DEF h
  <2>1. QED
    BY <1>3, ReadingIs DEF n
<1>7. MessagesOf(f1) = g[n + 1]
  BY <1>1, <1>2, ReadingIs
<1>8. QED
  BY <1>4, <1>5, <1>6, <1>7 DEF f1

\* A file of no lines has no messages.
LEMMA NothingRead == MessagesOf(<<>>) = <<>>
<1>1. <<>> \in Seq(Line) /\ Len(<<>>) = 0
  OBVIOUS
<1>2. PICK h : Reads(h, <<>>, Len(<<>>))
  BY <1>1, ReadsToTheEnd
<1>3. MessagesOf(<<>>) = h[0]
  BY <1>1, <1>2, ReadingIs
<1>4. QED
  BY <1>2, <1>3 DEF Reads

\* Where the last line of a kind is.
LEMMA GreatestIs ==
    ASSUME NEW n \in Nat, NEW S \in SUBSET (1 .. n), S # {}
    PROVE  Max(S) \in S /\ \A k \in S : k <= Max(S)
<1>1. S \in SUBSET (0 .. n)
  OBVIOUS
<1>2. \E m \in S : \A k \in S : m >= k
  BY <1>1, GreatestOf
<1>3. QED
  BY <1>2, Zenon DEF Max, >=

CheckpointsIn(f) == {i \in 1 .. Len(f) : IsCheckpoint(f[i])}
UsagesIn(f) == {i \in 1 .. Len(f) : IsUsage(f[i])}

\* The next checkpoint is one more than the last that is in the file.
LEMMA NextIs ==
    ASSUME NEW f \in Seq(Line)
    PROVE  /\ CheckpointsIn(f) = {} => NextOf(f) = 0
           /\ CheckpointsIn(f) # {} =>
                 /\ Max(CheckpointsIn(f)) \in CheckpointsIn(f)
                 /\ \A k \in CheckpointsIn(f) : k <= Max(CheckpointsIn(f))
                 /\ NextOf(f) = f[Max(CheckpointsIn(f))].n + 1
<1>1. SelectLastInSeq(f, IsCheckpoint) =
        IF CheckpointsIn(f) # {} THEN Max(CheckpointsIn(f)) ELSE 0
  BY Zenon DEF SelectLastInSeq, CheckpointsIn
<1>2. Len(f) \in Nat /\ CheckpointsIn(f) \in SUBSET (1 .. Len(f))
  BY DEF CheckpointsIn
<1>3. CheckpointsIn(f) # {} =>
        /\ Max(CheckpointsIn(f)) \in CheckpointsIn(f)
        /\ \A k \in CheckpointsIn(f) : k <= Max(CheckpointsIn(f))
  BY <1>2, GreatestIs
<1>4. CheckpointsIn(f) # {} => Max(CheckpointsIn(f)) # 0
  BY <1>2, <1>3
<1>5. QED
  BY <1>1, <1>3, <1>4 DEF NextOf

\* The count of tokens is that of the last usage in the file.
LEMMA TokensAre ==
    ASSUME NEW f \in Seq(Line)
    PROVE  /\ UsagesIn(f) = {} => TokensOf(f) = 0
           /\ UsagesIn(f) # {} =>
                 /\ Max(UsagesIn(f)) \in UsagesIn(f)
                 /\ \A k \in UsagesIn(f) : k <= Max(UsagesIn(f))
                 /\ TokensOf(f) = f[Max(UsagesIn(f))].n
<1>1. SelectLastInSeq(f, IsUsage) = IF UsagesIn(f) # {} THEN Max(UsagesIn(f)) ELSE 0
  BY Zenon DEF SelectLastInSeq, UsagesIn
<1>2. Len(f) \in Nat /\ UsagesIn(f) \in SUBSET (1 .. Len(f))
  BY DEF UsagesIn
<1>3. UsagesIn(f) # {} =>
        /\ Max(UsagesIn(f)) \in UsagesIn(f)
        /\ \A k \in UsagesIn(f) : k <= Max(UsagesIn(f))
  BY <1>2, GreatestIs
<1>4. UsagesIn(f) # {} => Max(UsagesIn(f)) # 0
  BY <1>2, <1>3
<1>5. QED
  BY <1>1, <1>3, <1>4 DEF TokensOf

\* Lines that are none of a kind change nothing.
LEMMA NextUnchanged ==
    ASSUME NEW f \in Seq(Line), NEW g \in Seq(Line), Len(f) <= Len(g),
           \A i \in 1 .. Len(f) : g[i] = f[i],
           \A i \in Len(f) + 1 .. Len(g) : ~IsCheckpoint(g[i])
    PROVE  NextOf(g) = NextOf(f)
<1>1. CheckpointsIn(g) = CheckpointsIn(f) /\ CheckpointsIn(f) \subseteq 1 .. Len(f)
  BY DEF CheckpointsIn
<1>2. CASE CheckpointsIn(f) = {}
  BY <1>1, <1>2, NextIs
<1>3. CASE CheckpointsIn(f) # {}
  BY <1>1, <1>3, NextIs
<1>4. QED
  BY <1>2, <1>3

\* The count is that of a beginning, if no usage follows.
LEMMA TokensUnchanged ==
    ASSUME NEW f \in Seq(Line), NEW g \in Seq(Line), Len(f) <= Len(g),
           \A i \in 1 .. Len(f) : g[i] = f[i],
           \A i \in Len(f) + 1 .. Len(g) : ~IsUsage(g[i])
    PROVE  TokensOf(g) = TokensOf(f)
<1>1. UsagesIn(g) = UsagesIn(f) /\ UsagesIn(f) \subseteq 1 .. Len(f)
  BY DEF UsagesIn
<1>2. CASE UsagesIn(f) = {}
  BY <1>1, <1>2, TokensAre
<1>3. CASE UsagesIn(f) # {}
  BY <1>1, <1>3, TokensAre
<1>4. QED
  BY <1>2, <1>3

\* What one more line does to the two.
LEMMA CountsOneMore ==
    ASSUME NEW f \in Seq(Line), NEW l \in Line
    PROVE  /\ NextOf(Append(f, l)) = IF IsCheckpoint(l) THEN l.n + 1 ELSE NextOf(f)
           /\ TokensOf(Append(f, l)) = IF IsUsage(l) THEN l.n ELSE TokensOf(f)
<1> DEFINE g == Append(f, l)
<1>1. /\ g \in Seq(Line) /\ Len(g) = Len(f) + 1 /\ Len(f) \in Nat /\ g[Len(f) + 1] = l
      /\ \A i \in 1 .. Len(f) : g[i] = f[i]
  OBVIOUS
<1> HIDE DEF g
<1>2. NextOf(g) = IF IsCheckpoint(l) THEN l.n + 1 ELSE NextOf(f)
  <2>1. CASE ~IsCheckpoint(l)
    <3>1. \A i \in Len(f) + 1 .. Len(g) : ~IsCheckpoint(g[i])
      BY <1>1, <2>1
    <3>2. NextOf(g) = NextOf(f)
      BY <1>1, <3>1, NextUnchanged
    <3>3. QED
      BY <2>1, <3>2
  <2>2. CASE IsCheckpoint(l)
    <3>1. Len(f) + 1 \in CheckpointsIn(g) /\ \A k \in CheckpointsIn(g) : k \in Nat /\ k <= Len(f) + 1
      BY <1>1, <2>2 DEF CheckpointsIn
    <3>2. /\ Max(CheckpointsIn(g)) \in CheckpointsIn(g)
          /\ \A k \in CheckpointsIn(g) : k <= Max(CheckpointsIn(g))
          /\ NextOf(g) = g[Max(CheckpointsIn(g))].n + 1
      BY <1>1, <3>1, NextIs
    <3>3. Max(CheckpointsIn(g)) = Len(f) + 1
      BY <1>1, <3>1, <3>2
    <3>4. QED
      BY <1>1, <2>2, <3>2, <3>3
  <2>3. QED
    BY <2>1, <2>2
<1>3. TokensOf(g) = IF IsUsage(l) THEN l.n ELSE TokensOf(f)
  <2>1. CASE ~IsUsage(l)
    <3>1. \A i \in Len(f) + 1 .. Len(g) : ~IsUsage(g[i])
      BY <1>1, <2>1
    <3>2. TokensOf(g) = TokensOf(f)
      BY <1>1, <3>1, TokensUnchanged
    <3>3. QED
      BY <2>1, <3>2
  <2>2. CASE IsUsage(l)
    <3>1. Len(f) + 1 \in UsagesIn(g) /\ \A k \in UsagesIn(g) : k \in Nat /\ k <= Len(f) + 1
      BY <1>1, <2>2 DEF UsagesIn
    <3>2. /\ Max(UsagesIn(g)) \in UsagesIn(g)
          /\ \A k \in UsagesIn(g) : k <= Max(UsagesIn(g))
          /\ TokensOf(g) = g[Max(UsagesIn(g))].n
      BY <1>1, <3>1, TokensAre
    <3>3. Max(UsagesIn(g)) = Len(f) + 1
      BY <1>1, <3>1, <3>2
    <3>4. QED
      BY <1>1, <2>2, <3>2, <3>3
  <2>3. QED
    BY <2>1, <2>2
<1>4. QED
  BY <1>2, <1>3 DEF g

\* Messages behind the lines of a file are read behind its messages.
LEMMA ReadsMore ==
    ASSUME NEW f \in Seq(Line), NEW ms \in Seq(MessageLine)
    PROVE  /\ MessagesOf(f \o ms) = MessagesOf(f) \o ms
           /\ NextOf(f \o ms) = NextOf(f) /\ TokensOf(f \o ms) = TokensOf(f)
<1>0. ms \in Seq(Line) /\ Len(ms) \in Nat /\ MessagesOf(f) \in Seq(MessageLine)
  <2>1. MessageLine \subseteq Line
    BY DEF MessageLine
  <2>2. ms \in Seq(Line) /\ Len(ms) \in Nat
    BY <2>1
  <2>3. [role |-> "junk", n |-> 0] \in Line
    BY DEF Line
  <2>4. MessagesOf(f) \in Seq(MessageLine)
    BY <2>3, ReadsOneMore
  <2>5. QED
    BY <2>2, <2>4
<1> DEFINE part(k) == SubSeq(ms, 1, k)
           P(k) == MessagesOf(f \o part(k)) = MessagesOf(f) \o part(k)
           S == {k \in 0 .. Len(ms) : P(k)}
<1>1. P(0)
  <2>1. part(0) = <<>>
    BY <1>0, JoinNothing, Zenon
  <2>2. f \o <<>> = f
    BY JoinNothing, Zenon
  <2>3. MessagesOf(f) \o <<>> = MessagesOf(f)
    BY <1>0, JoinNothing, Zenon
  <2> HIDE DEF part
  <2>4. QED
    BY <2>1, <2>2, <2>3, Zenon
<1>2. ASSUME NEW k \in 0 .. Len(ms) - 1, P(k) PROVE P(k + 1)
  <2> DEFINE l == ms[k + 1]
  <2>1. part(k) \in Seq(MessageLine) /\ part(k) \in Seq(Line) /\ l \in MessageLine
    BY <1>0
  <2>2. part(k + 1) = Append(part(k), l)
    BY <1>0
  <2>3. l \in Line /\ IsMessage(l)
    BY <2>1 DEF MessageLine
  <2> HIDE DEF part, l
  <2>4. f \o part(k) \in Seq(Line)
    BY <2>1
  <2>5. MessagesOf(Append(f \o part(k), l)) = Append(MessagesOf(f \o part(k)), l)
    BY <2>3, <2>4, ReadsOneMore
  <2>6. Append(f \o part(k), l) = f \o Append(part(k), l)
    BY <2>1, <2>3, LinesJoin
  <2>7. Append(MessagesOf(f) \o part(k), l) = MessagesOf(f) \o Append(part(k), l)
    BY <1>0, <2>1, MessagesJoin
  <2>8. QED
    BY <1>2, <2>2, <2>5, <2>6, <2>7
<1>3. P(Len(ms))
  <2>1. S \in SUBSET (0 .. Len(ms)) /\ 0 \in S
    BY <1>0, <1>1
  <2>2. \A k \in 0 .. Len(ms) - 1 : k \in S => k + 1 \in S
    <3> HIDE DEF P
    <3>1. QED
      BY <1>0, <1>2
  <2>3. S = 0 .. Len(ms)
    <3> HIDE DEF S
    <3>1. QED
      BY <1>0, <2>1, <2>2, UpTo
  <2>4. Len(ms) \in S
    <3> HIDE DEF S
    <3>1. QED
      BY <1>0, <2>3
  <2>5. QED
    BY <2>4
<1>4. SubSeq(ms, 1, Len(ms)) = ms
  BY <1>0
<1>5. /\ f \o ms \in Seq(Line) /\ Len(f) <= Len(f \o ms)
      /\ \A i \in 1 .. Len(f) : (f \o ms)[i] = f[i]
      /\ \A i \in Len(f) + 1 .. Len(f \o ms) : (f \o ms)[i] \in MessageLine
  BY <1>0
<1>6. \A l \in MessageLine : ~IsCheckpoint(l) /\ ~IsUsage(l)
  BY DEF MessageLine, IsMessage, IsCheckpoint, IsUsage, MessageRoles
<1>7. NextOf(f \o ms) = NextOf(f)
  BY <1>5, <1>6, NextUnchanged
<1>8. TokensOf(f \o ms) = TokensOf(f)
  BY <1>5, <1>6, TokensUnchanged
<1>9. QED
  BY <1>3, <1>4, <1>7, <1>8

---------------------------------------------------------------------------------
(* What is inductive. *)

\* What the soul asks of the context.
Asked == {o \in Op : /\ o.op = "append" => o.lines \in Seq(MessageLine)
                     /\ o.soft => o.op = "usage"}

LoopTypes ==
    /\ LoopTypeOK
    /\ history \in Seq(MessageLine) /\ plan \in Seq(Asked)
    /\ soul \in {"counting", "model"} => steps # 0

Writing == at \in {"open", "newline", "more"}
Copying == at \in {"copy", "copied"}

\* Where an operation is, and what it has in hand.
OpInv ==
    /\ Writing => Doing("checkpoint") \/ Doing("append") \/ Doing("usage")
    /\ at = "forget" \/ Copying => Doing("revert")
    /\ at = "create" => Doing("clear") \/ Doing("revert")
    /\ ~Writing => due = <<>>
    /\ at \notin {"forget", "create", "copy", "copied"} => source = <<>>
    /\ at = "create" /\ Doing("clear") => source = <<>>
    /\ Doing("usage") /\ Writing => due \in {<<>>, <<UsageLine(Head(plan).n)>>}
    /\ tail \in {"open", "late", "placed"} => file # <<>>
    /\ at \in {"forget", "create"} => file = <<>>
    /\ at \in {"newline", "more", "copied"} => file # <<>>
    /\ at = "copied" => source # <<>> /\ Last(file) = Head(source)
    /\ at = "forget" \/ (at = "create" /\ Doing("clear")) => torn
    /\ at = "create" /\ Doing("revert") => history = <<>> /\ nextCheckpoint = 0

\* What is in the file, with what is owed to it.
Story == (IF at = "copied" THEN Front(file) ELSE file) \o (source \o due)

NoJunk(f, n) == \A j \in 1..n : f[j] # Junk

Answered(h) ==
    \A i \in DOMAIN h :
        /\ h[i].role = "calls" => i < Len(h) /\ h[i + 1].role = "tools"
        /\ h[i].role = "tools" => i > 1 /\ h[i - 1].role = "calls"

\* A checkpoint can be gone back to from what stands before it.
Earlier(f, n) == \A m \in 0 .. n - 1 : \E j \in DOMAIN f : f[j] = CheckpointLine(m)

Sound(f, n) == NextOf(f) = n /\ Answered(MessagesOf(f)) /\ Earlier(f, n)

Good(f) ==
    \A i \in DOMAIN f :
        IsCheckpoint(f[i]) /\ NoJunk(f, i - 1) => Sound(SubSeq(f, 1, i - 1), f[i].n)

Tells(f) == history = MessagesOf(f) /\ nextCheckpoint = NextOf(f)

Remembers ==
    /\ at \notin {"forget", "create", "copy", "copied"} /\ Intact(file) => Tells(file \o due)
    /\ at = "copy" => Tells(file)
    /\ at = "copied" => Tells(Front(file))

CopyInv ==
    /\ Copying => Intact(file) /\ \A i \in DOMAIN file : file[i] # Target
    /\ at = "forget" \/ Copying \/ (at = "create" /\ Doing("revert")) =>
          (Intact(Story) => \E i \in DOMAIN Story : Story[i] = Target)

\* Recording an answer: what is appended first, and last.
Answer == Appends(<<Message(IF said.calls THEN "calls" ELSE "assistant")>>)
Results == Appends(IF said.calls THEN <<Message("tools")>> ELSE <<>>)

Recording ==
    \/ plan = <<>>
    \/ plan = <<Results>>
    \/ plan = <<Usage(said.total), Results>>
    \/ plan = <<Answer, Results>>
    \/ plan = <<Answer, Usage(said.total), Results>>

Half(h) ==
    IF said.calls THEN h # <<>> /\ Last(h).role = "calls" /\ Answered(Front(h)) ELSE Answered(h)

Fresh == plan # <<>> /\ Head(plan) = Answer /\ Len(plan) > 1 /\ at = "start"
Over == plan = <<>> \/ (plan = <<Results>> /\ at # "start")

Whole == {o \in Asked : o.op = "append" => Answered(o.lines)}

AnswerInv ==
    /\ soul # "verdict" => plan \in Seq(Whole) /\ (~Copying => Answered(history))
    /\ soul = "verdict" =>
          IF Fresh \/ Over THEN Answered(history) ELSE Half(history)

PlanInv ==
    /\ soul = "verdict" => Recording
    /\ soul = "rewound" => plan \in {<<>>, <<Do("revert", back)>>}
    /\ soul # "rewound" => \A i \in DOMAIN plan : plan[i].op # "revert"

\* A rewind is done when its plan is.
Landed == soul = "rewound" /\ plan = <<>> => nextCheckpoint = back

StoryInv == Good(Story) /\ Remembers /\ CopyInv /\ AnswerInv /\ Landed

LoopInv == LoopTypes /\ OpInv /\ PlanInv /\ FileCatchesUp /\ (~spoilt => StoryInv)

---------------------------------------------------------------------------------
(* Lemmas about files and conversations. *)

\* What the lines are.
LEMMA LineTypes ==
    /\ Junk \in Line /\ ~IsCheckpoint(Junk) /\ ~IsUsage(Junk) /\ ~IsMessage(Junk)
    /\ \A n \in Nat : /\ CheckpointLine(n) \in Line /\ IsCheckpoint(CheckpointLine(n))
                      /\ CheckpointLine(n).n = n /\ CheckpointLine(n) # Junk
                      /\ ~IsMessage(CheckpointLine(n)) /\ ~IsUsage(CheckpointLine(n))
    /\ \A n \in Nat : /\ UsageLine(n) \in Line /\ IsUsage(UsageLine(n)) /\ UsageLine(n).n = n
                      /\ ~IsMessage(UsageLine(n)) /\ ~IsCheckpoint(UsageLine(n))
    /\ \A l \in Line : IsCheckpoint(l) => l = CheckpointLine(l.n) /\ l.n \in Nat
    /\ \A l \in MessageLine : l \in Line /\ IsMessage(l) /\ ~IsCheckpoint(l) /\ ~IsUsage(l)
  BY DEF Line, Junk, CheckpointLine, UsageLine, IsMessage, IsCheckpoint, IsUsage, MessageRoles,
         MessageLine

\* What the messages are.
LEMMA MessageTypes ==
    /\ \A role \in MessageRoles : Message(role) \in MessageLine /\ Message(role).role = role
    /\ \A n \in Nat : Mark(n) \in MessageLine /\ Mark(n).role = "mark"
    /\ Seq(MessageLine) \subseteq Seq(Line) /\ MessageLine \subseteq Line
<1>1. \A role \in MessageRoles : Message(role) \in MessageLine /\ Message(role).role = role
  BY DEF Line, IsMessage, MessageRoles, MessageLine, Message
<1>2. \A n \in Nat : Mark(n) \in MessageLine /\ Mark(n).role = "mark"
  BY DEF Line, IsMessage, MessageRoles, MessageLine, Mark
<1>3. MessageLine \subseteq Line
  BY DEF MessageLine
<1>4. Seq(MessageLine) \subseteq Seq(Line)
  BY <1>3
<1>5. QED
  BY <1>1, <1>2, <1>3, <1>4

\* What an empty file says.
LEMMA NothingSaid == MessagesOf(<<>>) = <<>> /\ TokensOf(<<>>) = 0 /\ NextOf(<<>>) = 0
<1>1. <<>> \in Seq(Line)
  OBVIOUS
<1>2. CheckpointsIn(<<>>) = {} /\ UsagesIn(<<>>) = {}
  BY DEF CheckpointsIn, UsagesIn
<1>3. TokensOf(<<>>) = 0
  BY <1>1, <1>2, TokensAre
<1>4. NextOf(<<>>) = 0
  BY <1>1, <1>2, NextIs
<1>5. QED
  BY <1>3, <1>4, NothingRead

\* A file with one more line.
LEMMA LineAppended ==
    ASSUME NEW f \in Seq(Line), NEW l \in Line
    PROVE  /\ Append(f, l) \in Seq(Line) /\ Append(f, l) # <<>>
           /\ Len(Append(f, l)) = Len(f) + 1 /\ Append(f, l)[Len(f) + 1] = l
           /\ \A i \in 1 .. Len(f) : Append(f, l)[i] = f[i]
           /\ Front(Append(f, l)) = f
  BY DEF Front

\* A line that is due is written, or thrown away.
LEMMA LineMoved ==
    ASSUME NEW f \in Seq(Line), NEW d \in Seq(Line), d # <<>>
    PROVE  Append(f, Head(d)) \o Tail(d) = f \o d
<1> DEFINE s == Append(f, Head(d))
           t == Tail(d)
           u == f \o d
<1>1. /\ s \in Seq(Line) /\ Len(s) = Len(f) + 1 /\ s[Len(f) + 1] = d[1]
      /\ \A i \in 1 .. Len(f) : s[i] = f[i]
  OBVIOUS
<1>2. /\ t \in Seq(Line) /\ Len(t) = Len(d) - 1 /\ Len(d) \in Nat \ {0}
      /\ \A i \in 1 .. Len(d) - 1 : t[i] = d[i + 1]
  OBVIOUS
<1>3. /\ u \in Seq(Line) /\ Len(u) = Len(f) + Len(d) /\ Len(f) \in Nat
      /\ \A i \in 1 .. Len(f) : u[i] = f[i]
      /\ \A i \in Len(f) + 1 .. Len(f) + Len(d) : u[i] = d[i - Len(f)]
  OBVIOUS
<1> HIDE DEF s, t, u
<1>4. Len(u) = Len(s) + Len(t)
  <2>1. \A m, n \in Nat : (m + 1) + (n - 1) = m + n
    OBVIOUS
  <2>2. Len(f) \in Nat /\ Len(d) \in Nat
    BY <1>2, <1>3
  <2>3. (Len(f) + 1) + (Len(d) - 1) = Len(f) + Len(d)
    BY <2>1, <2>2, Zenon
  <2>4. QED
    BY <1>1, <1>2, <1>3, <2>3, Zenon
<1>5. \A i \in 1 .. Len(s) : u[i] = s[i]
  <2>1. u[Len(f) + 1] = d[1]
    <3>1. Len(f) + 1 \in Len(f) + 1 .. Len(f) + Len(d) /\ Len(f) + 1 - Len(f) = 1
      BY <1>2, <1>3
    <3>2. QED
      BY <1>3, <3>1
  <2>2. \A i \in 1 .. Len(s) : i \in 1 .. Len(f) \/ i = Len(f) + 1
    BY <1>1, <1>3
  <2>3. QED
    BY <1>1, <1>3, <2>1, <2>2
<1>6. \A i \in Len(s) + 1 .. Len(s) + Len(t) : u[i] = t[i - Len(s)]
  <2> SUFFICES ASSUME NEW i \in Len(s) + 1 .. Len(s) + Len(t) PROVE u[i] = t[i - Len(s)]
    OBVIOUS
  <2>1. i \in Len(f) + 1 .. Len(f) + Len(d) /\ i - Len(s) \in 1 .. Len(d) - 1
        /\ i - Len(s) + 1 = i - Len(f)
    BY <1>1, <1>2, <1>3
  <2>2. t[i - Len(s)] = d[i - Len(s) + 1]
    BY <1>2, <2>1
  <2>3. u[i] = d[i - Len(f)]
    BY <1>3, <2>1
  <2>4. QED
    BY <2>1, <2>2, <2>3
<1>7. s \o t = u
  BY <1>1, <1>2, <1>3, <1>4, <1>5, <1>6, JoinIs
<1>8. QED
  BY <1>7 DEF s, t, u

\* Restoring an intact file reads all of it.
LEMMA ReadsItAll ==
    ASSUME NEW f \in Seq(Line), Intact(f)
    PROVE  Readable(f) = f
<1> DEFINE g == Append(f, Junk)
           I == {i \in 1 .. Len(g) : g[i] = Junk}
<1>1. /\ Len(g) = Len(f) + 1 /\ Len(f) \in Nat /\ g[Len(f) + 1] = Junk
      /\ \A i \in 1 .. Len(f) : g[i] = f[i] /\ f[i] # Junk
  BY DEF Intact, Spoilt
<1>2. I = {Len(f) + 1}
  <2> HIDE DEF g
  <2>1. QED
    BY <1>1
<1>3. Min(I) = Len(f) + 1
  <2> HIDE DEF I
  <2>1. Len(f) + 1 <= Len(f) + 1
    BY <1>1
  <2>2. QED
    BY <1>1, <1>2, <2>1, Zenon DEF Min
<1>4. SelectInSeq(g, LAMBDA l : l = Junk) = IF I # {} THEN Min(I) ELSE 0
  BY Zenon DEF SelectInSeq
<1>5. SelectInSeq(g, LAMBDA l : l = Junk) - 1 = Len(f)
  <2> HIDE DEF I, g
  <2>1. QED
    BY <1>1, <1>2, <1>3, <1>4
<1>6. SubSeq(f, 1, Len(f)) = f
  OBVIOUS
<1>7. QED
  BY <1>5, <1>6 DEF Readable

\* What can be read of a file are lines.
LEMMA ReadableType ==
    ASSUME NEW f \in Seq(Line)
    PROVE  Readable(f) \in Seq(Line)
<1> DEFINE g == Append(f, Junk)
           I == {i \in 1 .. Len(g) : g[i] = Junk}
<1>1. Len(g) = Len(f) + 1 /\ Len(f) \in Nat /\ g[Len(f) + 1] = Junk
  OBVIOUS
<1>2. I \subseteq 1 .. Len(f) + 1 /\ Len(f) + 1 \in I
  BY <1>1
<1>3. SelectInSeq(g, LAMBDA l : l = Junk) = IF I # {} THEN Min(I) ELSE 0
  BY Zenon DEF SelectInSeq
<1> HIDE DEF I, g
<1>4. \E m \in I : \A k \in I : m <= k
  BY <1>1, <1>2, LeastOf
<1>5. Min(I) \in I
  BY <1>4, Zenon DEF Min
<1>6. SelectInSeq(g, LAMBDA l : l = Junk) - 1 \in 0 .. Len(f)
  BY <1>1, <1>2, <1>3, <1>5
<1>7. PICK n \in 0 .. Len(f) : n = SelectInSeq(g, LAMBDA l : l = Junk) - 1
  BY <1>6
<1>8. Readable(f) = SubSeq(f, 1, n)
  BY <1>7, Zenon DEF Readable, g
<1>9. SubSeq(f, 1, n) \in Seq(Line)
  OBVIOUS
<1>10. QED
  BY <1>8, <1>9

\* What a file says has the types of the memory.
LEMMA SaysTypes ==
    ASSUME NEW f \in Seq(Line)
    PROVE  MessagesOf(f) \in Seq(MessageLine) /\ NextOf(f) \in Nat /\ TokensOf(f) \in Nat
<1>1. MessagesOf(f) \in Seq(MessageLine)
  <2>1. Junk \in Line
    BY DEF Junk, Line
  <2>2. QED
    BY <2>1, ReadsOneMore
<1>2. \A i \in 1 .. Len(f) : f[i].n \in Nat
  <2>1. \A l \in Line : l.n \in Nat
    BY DEF Line
  <2>2. \A i \in 1 .. Len(f) : f[i] \in Line
    OBVIOUS
  <2>3. QED
    BY <2>1, <2>2
<1>3. NextOf(f) \in Nat
  <2>1. CASE CheckpointsIn(f) = {}
    BY <2>1, NextIs
  <2>2. CASE CheckpointsIn(f) # {}
    <3> DEFINE k == Max(CheckpointsIn(f))
    <3>1. k \in CheckpointsIn(f) /\ NextOf(f) = f[k].n + 1
      BY <2>2, NextIs
    <3> HIDE DEF k
    <3>2. f[k].n \in Nat
      BY <1>2, <3>1 DEF CheckpointsIn
    <3>3. QED
      BY <3>1, <3>2
  <2>3. QED
    BY <2>1, <2>2
<1>4. TokensOf(f) \in Nat
  <2>1. CASE UsagesIn(f) = {}
    BY <2>1, TokensAre
  <2>2. CASE UsagesIn(f) # {}
    <3> DEFINE k == Max(UsagesIn(f))
    <3>1. k \in UsagesIn(f) /\ TokensOf(f) = f[k].n
      BY <2>2, TokensAre
    <3> HIDE DEF k
    <3>2. f[k].n \in Nat
      BY <1>2, <3>1 DEF UsagesIn
    <3>3. QED
      BY <3>1, <3>2
  <2>3. QED
    BY <2>1, <2>2
<1>5. QED
  BY <1>1, <1>3, <1>4

\* Two answered lists are one, whichever is first.
LEMMA AnsweredJoined ==
    ASSUME NEW h \in Seq(Line), NEW t \in Seq(Line), Answered(h), Answered(t)
    PROVE  Answered(h \o t)
<1> DEFINE g == h \o t
<1>1. /\ g \in Seq(Line) /\ Len(g) = Len(h) + Len(t) /\ DOMAIN g = 1 .. Len(h) + Len(t)
      /\ Len(h) \in Nat /\ Len(t) \in Nat /\ DOMAIN h = 1 .. Len(h) /\ DOMAIN t = 1 .. Len(t)
      /\ \A i \in 1 .. Len(h) : g[i] = h[i]
      /\ \A i \in Len(h) + 1 .. Len(h) + Len(t) : g[i] = t[i - Len(h)]
  OBVIOUS
<1> HIDE DEF g
<1>2. ASSUME NEW i \in DOMAIN g
      PROVE  /\ g[i].role = "calls" => i < Len(g) /\ g[i + 1].role = "tools"
             /\ g[i].role = "tools" => i > 1 /\ g[i - 1].role = "calls"
  <2>1. CASE i <= Len(h)
    <3>1. i \in DOMAIN h /\ g[i] = h[i]
      BY <1>1, <2>1
    <3>2. /\ h[i].role = "calls" => i < Len(h) /\ h[i + 1].role = "tools"
          /\ h[i].role = "tools" => i > 1 /\ h[i - 1].role = "calls"
      BY <3>1 DEF Answered
    <3>3. /\ i < Len(h) => g[i + 1] = h[i + 1]
          /\ i > 1 => g[i - 1] = h[i - 1]
      BY <1>1, <2>1, <3>1
    <3>4. i < Len(h) => i < Len(g)
      BY <1>1, <3>1
    <3>5. QED
      BY <3>1, <3>2, <3>3, <3>4
  <2>2. CASE i > Len(h)
    <3> DEFINE k == i - Len(h)
    <3>1. k \in DOMAIN t /\ g[i] = t[k] /\ k \in Nat
      <4>1. i \in Len(h) + 1 .. Len(h) + Len(t)
        BY <1>1, <2>2
      <4>2. k \in 1 .. Len(t)
        BY <1>1, <4>1
      <4>3. QED
        BY <1>1, <4>1, <4>2
    <3>2. /\ t[k].role = "calls" => k < Len(t) /\ t[k + 1].role = "tools"
          /\ t[k].role = "tools" => k > 1 /\ t[k - 1].role = "calls"
      <4> HIDE DEF k
      <4>1. QED
        BY <3>1 DEF Answered
    <3>3. /\ k < Len(t) => g[i + 1] = t[k + 1] /\ i < Len(g)
          /\ k > 1 => g[i - 1] = t[k - 1] /\ i > 1
      <4>1. ASSUME k < Len(t) PROVE g[i + 1] = t[k + 1] /\ i < Len(g)
        <5>1. i + 1 \in Len(h) + 1 .. Len(h) + Len(t) /\ (i + 1) - Len(h) = k + 1 /\ i < Len(g)
          BY <1>1, <2>2, <4>1
        <5>2. QED
          BY <1>1, <5>1
      <4>2. ASSUME k > 1 PROVE g[i - 1] = t[k - 1] /\ i > 1
        <5>1. i - 1 \in Len(h) + 1 .. Len(h) + Len(t) /\ (i - 1) - Len(h) = k - 1 /\ i > 1
          BY <1>1, <2>2, <4>2
        <5>2. QED
          BY <1>1, <5>1
      <4>3. QED
        BY <4>1, <4>2
    <3>4. QED
      <4> HIDE DEF k
      <4>1. QED
        BY <3>1, <3>2, <3>3
  <2>3. QED
    BY <1>1, <2>1, <2>2
<1>3. QED
  BY <1>2 DEF Answered, g

\* One message that is neither calls nor results is answered; so is nothing.
LEMMA AnsweredOne ==
    /\ Answered(<<>>)
    /\ \A l \in Line : l.role \notin {"calls", "tools"} => Answered(<<l>>)
    /\ Answered(<<Message("calls"), Message("tools")>>)
  BY DEF Answered, Message

\* Compaction keeps a list of messages, from one of the user or the model on.
LEMMA KeptIs ==
    ASSUME NEW h \in Seq(MessageLine), Kept(h) # 1
    PROVE  Kept(h) \in 1 .. Len(h) /\ h[Kept(h)].role # "tools"
<1> DEFINE starts == {i \in DOMAIN h : Counted(h[i]) /\
                         \E j \in i + 1 .. Len(h) :
                             \A k \in i + 1 .. Len(h) : Counted(h[k]) <=> k = j}
<1>1. Kept(h) = IF starts = {} THEN 1 ELSE CHOOSE i \in starts : TRUE
  BY Zenon DEF Kept
<1>2. \A i \in starts : i \in DOMAIN h /\ Counted(h[i])
  OBVIOUS
<1> HIDE DEF starts
<1>3. Kept(h) \in starts
  BY <1>1
<1>4. QED
  BY <1>2, <1>3 DEF Counted

\* What compaction leaves are messages.
LEMMA CompactedType ==
    ASSUME NEW h \in Seq(MessageLine)
    PROVE  Compacted(h) \in Seq(MessageLine)
<1>1. CASE Kept(h) = 1
  BY <1>1 DEF Compacted
<1>2. CASE Kept(h) # 1
  <2>1. Kept(h) \in 1 .. Len(h)
    BY <1>2, KeptIs
  <2>2. SubSeq(h, Kept(h), Len(h)) \in Seq(MessageLine)
    BY <2>1
  <2>3. <<Message("summary")>> \in Seq(MessageLine)
    BY MessageTypes DEF MessageRoles
  <2>4. QED
    BY <1>2, <2>2, <2>3 DEF Compacted
<1>3. QED
  BY <1>1, <1>2

\* So is what compaction keeps.
LEMMA AnsweredCompacted ==
    ASSUME NEW h \in Seq(MessageLine), Answered(h)
    PROVE  Answered(Compacted(h))
<1>1. CASE Kept(h) = 1
  BY <1>1 DEF Compacted
<1>2. CASE Kept(h) # 1
  <2>1. Kept(h) \in 1 .. Len(h) /\ h[Kept(h)].role # "tools"
    BY <1>2, KeptIs
  <2> DEFINE p == Kept(h)
             t == SubSeq(h, p, Len(h))
             s == <<Message("summary")>>
  <2>2. /\ t \in Seq(MessageLine) /\ Len(t) = Len(h) - p + 1 /\ DOMAIN t = 1 .. Len(h) - p + 1
        /\ \A i \in 1 .. Len(h) - p + 1 : t[i] = h[i + p - 1]
    <3> HIDE DEF p
    <3>1. p \in 1 .. Len(h)
      BY <2>1 DEF p
    <3>2. QED
      BY <3>1
  <2>3. Answered(t)
    <3>0. p \in 1 .. Len(h) /\ h[p].role # "tools" /\ Len(h) \in Nat /\ DOMAIN h = 1 .. Len(h)
      BY <2>1
    <3> HIDE DEF t, p
    <3>1. ASSUME NEW i \in DOMAIN t
          PROVE  /\ t[i].role = "calls" => i < Len(t) /\ t[i + 1].role = "tools"
                 /\ t[i].role = "tools" => i > 1 /\ t[i - 1].role = "calls"
      <4> DEFINE k == i + p - 1
      <4>1. k \in DOMAIN h /\ t[i] = h[k] /\ i \in Nat
        BY <2>2, <3>0
      <4>2. /\ h[k].role = "calls" => k < Len(h) /\ h[k + 1].role = "tools"
            /\ h[k].role = "tools" => k > 1 /\ h[k - 1].role = "calls"
        <5> HIDE DEF k
        <5>1. QED
          BY <4>1 DEF Answered
      <4>3. /\ k < Len(h) => i < Len(t) /\ t[i + 1] = h[k + 1]
            /\ i > 1 => t[i - 1] = h[k - 1]
            /\ i = 1 => k = p
            /\ i >= 1
        <5>1. i \in 1 .. Len(h) - p + 1
          BY <2>2
        <5>2. ASSUME k < Len(h) PROVE i < Len(t) /\ t[i + 1] = h[k + 1]
          <6> DEFINE n == Len(h)
          <6>0. n \in Nat /\ p \in 1 .. n /\ i \in 1 .. n - p + 1 /\ i + p - 1 < n
            BY <3>0, <5>1, <5>2
          <6> HIDE DEF n
          <6>1. i + 1 \in 1 .. n - p + 1 /\ (i + 1) + p - 1 = (i + p - 1) + 1 /\ i < n - p + 1
            BY <6>0
          <6>2. QED
            BY <2>2, <6>1 DEF n
        <5>3. ASSUME i > 1 PROVE t[i - 1] = h[k - 1]
          <6>1. i - 1 \in 1 .. Len(h) - p + 1 /\ (i - 1) + p - 1 = k - 1
            BY <2>2, <3>0, <5>1, <5>3
          <6>2. QED
            BY <2>2, <6>1
        <5>4. (i = 1 => k = p) /\ i >= 1
          BY <3>0, <5>1
        <5>5. QED
          BY <5>2, <5>3, <5>4
      <4>4. QED
        <5> HIDE DEF k
        <5>1. QED
          BY <3>0, <4>1, <4>2, <4>3
    <3>2. QED
      BY <3>1 DEF Answered
  <2>4. s \in Seq(MessageLine) /\ Answered(s)
    BY MessageTypes, AnsweredOne DEF MessageRoles
  <2>5. Compacted(h) = s \o t
    BY <1>2 DEF Compacted
  <2>6. s \in Seq(Line) /\ t \in Seq(Line)
    BY <2>2, <2>4, MessageTypes
  <2> HIDE DEF s, t
  <2>7. QED
    BY <2>3, <2>4, <2>5, <2>6, AnsweredJoined
<1>3. QED
  BY <1>1, <1>2

\* What a file's checkpoints can be gone back to is kept as far as its lines are; what
\* follows adds no checkpoint that can be gone back to.
LEMMA GoodPart ==
    ASSUME NEW f \in Seq(Line), NEW g \in Seq(Line), Good(f),
           NEW n \in Nat, n <= Len(f), n <= Len(g),
           \A i \in 1 .. n : g[i] = f[i],
           \A i \in n + 1 .. Len(g) : ~IsCheckpoint(g[i]) \/ ~NoJunk(g, i - 1)
    PROVE  Good(g)
<1> SUFFICES ASSUME NEW i \in DOMAIN g, IsCheckpoint(g[i]), NoJunk(g, i - 1)
             PROVE  Sound(SubSeq(g, 1, i - 1), g[i].n)
  BY DEF Good
<1>1. i \in 1 .. Len(g) /\ Len(g) \in Nat /\ Len(f) \in Nat
  OBVIOUS
<1>2. i \in 1 .. n
  BY <1>1
<1>3. i \in DOMAIN f /\ g[i] = f[i] /\ NoJunk(f, i - 1)
  BY <1>1, <1>2 DEF NoJunk
<1>4. Sound(SubSeq(f, 1, i - 1), f[i].n)
  BY <1>3 DEF Good
<1>5. SubSeq(f, 1, i - 1) = SubSeq(g, 1, i - 1)
  BY <1>1, <1>2
<1>6. QED
  BY <1>3, <1>4, <1>5

\* A checkpoint numbered as it is where it is written can be gone back to.
LEMMA GoodCheckpoint ==
    ASSUME NEW f \in Seq(Line), NEW n \in Nat, Good(f), Intact(f) => Sound(f, n)
    PROVE  Good(Append(f, CheckpointLine(n)))
<1> DEFINE l == CheckpointLine(n)
           g == Append(f, l)
<1>0. l \in Line /\ IsCheckpoint(l) /\ l.n = n
  BY LineTypes
<1> HIDE DEF l
<1>1. /\ g \in Seq(Line) /\ Len(g) = Len(f) + 1 /\ Len(f) \in Nat /\ g[Len(f) + 1] = l
      /\ \A i \in 1 .. Len(f) : g[i] = f[i]
      /\ SubSeq(g, 1, Len(f)) = f
  BY <1>0
<1> HIDE DEF g
<1> SUFFICES ASSUME NEW i \in DOMAIN g, IsCheckpoint(g[i]), NoJunk(g, i - 1)
             PROVE  Sound(SubSeq(g, 1, i - 1), g[i].n)
  BY DEF Good, g, l
<1>2. i \in 1 .. Len(f) + 1
  BY <1>1
<1>3. CASE i = Len(f) + 1
  <2>1. i - 1 = Len(f)
    BY <1>1, <1>3
  <2>2. Intact(f)
    BY <1>1, <2>1 DEF NoJunk, Intact, Spoilt
  <2>3. QED
    BY <1>0, <1>1, <1>3, <2>1, <2>2
<1>4. CASE i # Len(f) + 1
  <2>1. i \in DOMAIN f /\ g[i] = f[i] /\ NoJunk(f, i - 1)
    BY <1>1, <1>2, <1>4 DEF NoJunk
  <2>2. Sound(SubSeq(f, 1, i - 1), f[i].n)
    BY <2>1 DEF Good
  <2>3. SubSeq(f, 1, i - 1) = SubSeq(g, 1, i - 1)
    BY <1>1, <1>2, <1>4
  <2>4. QED
    BY <2>1, <2>2, <2>3
<1>5. QED
  BY <1>3, <1>4

\* All checkpoints up to the last are there.
LEMMA AllEarlier ==
    ASSUME NEW f \in Seq(Line), Good(f), Intact(f)
    PROVE  NextOf(f) \in Nat /\ Earlier(f, NextOf(f))
<1>1. CASE CheckpointsIn(f) = {}
  BY <1>1, NextIs DEF Earlier
<1>2. CASE CheckpointsIn(f) # {}
  <2> DEFINE k == Max(CheckpointsIn(f))
  <2>1. k \in CheckpointsIn(f) /\ NextOf(f) = f[k].n + 1
    BY <1>2, NextIs
  <2> HIDE DEF k
  <2>2. k \in DOMAIN f /\ IsCheckpoint(f[k]) /\ f[k] \in Line /\ k \in 1 .. Len(f)
    BY <2>1 DEF CheckpointsIn
  <2>3. f[k] = CheckpointLine(f[k].n) /\ f[k].n \in Nat
    BY <2>2, LineTypes
  <2>4. NoJunk(f, k - 1)
    BY <2>2 DEF NoJunk, Intact, Spoilt
  <2>5. Earlier(SubSeq(f, 1, k - 1), f[k].n)
    BY <2>2, <2>4 DEF Good, Sound
  <2>6. ASSUME NEW m \in 0 .. NextOf(f) - 1
        PROVE  \E j \in DOMAIN f : f[j] = CheckpointLine(m)
    <3>1. CASE m = f[k].n
      BY <2>2, <2>3, <3>1
    <3>2. CASE m # f[k].n
      <4>1. m \in 0 .. f[k].n - 1
        BY <2>1, <2>3, <3>2
      <4>2. PICK j \in DOMAIN SubSeq(f, 1, k - 1) : SubSeq(f, 1, k - 1)[j] = CheckpointLine(m)
        BY <2>5, <4>1 DEF Earlier
      <4>3. j \in DOMAIN f /\ f[j] = SubSeq(f, 1, k - 1)[j]
        BY <2>2
      <4>4. QED
        BY <4>2, <4>3
    <3>3. QED
      BY <3>1, <3>2
  <2>7. QED
    BY <2>1, <2>3, <2>6 DEF Earlier
<1>3. QED
  BY <1>1, <1>2

---------------------------------------------------------------------------------
(* Types. *)

OpNames == {"checkpoint", "append", "usage", "clear", "revert"}

\* What the soul asks for, operation by operation.
LEMMA OpTypes ==
    /\ \A op \in OpNames \ {"append"}, n \in Nat :
          /\ Do(op, n) \in Asked /\ Do(op, n).op = op /\ Do(op, n).n = n /\ ~Do(op, n).soft
          /\ Do(op, n) \in Whole
    /\ \A ms \in Seq(MessageLine) :
          /\ Appends(ms) \in Asked /\ Appends(ms).op = "append" /\ Appends(ms).lines = ms
          /\ ~Appends(ms).soft
          /\ Answered(ms) => Appends(ms) \in Whole
    /\ \A n \in Nat : LET u == [Usage(n) EXCEPT !.soft = TRUE] IN u \in Whole /\ u.op = "usage"
<1>1. ASSUME NEW op \in OpNames \ {"append"}, NEW n \in Nat
      PROVE  /\ Do(op, n) \in Asked /\ Do(op, n).op = op /\ Do(op, n).n = n /\ ~Do(op, n).soft
             /\ Do(op, n) \in Whole
  <2>1. <<>> \in Seq(Line)
    OBVIOUS
  <2>2. QED
    BY <2>1 DEF Do, Asked, Whole, Op, OpNames
<1>2. ASSUME NEW ms \in Seq(MessageLine)
      PROVE  /\ Appends(ms) \in Asked /\ Appends(ms).op = "append" /\ Appends(ms).lines = ms
             /\ ~Appends(ms).soft
             /\ Answered(ms) => Appends(ms) \in Whole
  <2>1. ms \in Seq(Line)
    BY MessageTypes
  <2>2. Appends(ms) = [op |-> "append", lines |-> ms, n |-> 0, soft |-> FALSE]
    <3> DEFINE d == Do("append", 0)
    <3>1. d \in [op : {"append"}, lines : Seq(Line), n : Nat, soft : BOOLEAN]
      BY DEF Do
    <3>2. d.n = 0 /\ d.soft = FALSE
      BY DEF Do
    <3> HIDE DEF d
    <3>3. [d EXCEPT !.lines = ms] = [op |-> "append", lines |-> ms, n |-> d.n, soft |-> d.soft]
      BY <3>1
    <3>4. QED
      BY <3>2, <3>3 DEF Appends, d
  <2>3. QED
    BY <2>1, <2>2 DEF Asked, Whole, Op
<1>3. ASSUME NEW n \in Nat
      PROVE  LET u == [Usage(n) EXCEPT !.soft = TRUE] IN u \in Whole /\ u.op = "usage"
  <2> DEFINE d == Usage(n)
  <2>1. d \in [op : {"usage"}, lines : Seq(Line), n : Nat, soft : BOOLEAN]
    BY DEF Usage, Do
  <2> HIDE DEF d
  <2>2. [d EXCEPT !.soft = TRUE] \in [op : {"usage"}, lines : Seq(Line), n : Nat, soft : BOOLEAN]
    BY <2>1
  <2>3. QED
    BY <2>2 DEF Asked, Whole, Op, d
<1>4. QED
  BY <1>1, <1>2, <1>3

\* What keeps calls and results together is asked for, and that is an operation.
LEMMA WholeIsAsked == Whole \subseteq Asked /\ Asked \subseteq Op
  BY DEF Whole, Asked

\* The plans of a soul.
LEMMA Plans ==
    ASSUME LoopTypes
    PROVE  /\ Compaction \in Seq(Asked)
           /\ Answered(history) => Compaction \in Seq(Whole)
           /\ <<Do("checkpoint", 0)>> \in Seq(Whole)
           /\ Compaction \o <<Do("checkpoint", 0)>> \in Seq(Asked)
           /\ Answered(history) => Compaction \o <<Do("checkpoint", 0)>> \in Seq(Whole)
           /\ \A role \in {"user", "mail"} :
                 <<Do("checkpoint", 0), Appends(<<Message(role)>>)>> \in Seq(Whole)
           /\ <<Do("clear", 0)>> \in Seq(Whole)
           /\ \A n \in Nat : <<Do("revert", n)>> \in Seq(Whole)
<1>1. history \in Seq(MessageLine)
  BY DEF LoopTypes
<1>2. Do("clear", 0) \in Whole /\ Do("checkpoint", 0) \in Whole
  BY OpTypes DEF OpNames
<1>3. \A n \in Nat : Do("revert", n) \in Whole
  BY OpTypes DEF OpNames
<1>4. \A role \in {"user", "mail"} : Appends(<<Message(role)>>) \in Whole
  <2>1. ASSUME NEW role \in {"user", "mail"} PROVE Appends(<<Message(role)>>) \in Whole
    <3>1. Message(role) \in MessageLine /\ Message(role) \in Line /\ Message(role).role = role
      BY MessageTypes DEF MessageRoles
    <3>2. <<Message(role)>> \in Seq(MessageLine)
      BY <3>1
    <3>3. Answered(<<Message(role)>>)
      BY <3>1, AnsweredOne
    <3>4. QED
      BY <3>2, <3>3, OpTypes
  <2>2. QED
    BY <2>1
<1>5. Appends(Compacted(history)) \in Asked
  <2>1. Compacted(history) \in Seq(MessageLine)
    BY <1>1, CompactedType
  <2>2. QED
    BY <2>1, OpTypes
<1>6. Answered(history) => Appends(Compacted(history)) \in Whole
  BY <1>1, CompactedType, AnsweredCompacted, OpTypes
<1> DEFINE a == Appends(Compacted(history))
           c == Do("clear", 0)
           k == Do("checkpoint", 0)
<1>7. Compaction = <<c, k, a>>
  BY DEF Compaction
<1>8. c \in Whole /\ k \in Whole /\ c \in Asked /\ k \in Asked /\ a \in Asked
  BY <1>2, <1>5, WholeIsAsked
<1> HIDE DEF a, c, k
<1>9. <<c, k, a>> \in Seq(Asked) /\ <<c, k, a>> \o <<k>> \in Seq(Asked)
  BY <1>8
<1>10. Answered(history) => <<c, k, a>> \in Seq(Whole) /\ <<c, k, a>> \o <<k>> \in Seq(Whole)
  BY <1>6, <1>8 DEF a
<1>11. <<k>> \in Seq(Whole) /\ <<c>> \in Seq(Whole)
  BY <1>8
<1>12. \A role \in {"user", "mail"} : <<k, Appends(<<Message(role)>>)>> \in Seq(Whole)
  BY <1>4, <1>8
<1>13. QED
  BY <1>3, <1>7, <1>9, <1>10, <1>11, <1>12 DEF c, k

\* What is known of an operation under way.
LEMMA AskedParts ==
    ASSUME LoopTypes, plan # <<>>
    PROVE  /\ Tail(plan) \in Seq(Asked) /\ Len(Tail(plan)) = Len(plan) - 1
           /\ Len(plan) \in Nat \ {0}
           /\ Head(plan) \in Asked /\ Head(plan).n \in Nat /\ Head(plan).lines \in Seq(Line)
           /\ Head(plan).op = "append" => Head(plan).lines \in Seq(MessageLine)
           /\ Head(plan).soft => Head(plan).op = "usage"
           /\ Head(plan) = plan[1]
<1>1. plan \in Seq(Asked)
  BY DEF LoopTypes
<1>2. Head(plan) \in Asked /\ Tail(plan) \in Seq(Asked) /\ Len(Tail(plan)) = Len(plan) - 1
      /\ Len(plan) \in Nat \ {0} /\ Head(plan) = plan[1]
  BY <1>1
<1>3. QED
  BY <1>2 DEF Asked, Op

\* The message of a checkpoint is put behind it.
LEMMA MarkPlan ==
    ASSUME LoopTypes, plan # <<>>, NEW n \in Nat
    PROVE  /\ Appends(<<Mark(n)>>) \in Whole
           /\ <<Head(plan), Appends(<<Mark(n)>>)>> \o Tail(plan) \in Seq(Asked)
           /\ <<Head(plan), Appends(<<Mark(n)>>)>> \o Tail(plan) # <<>>
           /\ Head(<<Head(plan), Appends(<<Mark(n)>>)>> \o Tail(plan)) = Head(plan)
           /\ plan \in Seq(Whole) =>
                  <<Head(plan), Appends(<<Mark(n)>>)>> \o Tail(plan) \in Seq(Whole)
<1> DEFINE a == Appends(<<Mark(n)>>)
           h == Head(plan)
           t == Tail(plan)
<1>1. a \in Whole
  <2>1. Mark(n) \in MessageLine /\ Mark(n) \in Line /\ Mark(n).role = "mark"
    BY MessageTypes
  <2>2. <<Mark(n)>> \in Seq(MessageLine) /\ Answered(<<Mark(n)>>)
    BY <2>1, AnsweredOne
  <2>3. QED
    BY <2>2, OpTypes
<1>2. a \in Asked
  BY <1>1, WholeIsAsked
<1>3. h \in Asked /\ t \in Seq(Asked) /\ (plan \in Seq(Whole) => h \in Whole /\ t \in Seq(Whole))
  BY AskedParts
<1> HIDE DEF a, h, t
<1>4. <<h, a>> \o t \in Seq(Asked) /\ <<h, a>> \o t # <<>> /\ Head(<<h, a>> \o t) = h
  BY <1>2, <1>3
<1>5. h \in Whole /\ t \in Seq(Whole) => <<h, a>> \o t \in Seq(Whole)
  BY <1>1
<1>6. QED
  BY <1>1, <1>3, <1>4, <1>5 DEF a, h, t

\* A file whose last line is overwritten.
LEMMA LastReplaced ==
    ASSUME NEW f \in Seq(Line), NEW l \in Line
    PROVE  LET g == [f EXCEPT ![Len(f)] = l]
           IN /\ g \in Seq(Line) /\ Len(g) = Len(f) /\ DOMAIN g = DOMAIN f
              /\ \A i \in 1 .. Len(f) - 1 : g[i] = f[i]
              /\ f # <<>> => g[Len(f)] = l /\ Len(f) \in 1 .. Len(g)
<1> DEFINE n == Len(f)
           g == [f EXCEPT ![n] = l]
<1>1. n \in Nat /\ (f # <<>> => n # 0) /\ f \in [1 .. n -> Line]
  OBVIOUS
<1>2. DOMAIN f = 1 .. n
  OBVIOUS
<1> HIDE DEF n
<1>3. g \in [1 .. n -> Line]
  BY <1>1
<1>4. \A i \in 1 .. n - 1 : g[i] = f[i]
  BY <1>1, <1>2
<1>5. n # 0 => g[n] = l
  BY <1>1, <1>2
<1> HIDE DEF g
<1>6. g \in Seq(Line)
  BY <1>1, <1>3
<1>7. Len(g) = n /\ DOMAIN g = 1 .. n
  BY <1>1, <1>3
<1>8. n # 0 => n \in 1 .. n
  BY <1>1
<1>9. QED
  BY <1>1, <1>2, <1>4, <1>5, <1>6, <1>7, <1>8 DEF n, g

\* Steps of the context.
LEMMA ContextTypes ==
    ASSUME LoopTypes, OpInv, Context
    PROVE  ContextTypeOK' /\ history' \in Seq(MessageLine) /\ plan' \in Seq(Asked) /\ plan # <<>>
<1>0. /\ ContextTypeOK /\ history \in Seq(MessageLine) /\ plan \in Seq(Asked)
      /\ Asked \subseteq Op /\ Seq(MessageLine) \subseteq Seq(Line)
  BY WholeIsAsked, MessageTypes DEF LoopTypes, LoopTypeOK
<1>1. plan # <<>>
  BY <1>0 DEF Context, ContextTypeOK, Checkpoint, AppendMessages, UpdateTokenCount, WriteNothing,
              WriteLine, WriteNewline, RotateToClear, RotateToRevert, ForgetToRevert, Create,
              CopyLine, CopyNewline, CopyEnds, FailSoftly, Doing
<1>2. /\ Head(plan).n \in Nat /\ Head(plan).lines \in Seq(Line) /\ Tail(plan) \in Seq(Asked)
      /\ Head(plan).op = "append" => Head(plan).lines \in Seq(MessageLine)
  BY <1>1, AskedParts
<1>3. plan' \in Seq(Asked) /\ (plan' = <<>> => at' = "start")
  <2>1. plan' = plan \/ (plan' = Tail(plan) /\ at' = "start") \/ Checkpoint
    BY DEF Context, AppendMessages, UpdateTokenCount, WriteNothing, WriteLine, WriteNewline,
           RotateToClear, RotateToRevert, ForgetToRevert, Create, CopyLine, CopyNewline, CopyEnds,
           FailSoftly, GiveUp, Done
  <2>2. CASE plan' = plan \/ (plan' = Tail(plan) /\ at' = "start")
    BY <1>0, <1>1, <1>2, <2>2
  <2>3. CASE Checkpoint
    BY <1>0, <1>1, <2>3, MarkPlan DEF Checkpoint, ContextTypeOK
  <2>4. QED
    BY <2>1, <2>2, <2>3
<1>4. at' \in {"start", "open", "newline", "more", "forget", "create", "copy", "copied"}
      /\ torn' \in BOOLEAN /\ tail' \in {"none", "whole", "late", "placed", "open"}
  BY <1>0 DEF Context, ContextTypeOK, Checkpoint, AppendMessages, UpdateTokenCount, WriteNothing,
              WriteLine, WriteNewline, RotateToClear, RotateToRevert, ForgetToRevert, Create,
              CopyLine, CopyNewline, CopyEnds, FailSoftly, GiveUp, Done, Forget, WriteHere,
              PutBehind, PutUnder, memoryVars, diskVars
<1>5. /\ history' \in Seq(MessageLine) /\ tokenCount' \in Nat /\ nextCheckpoint' \in Nat
      /\ source' \in Seq(Line) /\ due' \in Seq(Line) /\ file' \in Seq(Line)
  <2> USE <1>0 DEF ContextTypeOK
  <2>1. CASE Checkpoint
    <3>1. <<CheckpointLine(nextCheckpoint)>> \in Seq(Line)
      BY LineTypes
    <3>2. QED
      BY <2>1, <3>1 DEF Checkpoint, diskVars
  <2>2. CASE AppendMessages
    BY <1>2, <2>2 DEF AppendMessages, diskVars, Doing
  <2>3. CASE UpdateTokenCount
    <3>1. <<UsageLine(Head(plan).n)>> \in Seq(Line)
      BY <1>2, LineTypes
    <3>2. QED
      BY <1>2, <2>3, <3>1 DEF UpdateTokenCount, diskVars
  <2>4. CASE WriteLine
    <3>1. Head(due) \in Line /\ Tail(due) \in Seq(Line)
      BY <2>4 DEF WriteLine
    <3>2. Junk \in Line
      BY LineTypes
    <3>3. /\ Append(file, Head(due)) \in Seq(Line) /\ Append(file, Junk) \in Seq(Line)
      BY <3>1, <3>2
    <3>4. [file EXCEPT ![Len(file)] = Junk] \in Seq(Line)
      BY <3>2, LastReplaced
    <3>5. QED
      BY <2>4, <3>1, <3>3, <3>4 DEF WriteLine, WriteHere, PutBehind, PutUnder, memoryVars
  <2>5. CASE WriteNothing \/ WriteNewline \/ RotateToClear \/ RotateToRevert \/ ForgetToRevert
             \/ Create \/ CopyEnds \/ FailSoftly
    <3>1. <<>> \in Seq(Line) /\ <<>> \in Seq(MessageLine)
      OBVIOUS
    <3>2. /\ history' \in {history, <<>>} /\ tokenCount' \in {tokenCount, 0}
          /\ nextCheckpoint' \in {nextCheckpoint, 0} /\ source' \in {source, <<>>, file}
          /\ due' \in {due, <<>>} /\ file' \in {file, <<>>}
      BY <2>5 DEF WriteNothing, WriteNewline, RotateToClear, RotateToRevert, ForgetToRevert,
                 Create, CopyEnds, FailSoftly, GiveUp, Done, Forget, memoryVars, diskVars
    <3>3. history' \in Seq(MessageLine) /\ source' \in Seq(Line) /\ due' \in Seq(Line)
      BY <3>1, <3>2
    <3>4. file' \in Seq(Line)
      BY <3>1, <3>2
    <3>5. tokenCount \in Nat /\ nextCheckpoint \in Nat
      OBVIOUS
    <3>6. tokenCount' \in Nat /\ nextCheckpoint' \in Nat
      BY <3>2, <3>5
    <3>7. QED
      BY <3>3, <3>4, <3>6
  <2>6. CASE CopyLine
    <3>1. Append(file, Head(source)) \in Seq(Line)
      BY <2>6 DEF CopyLine
    <3>2. QED
      BY <2>6, <3>1 DEF CopyLine, WriteHere, memoryVars
  <2>7. CASE CopyNewline
    <3>1. Head(source) \in Line /\ Tail(source) \in Seq(Line)
      BY <2>7 DEF CopyNewline, OpInv
    <3> DEFINE l == Head(source)
    <3>2. /\ IsMessage(l) => Append(history, l) \in Seq(MessageLine)
          /\ l.n \in Nat
      <4> HIDE DEF l
      <4>1. IsMessage(l) => l \in MessageLine
        BY <3>1 DEF MessageLine, l
      <4>2. l.n \in Nat
        BY <3>1 DEF Line, l
      <4>3. QED
        BY <4>1, <4>2
    <3>3. QED
      BY <2>7, <3>1, <3>2 DEF CopyNewline
  <2>8. QED
    BY <2>1, <2>2, <2>3, <2>4, <2>5, <2>6, <2>7 DEF Context
<1>6. QED
  BY <1>0, <1>1, <1>3, <1>4, <1>5 DEF ContextTypeOK

\* Steps of the soul.
LEMMA AnswerPlan ==
    ASSUME LoopTypes
    PROVE  /\ Answer \in Asked /\ Results \in Asked /\ Usage(said.total) \in Asked
           /\ Answer.op = "append" /\ Results.op = "append" /\ Usage(said.total).op = "usage"
           /\ Answer.lines = <<Message(IF said.calls THEN "calls" ELSE "assistant")>>
           /\ Results.lines = IF said.calls THEN <<Message("tools")>> ELSE <<>>
           /\ ~Usage(said.total).soft /\ ~Answer.soft /\ ~Results.soft
           /\ <<Answer>> \o <<>> \o <<Results>> = <<Answer, Results>>
           /\ <<Answer>> \o <<Usage(said.total)>> \o <<Results>> =
                 <<Answer, Usage(said.total), Results>>
           /\ <<Answer, Results>> \in Seq(Asked)
           /\ <<Answer, Usage(said.total), Results>> \in Seq(Asked)
<1>1. said.total \in Nat /\ said.calls \in BOOLEAN
  BY LoopAssumption DEF LoopTypes, LoopTypeOK, Reply
<1> DEFINE ms == <<Message(IF said.calls THEN "calls" ELSE "assistant")>>
           ts == IF said.calls THEN <<Message("tools")>> ELSE <<>>
<1>2. ms \in Seq(MessageLine) /\ ts \in Seq(MessageLine)
  <2>1. Message("calls") \in MessageLine /\ Message("assistant") \in MessageLine
        /\ Message("tools") \in MessageLine
    BY MessageTypes DEF MessageRoles
  <2>2. QED
    BY <2>1
<1>3. Answer = Appends(ms) /\ Results = Appends(ts)
  BY DEF Answer, Results
<1> HIDE DEF ms, ts
<1>4. /\ Answer \in Asked /\ Answer.op = "append" /\ Answer.lines = ms /\ ~Answer.soft
      /\ Results \in Asked /\ Results.op = "append" /\ Results.lines = ts /\ ~Results.soft
  BY <1>2, <1>3, OpTypes
<1>5. /\ Usage(said.total) \in Asked /\ Usage(said.total).op = "usage"
      /\ ~Usage(said.total).soft
  BY <1>1, OpTypes DEF Usage, OpNames
<1> DEFINE a == Answer
           u == Usage(said.total)
           r == Results
<1>6. a \in Asked /\ u \in Asked /\ r \in Asked
  BY <1>4, <1>5
<1> HIDE DEF a, u, r
<1>7. /\ <<a>> \o <<>> \o <<r>> = <<a, r>> /\ <<a>> \o <<u>> \o <<r>> = <<a, u, r>>
      /\ <<a, r>> \in Seq(Asked) /\ <<a, u, r>> \in Seq(Asked)
  <2>0. <<a>> \in Seq(Asked)
    BY <1>6
  <2>1. <<a>> \o <<>> = <<a>>
    BY <2>0, JoinNothing, Zenon
  <2>2. <<a>> \o <<r>> = <<a, r>>
    BY <1>6, PairJoined, Zenon
  <2>3. <<a>> \o <<u>> = <<a, u>>
    BY <1>6, PairJoined, Zenon
  <2>4. <<a, u>> \o <<r>> = <<a, u, r>>
    BY <1>6, TripleJoined, Zenon
  <2>5. <<a, r>> \in Seq(Asked) /\ <<a, u, r>> \in Seq(Asked)
    BY <1>6
  <2>6. <<a>> \o <<>> \o <<r>> = <<a, r>>
    BY <2>1, <2>2, Zenon
  <2>7. <<a>> \o <<u>> \o <<r>> = <<a, u, r>>
    BY <2>3, <2>4, Zenon
  <2>8. QED
    BY <2>5, <2>6, <2>7
<1>8. QED
  BY <1>4, <1>5, <1>7 DEF a, u, r, ms, ts

\* The soul's steps leave the context's types alone.
LEMMA GoesOnTypes ==
    ASSUME LoopTypes, NEW from, NEW to, NEW ops \in Seq(Asked), GoesOn(from, to, ops)
    PROVE  ContextTypeOK' /\ history' \in Seq(MessageLine) /\ plan' \in Seq(Asked)
<1>1. ops \in Seq(Op)
  <2>1. Asked \subseteq Op
    BY WholeIsAsked
  <2>2. QED
    BY <2>1
<1>2. QED
  BY <1>1 DEF LoopTypes, LoopTypeOK, ContextTypeOK, GoesOn, memoryVars, diskVars

\* What a turn records.
LEMMA Records ==
    ASSUME LoopTypes, GrowContext
    PROVE  /\ plan' = <<Answer, Results>> \/ plan' = <<Answer, Usage(said.total), Results>>
           /\ GoesOn("results", "verdict", plan')
<1> DEFINE ops == <<Appends(<<Message(IF said.calls THEN "calls" ELSE "assistant")>>)>>
                    \o (IF said.total = 0 THEN <<>> ELSE <<Usage(said.total)>>)
                    \o <<Appends(IF said.calls THEN <<Message("tools")>> ELSE <<>>)>>
<1>1. GoesOn("results", "verdict", ops)
  BY DEF GrowContext
<1>2. ops = <<Answer>> \o (IF said.total = 0 THEN <<>> ELSE <<Usage(said.total)>>) \o <<Results>>
  BY Zenon DEF Answer, Results
<1> HIDE DEF ops
<1>3. plan' = ops
  BY <1>1 DEF GoesOn
<1>4. ops = <<Answer, Results>> \/ ops = <<Answer, Usage(said.total), Results>>
  BY <1>2, AnswerPlan
<1>5. QED
  BY <1>1, <1>3, <1>4

Told(input, a) == IF a.total = 0 THEN <<>> ELSE <<[Usage(input) EXCEPT !.soft = TRUE]>>

\* The usage told after an answer is one operation, or none.
LEMMA ToldType ==
    ASSUME NEW a \in Reply, NEW input \in 1 .. MaxTokens
    PROVE  Told(input, a) \in Seq(Whole)
<1>1. input \in Nat
  BY LoopAssumption
<1>2. [Usage(input) EXCEPT !.soft = TRUE] \in Whole
  BY <1>1, OpTypes
<1>3. QED
  BY <1>2 DEF Told

\* Every step but the context's keeps the types.
LEMMA SoulTypes ==
    ASSUME LoopTypes, LoopNext, ~DoContext
    PROVE  LoopTypes'
<1> USE DEF LoopTypes
<1>0. /\ LoopTypeOK /\ ContextTypeOK /\ history \in Seq(MessageLine) /\ plan \in Seq(Asked)
      /\ MaxAsks \in Nat /\ MaxTurns \in Nat /\ MaxTokens \in Nat /\ turns \in Nat /\ steps \in Nat
  BY LoopAssumption DEF LoopTypeOK
<1>w. \A ops \in Seq(Whole) : ops \in Seq(Asked)
  <2>1. Whole \subseteq Asked
    BY WholeIsAsked
  <2>2. QED
    BY <2>1
<1>e. <<>> \in Seq(Asked) /\ Nothing \in Reply
  BY LoopAssumption DEF Nothing, Reply
<1> USE DEF LoopTypeOK, turnVars, mailVars
<1>1. CASE BeginTurn
  <2>1. <<Do("checkpoint", 0), Appends(<<Message("user")>>)>> \in Seq(Asked)
    BY <1>w, Plans
  <2>2. ContextTypeOK' /\ history' \in Seq(MessageLine) /\ plan' \in Seq(Asked)
    BY <1>1, <2>1, GoesOnTypes DEF BeginTurn
  <2>3. turns' \in 0 .. MaxTurns
    BY <1>0, <1>1 DEF BeginTurn
  <2>4. QED
    BY <1>0, <1>1, <2>2, <2>3 DEF BeginTurn, GoesOn
<1>2. CASE SlashClear \/ SlashCompact
  <2>1. <<Do("clear", 0)>> \in Seq(Asked) /\ Compaction \in Seq(Asked)
    BY <1>w, Plans
  <2>2. ContextTypeOK' /\ history' \in Seq(MessageLine) /\ plan' \in Seq(Asked)
    BY <1>2, <2>1, GoesOnTypes DEF SlashClear, SlashCompact
  <2>3. turns' \in 0 .. MaxTurns
    BY <1>0, <1>2 DEF SlashClear, SlashCompact
  <2>4. QED
    BY <1>0, <1>2, <2>2, <2>3 DEF SlashClear, SlashCompact, GoesOn
<1>3. CASE SlashEnds \/ CountCheckpoints \/ Rejected \/ AnotherStep \/ TurnDone
  <2>2. ContextTypeOK' /\ history' \in Seq(MessageLine) /\ plan' \in Seq(Asked)
    BY <1>3, <1>e, GoesOnTypes DEF SlashEnds, CountCheckpoints, Rejected, AnotherStep, TurnDone
  <2>3. plan' = <<>> /\ nextCheckpoint \in Nat
    BY <1>0, <1>3 DEF SlashEnds, CountCheckpoints, Rejected, AnotherStep, TurnDone, GoesOn,
                      ContextTypeOK
  <2>4. QED
    BY <1>0, <1>3, <1>e, <2>2, <2>3
       DEF SlashEnds, CountCheckpoints, Rejected, AnotherStep, TurnDone, GoesOn
<1>4. CASE AskModel
  <2>1. /\ Compaction \o <<Do("checkpoint", 0)>> \in Seq(Asked)
        /\ <<Do("checkpoint", 0)>> \in Seq(Asked)
    BY <1>w, Plans
  <2>2. <<>> \o <<Do("checkpoint", 0)>> = <<Do("checkpoint", 0)>>
    OBVIOUS
  <2> DEFINE ops == (IF tokenCount >= MaxTokens THEN Compaction ELSE <<>>) \o <<Do("checkpoint", 0)>>
  <2>3. ops \in Seq(Asked)
    BY <2>1, <2>2
  <2>4. PICK from \in {"begin", "next"} : GoesOn(from, "counting", ops)
    BY <1>4 DEF AskModel
  <2> HIDE DEF ops
  <2>5. ContextTypeOK' /\ history' \in Seq(MessageLine) /\ plan' \in Seq(Asked)
    BY <2>3, <2>4, GoesOnTypes
  <2>6. steps' \in 0 .. MaxAsks /\ steps' # 0
    BY <1>0, <1>4 DEF AskModel
  <2>7. QED
    BY <1>0, <1>4, <2>4, <2>5, <2>6 DEF AskModel, GoesOn
<1>5. CASE CallMail
  <2>1. calling' \in SUBSET StepIds
    BY <1>0, <1>5 DEF CallMail, StepIds
  <2>2. QED
    BY <1>0, <1>5, <2>1 DEF CallMail, contextVars, memoryVars, diskVars, opVars, ContextTypeOK
<1>6. CASE ModelAnswers
  <2>1. PICK a \in Reply, input \in 1 .. MaxTokens :
          said' = a /\ GoesOn("model", "results", Told(input, a))
    BY <1>6 DEF ModelAnswers, Told
  <2>2. Told(input, a) \in Seq(Asked)
    BY <1>w, ToldType
  <2>3. ContextTypeOK' /\ history' \in Seq(MessageLine) /\ plan' \in Seq(Asked)
    BY <2>1, <2>2, GoesOnTypes
  <2>4. QED
    BY <1>0, <1>6, <2>1, <2>3 DEF ModelAnswers, GoesOn
<1>7. CASE GrowContext
  <2>1. plan' \in Seq(Asked) /\ GoesOn("results", "verdict", plan')
    BY <1>7, Records, AnswerPlan
  <2>2. ContextTypeOK' /\ history' \in Seq(MessageLine)
    BY <2>1, GoesOnTypes
  <2>3. QED
    BY <1>0, <1>7, <2>1, <2>2 DEF GrowContext, GoesOn
<1>8. CASE Rewind
  <2>1. mail.to \in Nat
    BY <1>0, <1>8 DEF Rewind
  <2>2. <<Do("revert", mail.to)>> \in Seq(Asked)
    BY <1>w, <2>1, Plans
  <2>3. ContextTypeOK' /\ history' \in Seq(MessageLine) /\ plan' \in Seq(Asked)
    BY <1>8, <2>2, GoesOnTypes DEF Rewind
  <2>4. QED
    BY <1>0, <1>8, <1>e, <2>1, <2>3 DEF Rewind, GoesOn
<1>9. CASE DeliverMail
  <2>1. <<Do("checkpoint", 0), Appends(<<Message("mail")>>)>> \in Seq(Asked)
    BY <1>w, Plans
  <2>2. ContextTypeOK' /\ history' \in Seq(MessageLine) /\ plan' \in Seq(Asked)
    BY <1>9, <2>1, GoesOnTypes DEF DeliverMail
  <2>3. QED
    BY <1>0, <1>9, <2>2 DEF DeliverMail, GoesOn
<1>10. CASE Interrupt
  <2>1. <<>> \in Seq(Op) /\ <<>> \in Seq(Line)
    OBVIOUS
  <2>2. ContextTypeOK' /\ history' \in Seq(MessageLine) /\ plan' = <<>>
    BY <1>0, <1>10, <2>1 DEF Interrupt, GiveUp, ContextTypeOK, memoryVars, diskVars
  <2>3. QED
    BY <1>0, <1>10, <1>e, <2>2 DEF Interrupt
<1>11. CASE Restart
  <2>1. Readable(file) \in Seq(Line)
    BY <1>0, ReadableType DEF ContextTypeOK
  <2>2. /\ MessagesOf(Readable(file)) \in Seq(MessageLine) /\ TokensOf(Readable(file)) \in Nat
        /\ NextOf(Readable(file)) \in Nat
    BY <2>1, SaysTypes
  <2>3. <<>> \in Seq(Op) /\ <<>> \in Seq(Line)
    OBVIOUS
  <2>4. ContextTypeOK' /\ history' \in Seq(MessageLine) /\ plan' = <<>>
    BY <1>0, <1>11, <2>2, <2>3, MessageTypes DEF Restart, Restore, ContextTypeOK
  <2>5. QED
    BY <1>0, <1>11, <1>e, <2>4 DEF Restart
<1>12. CASE \E s \in StepIds : SendMail(s)
  <2>1. mail' \in [to : Nat, by : StepIds] \cup {NoMail} /\ calling' \in SUBSET StepIds
    BY <1>0, <1>12 DEF SendMail
  <2>2. QED
    BY <1>0, <1>12, <2>1 DEF SendMail, contextVars, memoryVars, diskVars, opVars, ContextTypeOK
<1>13. QED
  BY <1>1, <1>2, <1>3, <1>4, <1>5, <1>6, <1>7, <1>8, <1>9, <1>10, <1>11, <1>12 DEF LoopNext

---------------------------------------------------------------------------------
(* What every step keeps. *)

\* Every step does.
LEMMA TypesKept ==
    ASSUME LoopTypes, OpInv, [LoopNext]_soulVars
    PROVE  LoopTypes'
<1>1. CASE DoContext
  <2>1. ContextTypeOK' /\ history' \in Seq(MessageLine) /\ plan' \in Seq(Asked) /\ plan # <<>>
    BY <1>1, ContextTypes DEF DoContext
  <2>2. QED
    BY <1>1, <2>1 DEF DoContext, LoopTypes, LoopTypeOK, turnVars, mailVars
<1>2. CASE LoopNext /\ ~DoContext
  BY <1>2, SoulTypes
<1>3. CASE UNCHANGED soulVars
  BY <1>3 DEF LoopTypes, LoopTypeOK, ContextTypeOK, soulVars, contextVars, memoryVars, diskVars,
              opVars, turnVars, mailVars
<1>4. QED
  BY <1>1, <1>2, <1>3

\* What a step of the context does to the plan.
LEMMA PlanSteps ==
    ASSUME Context
    PROVE  \/ plan' = plan
           \/ plan' = Tail(plan) /\ at' = "start"
           \/ /\ Doing("checkpoint")
              /\ plan' = <<Head(plan), Appends(<<Mark(nextCheckpoint)>>)>> \o Tail(plan)
  BY DEF Context, Checkpoint, AppendMessages, UpdateTokenCount, WriteNothing, WriteLine,
         WriteNewline, RotateToClear, RotateToRevert, ForgetToRevert, Create, CopyLine,
         CopyNewline, CopyEnds, FailSoftly, GiveUp, Done

\* What the tail of a plan holds is in the plan.
LEMMA TailOf ==
    ASSUME NEW p \in Seq(Asked), p # <<>>
    PROVE  \A i \in DOMAIN Tail(p) : i + 1 \in DOMAIN p /\ Tail(p)[i] = p[i + 1]
  OBVIOUS

\* What is left of recording an answer.
LEMMA RecordingTail ==
    ASSUME Recording, plan # <<>>
    PROVE  /\ Tail(plan) \in {<<>>, <<Results>>, <<Usage(said.total), Results>>}
           /\ Head(plan) \in {Answer, Usage(said.total), Results}
<1> DEFINE a == Answer
           u == Usage(said.total)
           t == Results
<1>1. plan = <<t>> \/ plan = <<u, t>> \/ plan = <<a, t>> \/ plan = <<a, u, t>>
  BY DEF Recording
<1> HIDE DEF a, u, t
<1>2. CASE plan = <<t>>
  <2>1. Tail(plan) = <<>> /\ Head(plan) = t
    BY <1>2
  <2>2. QED
    BY <2>1 DEF a, u, t
<1>3. CASE plan = <<u, t>>
  <2>1. Tail(plan) = <<t>> /\ Head(plan) = u
    BY <1>3
  <2>2. QED
    BY <2>1 DEF a, u, t
<1>4. CASE plan = <<a, t>>
  <2>1. Tail(plan) = <<t>> /\ Head(plan) = a
    BY <1>4
  <2>2. QED
    BY <2>1 DEF a, u, t
<1>5. CASE plan = <<a, u, t>>
  <2>1. Tail(plan) = <<u, t>> /\ Head(plan) = a
    BY <1>5
  <2>2. QED
    BY <2>1 DEF a, u, t
<1>6. QED
  BY <1>1, <1>2, <1>3, <1>4, <1>5

\* The context does what is planned, and puts a message behind a checkpoint.
LEMMA PlanKeptByContext ==
    ASSUME LoopTypes, OpInv, PlanInv, DoContext
    PROVE  PlanInv'
<1>0. /\ soul' = soul /\ said' = said /\ back' = back /\ plan # <<>> /\ plan \in Seq(Asked)
      /\ Context /\ nextCheckpoint \in Nat
  BY ContextTypes DEF DoContext, turnVars, LoopTypes, LoopTypeOK, ContextTypeOK
<1>1. /\ Answer' = Answer /\ Results' = Results
  BY <1>0 DEF Answer, Results
<1>2. CASE plan' = plan
  BY <1>0, <1>1, <1>2 DEF PlanInv, Recording
<1>3. CASE plan' = Tail(plan)
  <2>1. soul = "verdict" => Recording'
    <3> SUFFICES ASSUME soul = "verdict" PROVE Recording'
      OBVIOUS
    <3>1. Recording
      BY DEF PlanInv
    <3>2. QED
      BY <1>0, <1>1, <1>3, <3>1, RecordingTail DEF Recording
  <2>2. soul = "rewound" => plan' = <<>>
    <3> SUFFICES ASSUME soul = "rewound" PROVE plan' = <<>>
      OBVIOUS
    <3> DEFINE o == Do("revert", back)
    <3>1. plan = <<o>>
      BY <1>0 DEF PlanInv
    <3> HIDE DEF o
    <3>2. Tail(plan) = <<>>
      BY <3>1
    <3>3. QED
      BY <1>3, <3>2
  <2>3. soul # "rewound" => \A i \in DOMAIN plan' : plan'[i].op # "revert"
    BY <1>0, <1>3, TailOf DEF PlanInv
  <2>4. QED
    BY <1>0, <2>1, <2>2, <2>3 DEF PlanInv
<1>4. CASE /\ Doing("checkpoint")
           /\ plan' = <<Head(plan), Appends(<<Mark(nextCheckpoint)>>)>> \o Tail(plan)
  <2> DEFINE h == Head(plan)
             m == Appends(<<Mark(nextCheckpoint)>>)
             t == Tail(plan)
  <2>1. h.op = "checkpoint"
    BY <1>4 DEF Doing
  <2>2. soul # "verdict"
    <3> SUFFICES ASSUME soul = "verdict" PROVE FALSE
      OBVIOUS
    <3>1. Head(plan) \in {Answer, Usage(said.total), Results}
      BY <1>0, RecordingTail DEF PlanInv
    <3>2. QED
      BY <2>1, <3>1, AnswerPlan
  <2>3. soul # "rewound"
    <3> SUFFICES ASSUME soul = "rewound" PROVE FALSE
      OBVIOUS
    <3> DEFINE o == Do("revert", back)
    <3>1. plan = <<o>>
      BY <1>0 DEF PlanInv
    <3>2. o.op = "revert"
      BY DEF Do
    <3> HIDE DEF o
    <3>3. Head(plan) = o
      BY <3>1
    <3>4. QED
      BY <2>1, <3>2, <3>3
  <2>4. m.op = "append" /\ m \in Asked
    <3>1. <<Mark(nextCheckpoint)>> \in Seq(MessageLine)
      BY <1>0, MessageTypes
    <3>2. QED
      BY <3>1, OpTypes
  <2>5. /\ h \in Asked /\ t \in Seq(Asked) /\ h.op # "revert"
        /\ \A i \in DOMAIN t : t[i].op # "revert"
    BY <1>0, <2>1, <2>3, TailOf DEF PlanInv
  <2>6. plan' = <<h, m>> \o t
    BY <1>4
  <2> HIDE DEF h, m, t
  <2>7. \A i \in DOMAIN (<<h, m>> \o t) : (<<h, m>> \o t)[i].op # "revert"
    <3> DEFINE s == <<h, m>>
    <3>1. s \in Seq(Asked) /\ \A i \in DOMAIN s : s[i].op # "revert"
      BY <2>4, <2>5
    <3> HIDE DEF s
    <3>2. \A i \in DOMAIN (s \o t) :
             \/ i \in DOMAIN s /\ (s \o t)[i] = s[i]
             \/ i - Len(s) \in DOMAIN t /\ (s \o t)[i] = t[i - Len(s)]
      BY <2>5, <3>1
    <3>3. QED
      BY <2>5, <3>1, <3>2 DEF s
  <2>8. \A i \in DOMAIN plan' : plan'[i].op # "revert"
    BY <2>6, <2>7
  <2>9. QED
    BY <1>0, <2>2, <2>3, <2>8 DEF PlanInv
<1>5. QED
  BY <1>0, <1>2, <1>3, <1>4, PlanSteps

\* A plan of the soul's own has no rewind in it.
NoRevert(p) == \A i \in DOMAIN p : p[i].op # "revert"

\* So are all plans but that of a rewind.
LEMMA NoReverts ==
    ASSUME LoopTypes
    PROVE  /\ NoRevert(Compaction) /\ NoRevert(<<Do("checkpoint", 0)>>)
           /\ NoRevert(Compaction \o <<Do("checkpoint", 0)>>)
           /\ \A role \in {"user", "mail"} :
                 NoRevert(<<Do("checkpoint", 0), Appends(<<Message(role)>>)>>)
           /\ NoRevert(<<Do("clear", 0)>>) /\ NoRevert(<<>>)
           /\ NoRevert(<<Answer, Results>>) /\ NoRevert(<<Answer, Usage(said.total), Results>>)
           /\ \A a \in Reply, input \in 1 .. MaxTokens : NoRevert(Told(input, a))
<1> DEFINE c == Do("clear", 0)
           k == Do("checkpoint", 0)
           a == Appends(Compacted(history))
           w == Answer
           u == Usage(said.total)
           t == Results
<1>1. c.op = "clear" /\ k.op = "checkpoint" /\ c \in Asked /\ k \in Asked
  BY OpTypes DEF OpNames
<1>2. a.op = "append" /\ a \in Asked
  BY CompactedType, OpTypes DEF LoopTypes
<1>3. w.op = "append" /\ u.op = "usage" /\ t.op = "append"
  BY AnswerPlan
<1>4. \A role \in {"user", "mail"} : Appends(<<Message(role)>>).op = "append"
  <2>1. ASSUME NEW role \in {"user", "mail"} PROVE Appends(<<Message(role)>>).op = "append"
    <3>1. <<Message(role)>> \in Seq(MessageLine)
      BY MessageTypes DEF MessageRoles
    <3>2. QED
      BY <3>1, OpTypes
  <2>2. QED
    BY <2>1
<1>5. ASSUME NEW b \in Reply, NEW input \in 1 .. MaxTokens PROVE NoRevert(Told(input, b))
  <2> DEFINE e == [Usage(input) EXCEPT !.soft = TRUE]
  <2>1. input \in Nat
    BY LoopAssumption
  <2>2. e.op = "usage"
    BY <2>1, OpTypes
  <2>3. Told(input, b) = <<>> \/ Told(input, b) = <<e>>
    BY DEF Told
  <2> HIDE DEF e
  <2>4. NoRevert(<<e>>) /\ NoRevert(<<>>)
    BY <2>2 DEF NoRevert
  <2>5. QED
    BY <2>3, <2>4
<1>6. Compaction = <<c, k, a>>
  BY DEF Compaction
<1> HIDE DEF c, k, a, w, u, t
<1>7. NoRevert(<<c, k, a>>) /\ NoRevert(<<k>>) /\ NoRevert(<<c>>) /\ NoRevert(<<>>)
  BY <1>1, <1>2 DEF NoRevert
<1>8. NoRevert(<<c, k, a>> \o <<k>>)
  <2> DEFINE s == <<c, k, a>>
             e == <<k>>
  <2>1. s \in Seq(Asked) /\ e \in Seq(Asked)
    BY <1>1, <1>2
  <2>2. NoRevert(s) /\ NoRevert(e)
    BY <1>7
  <2> HIDE DEF s, e
  <2>3. \A i \in DOMAIN (s \o e) :
           \/ i \in DOMAIN s /\ (s \o e)[i] = s[i]
           \/ i - Len(s) \in DOMAIN e /\ (s \o e)[i] = e[i - Len(s)]
    BY <2>1
  <2>4. QED
    BY <2>2, <2>3 DEF NoRevert, s, e
<1>9. NoRevert(<<w, t>>) /\ NoRevert(<<w, u, t>>)
  BY <1>3 DEF NoRevert
<1>10. \A role \in {"user", "mail"} : NoRevert(<<k, Appends(<<Message(role)>>)>>)
  BY <1>1, <1>4 DEF NoRevert
<1>11. QED
  BY <1>5, <1>6, <1>7, <1>8, <1>9, <1>10 DEF c, k, w, u, t

\* The soul plans what its state allows.
LEMMA PlanKeptBySoul ==
    ASSUME LoopTypes, PlanInv, LoopNext, ~DoContext
    PROVE  PlanInv'
<1>1. CASE BeginTurn \/ SlashClear \/ SlashCompact \/ SlashEnds \/ AskModel \/ CountCheckpoints
           \/ DeliverMail \/ AnotherStep \/ Rejected \/ TurnDone \/ ModelAnswers
  <2>1. soul' \notin {"verdict", "rewound"}
    BY <1>1 DEF BeginTurn, SlashClear, SlashCompact, SlashEnds, AskModel, CountCheckpoints,
                DeliverMail, AnotherStep, Rejected, TurnDone, ModelAnswers, GoesOn
  <2>2. NoRevert(plan')
    <3>1. CASE BeginTurn \/ SlashClear \/ SlashCompact \/ SlashEnds \/ CountCheckpoints
           \/ DeliverMail \/ AnotherStep \/ Rejected \/ TurnDone
      BY <3>1, NoReverts DEF BeginTurn, SlashClear, SlashCompact, SlashEnds, CountCheckpoints,
                DeliverMail, AnotherStep, Rejected, TurnDone, GoesOn
    <3>2. CASE AskModel
      <4>1. <<>> \o <<Do("checkpoint", 0)>> = <<Do("checkpoint", 0)>>
        OBVIOUS
      <4>2. plan' = (IF tokenCount >= MaxTokens THEN Compaction ELSE <<>>) \o <<Do("checkpoint", 0)>>
        BY <3>2 DEF AskModel, GoesOn
      <4>3. QED
        BY <4>1, <4>2, NoReverts
    <3>3. CASE ModelAnswers
      BY <3>3, NoReverts DEF ModelAnswers, GoesOn, Told
    <3>4. QED
      BY <1>1, <3>1, <3>2, <3>3
  <2>3. QED
    BY <2>1, <2>2 DEF PlanInv, NoRevert
<1>2. CASE GrowContext
  <2>1. /\ plan' = <<Answer, Results>> \/ plan' = <<Answer, Usage(said.total), Results>>
        /\ soul' = "verdict" /\ said' = said
    BY <1>2, Records DEF GoesOn, GrowContext, turnVars
  <2>2. Answer' = Answer /\ Results' = Results
    BY <2>1 DEF Answer, Results
  <2>3. Recording'
    BY <2>1, <2>2 DEF Recording
  <2>4. NoRevert(plan')
    BY <2>1, NoReverts
  <2>5. QED
    BY <2>1, <2>3, <2>4 DEF PlanInv, NoRevert
<1>3. CASE Rewind
  BY <1>3 DEF Rewind, GoesOn, PlanInv
<1>4. CASE CallMail \/ \E s \in StepIds : SendMail(s)
  <2>1. UNCHANGED <<plan, soul, said, back>>
    BY <1>4 DEF CallMail, SendMail, turnVars, contextVars, opVars
  <2>2. Answer' = Answer /\ Results' = Results
    BY <2>1 DEF Answer, Results
  <2>3. QED
    BY <2>1, <2>2 DEF PlanInv, Recording
<1>5. CASE Interrupt \/ Restart
  <2>1. plan' = <<>> /\ soul' = "idle"
    BY <1>5 DEF Interrupt, Restart, Restore
  <2>2. QED
    BY <2>1, NoReverts DEF PlanInv, NoRevert
<1>6. QED
  BY <1>1, <1>2, <1>3, <1>4, <1>5 DEF LoopNext

\* Every step keeps the shape of the plan.
LEMMA PlanKept ==
    ASSUME LoopTypes, OpInv, PlanInv, [LoopNext]_soulVars
    PROVE  PlanInv'
<1>1. CASE UNCHANGED soulVars
  <2>1. UNCHANGED <<plan, soul, said, back>>
    BY <1>1 DEF soulVars, turnVars, contextVars, opVars
  <2>2. Answer' = Answer /\ Results' = Results
    BY <2>1 DEF Answer, Results
  <2>3. QED
    BY <2>1, <2>2 DEF PlanInv, Recording
<1>2. QED
  BY <1>1, PlanKeptByContext, PlanKeptBySoul

\* The soul's steps find and leave the context between two operations.
SoulStep == /\ UNCHANGED <<history, tokenCount, nextCheckpoint, file, tail, due, source, torn>>
            /\ \/ plan = <<>> /\ at = "start" /\ at' = "start"
               \/ UNCHANGED <<plan, at>>

\* Every step of the soul is one, but for what cuts it.
LEMMA SoulSteps ==
    ASSUME LoopTypes, LoopNext, ~DoContext, ~Interrupt, ~Restart
    PROVE  SoulStep
<1> USE DEF SoulStep, GoesOn, memoryVars, diskVars, opVars, contextVars
<1>0. plan = <<>> => at = "start"
  BY DEF LoopTypes, LoopTypeOK, ContextTypeOK
<1>1. CASE BeginTurn \/ SlashClear \/ SlashCompact \/ SlashEnds \/ AskModel
  BY <1>0, <1>1 DEF BeginTurn, SlashClear, SlashCompact, SlashEnds, AskModel
<1>2. CASE CountCheckpoints \/ DeliverMail \/ AnotherStep \/ Rejected \/ TurnDone
  BY <1>0, <1>2 DEF CountCheckpoints, DeliverMail, AnotherStep, Rejected, TurnDone
<1>3. CASE ModelAnswers \/ GrowContext \/ Rewind
  BY <1>0, <1>3 DEF ModelAnswers, GrowContext, Rewind
<1>4. CASE CallMail \/ \E s \in StepIds : SendMail(s)
  BY <1>4 DEF CallMail, SendMail
<1>5. QED
  BY <1>1, <1>2, <1>3, <1>4 DEF LoopNext

\* An operation goes from one place to the next.
LEMMA OpKeptByContext ==
    ASSUME LoopTypes, OpInv, PlanInv, DoContext
    PROVE  OpInv'
<1>0. Context /\ plan # <<>> /\ ContextTypeOK
  BY ContextTypes DEF DoContext, LoopTypes, LoopTypeOK
<1>1. /\ Head(plan).n \in Nat /\ Head(plan).lines \in Seq(Line)
      /\ Head(plan).soft => Head(plan).op = "usage"
  BY <1>0, AskedParts
<1> USE DEF OpInv, Writing, Copying, Doing, ContextTypeOK
<1>2. CASE Checkpoint
  <2>1. plan' # <<>> /\ Head(plan') = Head(plan)
    BY <1>0, <1>2, MarkPlan DEF Checkpoint
  <2>2. QED
    BY <1>2, <2>1 DEF Checkpoint, diskVars
<1>3. CASE AppendMessages
  BY <1>3 DEF AppendMessages, diskVars
<1>4. CASE UpdateTokenCount
  BY <1>4 DEF UpdateTokenCount, diskVars
<1>5. CASE WriteNothing
  BY <1>5 DEF WriteNothing, Done, memoryVars, diskVars
<1>6. CASE WriteLine
  <2>1. file' # <<>>
    <3>1. Head(due) \in Line /\ Junk \in Line
      BY <1>0, <1>6, LineTypes DEF WriteLine
    <3>2. Append(file, Head(due)) # <<>> /\ Append(file, Junk) # <<>>
      BY <1>0, <3>1, LineAppended
    <3>3. file # <<>> => [file EXCEPT ![Len(file)] = Junk] # <<>>
      <4>1. Len([file EXCEPT ![Len(file)] = Junk]) = Len(file)
        BY <1>0, <3>1, LastReplaced
      <4>2. QED
        BY <1>0, <4>1
    <3>4. QED
      BY <1>6, <3>2, <3>3 DEF WriteLine, WriteHere, PutBehind, PutUnder
  <2>2. Doing("usage") => due' = <<>>
    <3>1. Doing("usage") => due = <<UsageLine(Head(plan).n)>>
      BY <1>6 DEF WriteLine
    <3>2. Tail(<<UsageLine(Head(plan).n)>>) = <<>>
      OBVIOUS
    <3>3. QED
      BY <1>6, <3>1, <3>2 DEF WriteLine
  <2>3. QED
    BY <1>6, <2>1, <2>2 DEF WriteLine, memoryVars
<1>7. CASE WriteNewline
  BY <1>7 DEF WriteNewline, Done, memoryVars
<1>8. CASE RotateToClear
  BY <1>8 DEF RotateToClear, memoryVars
<1>9. CASE RotateToRevert
  BY <1>9 DEF RotateToRevert, memoryVars
<1>10. CASE ForgetToRevert
  BY <1>10 DEF ForgetToRevert, Forget, diskVars
<1>11. CASE Create
  BY <1>11 DEF Create, Forget, Done, memoryVars
<1>12. CASE CopyLine
  <2>1. Head(source) \in Line
    BY <1>0, <1>12 DEF CopyLine
  <2>2. Append(file, Head(source)) # <<>> /\ Last(Append(file, Head(source))) = Head(source)
    <3> DEFINE l == Head(source)
               g == Append(file, l)
    <3>1. l \in Line /\ file \in Seq(Line)
      BY <1>0, <2>1
    <3> HIDE DEF l
    <3>2. g # <<>> /\ Len(g) = Len(file) + 1 /\ g[Len(file) + 1] = l
      BY <3>1, LineAppended
    <3> HIDE DEF g
    <3>3. Last(g) = l
      BY <3>2 DEF Last
    <3>4. QED
      BY <3>2, <3>3 DEF g, l
  <2>3. QED
    BY <1>12, <2>2 DEF CopyLine, WriteHere, memoryVars
<1>13. CASE CopyNewline
  BY <1>13 DEF CopyNewline
<1>14. CASE CopyEnds
  BY <1>14 DEF CopyEnds, Done, memoryVars, diskVars
<1>15. CASE FailSoftly
  BY <1>15 DEF FailSoftly, GiveUp, memoryVars, diskVars
<1>16. QED
  BY <1>0, <1>2, <1>3, <1>4, <1>5, <1>6, <1>7, <1>8, <1>9, <1>10, <1>11, <1>12, <1>13, <1>14, <1>15
     DEF Context

\* Every step keeps where it is, and what it has in hand.
LEMMA OpKept ==
    ASSUME LoopTypes, OpInv, PlanInv, [LoopNext]_soulVars
    PROVE  OpInv'
<1>1. CASE SoulStep \/ UNCHANGED soulVars
  <2>1. CASE plan = <<>> /\ at = "start" /\ at' = "start"
    BY <1>1, <2>1 DEF SoulStep, OpInv, Writing, Copying, soulVars, contextVars, memoryVars, diskVars,
                      opVars
  <2>2. CASE UNCHANGED <<plan, at>>
    BY <1>1, <2>2 DEF SoulStep, OpInv, Writing, Copying, Doing, soulVars, contextVars, memoryVars,
                      diskVars, opVars
  <2>3. QED
    BY <1>1, <2>1, <2>2 DEF SoulStep, soulVars, contextVars, opVars
<1>2. CASE Interrupt
  BY <1>2 DEF Interrupt, GiveUp, OpInv, Writing, Copying, memoryVars, diskVars
<1>3. CASE Restart
  BY <1>3 DEF Restart, Restore, OpInv, Writing, Copying
<1>4. QED
  BY <1>1, <1>2, <1>3, OpKeptByContext, SoulSteps

\* The file says what the memory does.
LEMMA FileKept ==
    ASSUME LoopTypes, OpInv, PlanInv, FileCatchesUp, [LoopNext]_soulVars
    PROVE  FileCatchesUp'
<1>0. /\ ContextTypeOK /\ file \in Seq(Line) /\ due \in Seq(Line) /\ source \in Seq(Line)
      /\ history \in Seq(MessageLine)
  BY DEF LoopTypes, LoopTypeOK, ContextTypeOK
<1> SUFFICES ASSUME ~torn', Intact(file')
             PROVE  ReadsAs(IF at = "copied" THEN Front(file) ELSE file \o due)'
  BY Zenon DEF FileCatchesUp
<1>e. file \o <<>> = file /\ <<>> \o <<>> = <<>>
  <2>1. <<>> \in Seq(Line)
    OBVIOUS
  <2>2. QED
    BY <1>0, <2>1, JoinNothing, Zenon
<1>1. CASE SoulStep \/ UNCHANGED soulVars
  <2>1. UNCHANGED <<history, tokenCount, nextCheckpoint, file, due, torn>> /\ (at' = at)
    BY <1>1 DEF SoulStep, soulVars, contextVars, memoryVars, diskVars, opVars
  <2>2. QED
    BY <2>1 DEF FileCatchesUp, ReadsAs
<1>2. CASE Interrupt
  <2>1. /\ UNCHANGED <<history, tokenCount, nextCheckpoint, file>> /\ due' = <<>> /\ at' = "start"
        /\ due = <<>> /\ at # "copied" /\ ~torn
    BY <1>2 DEF Interrupt, GiveUp, Tears, memoryVars, diskVars
  <2>2. QED
    BY <2>1 DEF FileCatchesUp, ReadsAs
<1>3. CASE Restart
  <2>1. /\ file' = file /\ due' = <<>> /\ at' = "start" /\ Intact(file)
        /\ history' = MessagesOf(Readable(file)) /\ tokenCount' = TokensOf(Readable(file))
        /\ nextCheckpoint' = NextOf(Readable(file))
    BY <1>3 DEF Restart, Restore
  <2>2. Readable(file) = file
    BY <1>0, <2>1, ReadsItAll
  <2>3. QED
    BY <1>e, <2>1, <2>2 DEF ReadsAs
<1>4. CASE DoContext
  <2>0. Context /\ plan # <<>>
    BY <1>4, ContextTypes DEF DoContext
  <2>p. /\ Head(plan).n \in Nat /\ Head(plan).lines \in Seq(Line)
        /\ Head(plan).op = "append" => Head(plan).lines \in Seq(MessageLine)
    BY <2>0, AskedParts
  <2>1. CASE Checkpoint
    <3> DEFINE l == CheckpointLine(nextCheckpoint)
    <3>1. /\ history' = history /\ tokenCount' = tokenCount /\ nextCheckpoint' = nextCheckpoint + 1
          /\ file' = file /\ due = <<>> /\ due' = <<l>> /\ at = "start" /\ at' = "open" /\ torn' = torn
      BY <2>1 DEF Checkpoint, diskVars, OpInv, Writing
    <3>2. /\ l \in Line /\ IsCheckpoint(l) /\ ~IsMessage(l) /\ ~IsUsage(l) /\ l.n = nextCheckpoint
      BY <1>0, LineTypes DEF ContextTypeOK
    <3> HIDE DEF l
    <3>3. ReadsAs(file)
      BY <1>e, <3>1 DEF FileCatchesUp
    <3>4. file \o <<l>> = Append(file, l)
      BY <1>0, <3>2
    <3>5. QED
      BY <1>0, <3>1, <3>2, <3>3, <3>4, ReadsOneMore, CountsOneMore DEF ReadsAs
  <2>2. CASE AppendMessages
    <3> DEFINE ms == Head(plan).lines
    <3>1. /\ history' = history \o ms /\ tokenCount' = tokenCount /\ nextCheckpoint' = nextCheckpoint
          /\ file' = file /\ due = <<>> /\ due' = ms /\ at = "start" /\ at' = "open" /\ torn' = torn
      BY <2>2 DEF AppendMessages, diskVars, OpInv, Writing
    <3>2. ms \in Seq(MessageLine)
      BY <2>2, <2>p DEF AppendMessages, Doing
    <3> HIDE DEF ms
    <3>3. ReadsAs(file)
      BY <1>e, <3>1 DEF FileCatchesUp
    <3>4. QED
      BY <1>0, <3>1, <3>2, <3>3, ReadsMore DEF ReadsAs
  <2>3. CASE UpdateTokenCount
    <3> DEFINE l == UsageLine(Head(plan).n)
    <3>1. /\ history' = history /\ tokenCount' = Head(plan).n /\ nextCheckpoint' = nextCheckpoint
          /\ file' = file /\ due = <<>> /\ due' = <<l>> /\ at = "start" /\ at' = "open" /\ torn' = torn
      BY <2>3 DEF UpdateTokenCount, diskVars, OpInv, Writing
    <3>2. /\ l \in Line /\ IsUsage(l) /\ ~IsMessage(l) /\ ~IsCheckpoint(l) /\ l.n = Head(plan).n
      BY <2>p, LineTypes
    <3> HIDE DEF l
    <3>3. ReadsAs(file)
      BY <1>e, <3>1 DEF FileCatchesUp
    <3>4. file \o <<l>> = Append(file, l)
      BY <1>0, <3>2
    <3>5. QED
      BY <1>0, <3>1, <3>2, <3>3, <3>4, ReadsOneMore, CountsOneMore DEF ReadsAs
  <2>4. CASE WriteNothing \/ WriteNewline \/ RotateToClear \/ RotateToRevert \/ CopyEnds
    <3>1. /\ UNCHANGED <<history, tokenCount, nextCheckpoint, due>> /\ (~torn' => ~torn /\ file' = file)
          /\ at # "copied" /\ at' # "copied"
      BY <2>4 DEF WriteNothing, WriteNewline, RotateToClear, RotateToRevert, CopyEnds, Done,
                  memoryVars, diskVars
    <3>2. QED
      BY <3>1 DEF FileCatchesUp, ReadsAs
  <2>5. CASE WriteLine
    <3>1. /\ UNCHANGED <<history, tokenCount, nextCheckpoint, torn>> /\ due' = Tail(due) /\ due # <<>>
          /\ at # "copied" /\ at' # "copied"
      BY <2>5 DEF WriteLine, memoryVars
    <3>2. Head(due) \in Line /\ Tail(due) \in Seq(Line) /\ Junk \in Line
      BY <1>0, <3>1, LineTypes
    <3>3. ~(PutBehind /\ tail \in {"open", "late"}) /\ ~PutUnder
      <4>1. ASSUME PutBehind, tail \in {"open", "late"} PROVE FALSE
        <5>1. file # <<>>
          BY <4>1 DEF OpInv
        <5>2. file'[Len(file)] = Junk /\ Len(file) \in DOMAIN file'
          BY <1>0, <3>2, <4>1, <5>1, LastReplaced DEF PutBehind
        <5>3. QED
          BY <5>2 DEF Intact, Spoilt
      <4>2. ASSUME PutUnder PROVE FALSE
        <5>1. file'[Len(file) + 1] = Junk /\ Len(file) + 1 \in DOMAIN file'
          BY <1>0, <3>2, <4>2 DEF PutUnder
        <5>2. QED
          BY <5>1 DEF Intact, Spoilt
      <4>3. QED
        BY <4>1, <4>2
    <3>4. WriteHere(Head(due))
      BY <2>5, <3>3 DEF WriteLine
    <3>5. file' = Append(file, Head(due))
      BY <3>4 DEF WriteHere
    <3>6. Append(file, Head(due)) \o Tail(due) = file \o due
      BY <1>0, <3>1, LineMoved, Zenon
    <3>7. Intact(file)
      <4>1. /\ \A i \in 1 .. Len(file) : file'[i] = file[i]
            /\ Len(file') = Len(file) + 1 /\ Len(file) \in Nat
        BY <1>0, <3>2, <3>5, LineAppended
      <4>2. \A i \in DOMAIN file : i \in DOMAIN file' /\ file'[i] = file[i]
        BY <1>0, <3>2, <3>5, <4>1
      <4>3. QED
        BY <4>2 DEF Intact, Spoilt
    <3>8. QED
      BY <3>1, <3>5, <3>6, <3>7 DEF FileCatchesUp, ReadsAs
  <2>6. CASE ForgetToRevert \/ Create
    <3>1. /\ file = <<>> /\ file' = <<>> /\ due = <<>> /\ due' = <<>> /\ at' # "copied"
          /\ at # "copied"
      BY <2>6 DEF ForgetToRevert, Create, OpInv, Writing, diskVars, Done
    <3>2. CASE ForgetToRevert \/ (Create /\ Doing("clear"))
      <4>1. history' = <<>> /\ tokenCount' = 0 /\ nextCheckpoint' = 0
        BY <2>0, <3>2 DEF ForgetToRevert, Create, Forget, Doing
      <4>2. MessagesOf(<<>>) = <<>> /\ TokensOf(<<>>) = 0 /\ NextOf(<<>>) = 0
        BY NothingSaid
      <4>3. file' \o due' = <<>>
        BY <1>e, <3>1
      <4>4. QED
        BY <3>1, <4>1, <4>2, <4>3 DEF ReadsAs
    <3>3. CASE Create /\ ~Doing("clear")
      <4>1. UNCHANGED <<history, tokenCount, nextCheckpoint, torn>>
        BY <3>3 DEF Create, memoryVars
      <4>2. QED
        BY <3>1, <4>1 DEF FileCatchesUp, ReadsAs
    <3>4. QED
      BY <2>6, <3>2, <3>3
  <2>7. CASE CopyLine
    <3>1. /\ UNCHANGED <<history, tokenCount, nextCheckpoint, torn>> /\ due = <<>>
          /\ file' = Append(file, Head(source)) /\ at = "copy" /\ at' = "copied"
      BY <2>7 DEF CopyLine, WriteHere, memoryVars, OpInv, Writing
    <3>2. Head(source) \in Line
      BY <1>0, <2>7 DEF CopyLine
    <3>3. Front(file') = file
      BY <1>0, <3>1, <3>2 DEF Front
    <3>4. Intact(file)
      <4>1. /\ \A i \in 1 .. Len(file) : file'[i] = file[i]
            /\ Len(file') = Len(file) + 1 /\ Len(file) \in Nat
        BY <1>0, <3>1, <3>2, LineAppended
      <4>2. \A i \in DOMAIN file : i \in DOMAIN file' /\ file'[i] = file[i]
        BY <1>0, <3>1, <3>2, <4>1
      <4>3. QED
        BY <4>2 DEF Intact, Spoilt
    <3>5. ReadsAs(file)
      BY <1>e, <3>1, <3>4 DEF FileCatchesUp
    <3>6. QED
      BY <3>1, <3>3, <3>5 DEF ReadsAs
  <2>8. CASE CopyNewline
    <3> DEFINE l == Head(source)
               f == Front(file)
    <3>1. /\ history' = IF IsMessage(l) THEN Append(history, l) ELSE history
          /\ tokenCount' = IF IsUsage(l) THEN l.n ELSE tokenCount
          /\ nextCheckpoint' = IF IsCheckpoint(l) THEN l.n + 1 ELSE nextCheckpoint
          /\ file' = file /\ due' = <<>> /\ at = "copied" /\ at' = "copy" /\ torn' = torn
      BY <2>8 DEF CopyNewline, OpInv, Writing
    <3>2. /\ l \in Line /\ f \in Seq(Line) /\ file = Append(f, l)
      <4>1. source # <<>> /\ file # <<>> /\ Last(file) = Head(source)
        BY <3>1 DEF OpInv
      <4>2. l \in Line
        BY <1>0, <4>1
      <4>3. SubSeq(file, 1, Len(file) - 1) \in Seq(Line)
            /\ file = Append(SubSeq(file, 1, Len(file) - 1), file[Len(file)])
        BY <1>0, <4>1
      <4>4. QED
        BY <4>1, <4>2, <4>3 DEF Front, Last
    <3>3. ReadsAs(f)
      BY <3>1 DEF FileCatchesUp
    <3> HIDE DEF l, f
    <3>4. QED
      BY <1>e, <3>1, <3>2, <3>3, ReadsOneMore, CountsOneMore DEF ReadsAs
  <2>9. CASE FailSoftly
    <3>1. /\ UNCHANGED <<history, tokenCount, nextCheckpoint, file>> /\ due' = <<>> /\ at' = "start"
          /\ due = <<>> /\ at # "copied" /\ ~torn
      BY <2>9 DEF FailSoftly, GiveUp, Tears, memoryVars, diskVars
    <3>2. QED
      BY <3>1 DEF FileCatchesUp, ReadsAs
  <2>10. QED
    BY <2>0, <2>1, <2>2, <2>3, <2>4, <2>5, <2>6, <2>7, <2>8, <2>9 DEF Context
<1>5. QED
  BY <1>1, <1>2, <1>3, <1>4, SoulSteps

---------------------------------------------------------------------------------
(* What is in the file, with what is owed to it. *)

\* What is owed to a file, from a copy or an operation, joined to it.
LEMMA OwedParts ==
    ASSUME NEW f \in Seq(Line), NEW d \in Seq(Line)
    PROVE  /\ f \o (<<>> \o d) = f \o d /\ f \o (d \o <<>>) = f \o d
           /\ f \o (<<>> \o <<>>) = f /\ <<>> \o (d \o <<>>) = d
           /\ f \o d \in Seq(Line)
<1>1. <<>> \in Seq(Line)
  OBVIOUS
<1>2. <<>> \o d = d /\ d \o <<>> = d /\ <<>> \o <<>> = <<>> /\ f \o <<>> = f
  BY <1>1, JoinNothing, Zenon
<1>3. f \o d \in Seq(Line)
  OBVIOUS
<1>4. QED
  BY <1>2, <1>3, Zenon

\* A file ends with the line that was copied last.
LEMMA LastCopied ==
    ASSUME NEW f \in Seq(Line), f # <<>>
    PROVE  Front(f) \in Seq(Line) /\ f = Append(Front(f), Last(f))
<1>1. SubSeq(f, 1, Len(f) - 1) \in Seq(Line) /\ f = Append(SubSeq(f, 1, Len(f) - 1), f[Len(f)])
  OBVIOUS
<1>2. QED
  BY <1>1 DEF Front, Last

\* A line that goes to the file, or is renamed away with it, is still there.
LEMMA StoryStays ==
    ASSUME LoopTypes, OpInv,
           \/ WriteNothing \/ WriteNewline \/ RotateToRevert \/ ForgetToRevert \/ Create
           \/ CopyLine \/ CopyNewline \/ (WriteLine /\ WriteHere(Head(due)))
    PROVE  Story' = Story
<1>0. /\ file \in Seq(Line) /\ due \in Seq(Line) /\ source \in Seq(Line)
  BY DEF LoopTypes, LoopTypeOK, ContextTypeOK
<1>1. CASE WriteNothing \/ WriteNewline \/ ForgetToRevert \/ Create
  BY <1>1 DEF WriteNothing, WriteNewline, ForgetToRevert, Create, Story, diskVars, Done
<1>2. CASE RotateToRevert
  <2>1. /\ file' = <<>> /\ source' = file /\ at = "start" /\ at' = "forget"
        /\ due = <<>> /\ due' = <<>> /\ source = <<>>
    BY <1>2 DEF RotateToRevert, OpInv, Writing
  <2>2. Story = file \o (<<>> \o <<>>) /\ Story' = <<>> \o (file \o <<>>)
    BY <2>1 DEF Story
  <2>3. QED
    BY <1>0, <2>2, OwedParts, Zenon
<1>3. CASE CopyLine
  <2>1. /\ at = "copy" /\ at' = "copied" /\ file' = Append(file, Head(source)) /\ source # <<>>
        /\ UNCHANGED <<source, due>>
    BY <1>3 DEF CopyLine, WriteHere
  <2>2. Front(file') = file
    BY <1>0, <2>1, LineAppended
  <2>3. QED
    BY <2>1, <2>2 DEF Story
<1>4. CASE CopyNewline
  <2>1. /\ at = "copied" /\ at' = "copy" /\ file' = file /\ source' = Tail(source) /\ source # <<>>
        /\ due = <<>> /\ due' = <<>> /\ file # <<>> /\ Last(file) = Head(source)
    BY <1>4 DEF CopyNewline, OpInv, Writing
  <2> DEFINE f == Front(file)
  <2>2. f \in Seq(Line) /\ file = Append(f, Head(source))
    BY <1>0, <2>1, LastCopied
  <2>3. Tail(source) \in Seq(Line)
    BY <1>0, <2>1
  <2>4. Story = f \o (source \o <<>>) /\ Story' = file \o (Tail(source) \o <<>>)
    BY <2>1 DEF Story
  <2> HIDE DEF f
  <2>5. Story = f \o source /\ Story' = file \o Tail(source)
    BY <1>0, <2>2, <2>3, <2>4, OwedParts, Zenon
  <2>6. Append(f, Head(source)) \o Tail(source) = f \o source
    BY <1>0, <2>1, <2>2, LineMoved, Zenon
  <2>7. QED
    BY <2>2, <2>5, <2>6, Zenon
<1>5. CASE WriteLine /\ WriteHere(Head(due))
  <2>1. /\ at # "copied" /\ at' # "copied" /\ file' = Append(file, Head(due)) /\ due' = Tail(due)
        /\ due # <<>> /\ source = <<>> /\ source' = <<>>
    BY <1>5 DEF WriteLine, WriteHere, OpInv, Copying
  <2>2. Tail(due) \in Seq(Line) /\ Append(file, Head(due)) \in Seq(Line)
    BY <1>0, <2>1
  <2>3. Story = file \o (<<>> \o due) /\ Story' = Append(file, Head(due)) \o (<<>> \o Tail(due))
    BY <2>1 DEF Story
  <2>4. Story = file \o due /\ Story' = Append(file, Head(due)) \o Tail(due)
    BY <1>0, <2>2, <2>3, OwedParts, Zenon
  <2>5. QED
    BY <1>0, <2>1, <2>4, LineMoved, Zenon
<1>6. QED
  BY <1>1, <1>2, <1>3, <1>4, <1>5

\* A spoilt line ends what can be gone back to.
LEMMA GoodSpoilt ==
    ASSUME NEW f \in Seq(Line), NEW d \in Seq(Line), Good(f \o d),
           NEW g \in Seq(Line), NEW t \in Seq(Line), NEW n \in Nat,
           n <= Len(f), n + 1 <= Len(g), g[n + 1] = Junk, \A i \in 1 .. n : g[i] = f[i]
    PROVE  Good(g \o t)
<1> DEFINE a == f \o d
           b == g \o t
<1>1. /\ a \in Seq(Line) /\ Len(f) \in Nat /\ Len(f) <= Len(a)
      /\ \A i \in 1 .. Len(f) : a[i] = f[i]
  OBVIOUS
<1>2. /\ b \in Seq(Line) /\ Len(g) \in Nat /\ Len(g) <= Len(b)
      /\ \A i \in 1 .. Len(g) : b[i] = g[i]
  OBVIOUS
<1>3. Good(a)
  OBVIOUS
<1> HIDE DEF a, b
<1>4. \A i \in 1 .. n : b[i] = a[i]
  <2>1. \A i \in 1 .. n : i \in 1 .. Len(f) /\ i \in 1 .. Len(g)
    BY <1>1, <1>2
  <2>2. QED
    BY <1>1, <1>2, <2>1
<1>5. n <= Len(a) /\ n <= Len(b)
  BY <1>1, <1>2
<1>6. ASSUME NEW i \in n + 1 .. Len(b) PROVE ~IsCheckpoint(b[i]) \/ ~NoJunk(b, i - 1)
  <2>1. b[n + 1] = Junk
    BY <1>2
  <2>2. CASE i = n + 1
    BY <2>1, <2>2, LineTypes
  <2>3. CASE i # n + 1
    <3>1. n + 1 \in 1 .. i - 1
      BY <2>3, <1>2
    <3>2. QED
      BY <2>1, <3>1 DEF NoJunk
  <2>4. QED
    BY <2>2, <2>3
<1>7. Good(b)
  BY <1>1, <1>2, <1>3, <1>4, <1>5, <1>6, GoodPart
<1>8. QED
  BY <1>7 DEF b

\* A beginning, and what has no checkpoint behind it.
LEMMA GoodBeginning ==
    ASSUME NEW f \in Seq(Line), NEW d \in Seq(Line), Good(f \o d)
    PROVE  Good(f)
<1> DEFINE g == f \o d
<1>1. /\ g \in Seq(Line) /\ Len(f) <= Len(g) /\ Len(f) \in Nat
      /\ \A i \in 1 .. Len(f) : f[i] = g[i]
  OBVIOUS
<1>2. Good(g)
  OBVIOUS
<1> HIDE DEF g
<1>3. Len(f) <= Len(f) /\ \A i \in Len(f) + 1 .. Len(f) : ~IsCheckpoint(f[i]) \/ ~NoJunk(f, i - 1)
  BY <1>1
<1>4. QED
  BY <1>1, <1>2, <1>3, GoodPart, Zenon

\* Lines that are no checkpoints can follow.
LEMMA GoodMore ==
    ASSUME NEW f \in Seq(Line), NEW d \in Seq(Line), Good(f),
           \A i \in 1 .. Len(d) : ~IsCheckpoint(d[i])
    PROVE  Good(f \o d)
<1> DEFINE g == f \o d
<1>1. /\ g \in Seq(Line) /\ Len(f) <= Len(g) /\ Len(f) \in Nat /\ Len(d) \in Nat
      /\ Len(g) = Len(f) + Len(d)
      /\ \A i \in 1 .. Len(f) : g[i] = f[i]
      /\ \A i \in Len(f) + 1 .. Len(f) + Len(d) : g[i] = d[i - Len(f)]
  OBVIOUS
<1> HIDE DEF g
<1>2. ASSUME NEW i \in Len(f) + 1 .. Len(g) PROVE ~IsCheckpoint(g[i])
  <2>1. i - Len(f) \in 1 .. Len(d) /\ g[i] = d[i - Len(f)]
    BY <1>1
  <2>2. QED
    BY <2>1
<1>3. Len(f) <= Len(f)
  BY <1>1
<1>4. Good(g)
  BY <1>1, <1>2, <1>3, GoodPart, Zenon
<1>5. QED
  BY <1>4 DEF g

\* Between two operations the file is all there is.
LEMMA StoryBetween ==
    ASSUME LoopTypes, OpInv
    PROVE  /\ Story \in Seq(Line)
           /\ at \notin {"copied", "forget", "create", "copy"} => Story = file \o due
           /\ at # "copied" /\ due = <<>> => Story = file \o source
           /\ at = "start" => Story = file
<1>0. file \in Seq(Line) /\ due \in Seq(Line) /\ source \in Seq(Line)
  BY DEF LoopTypes, LoopTypeOK, ContextTypeOK
<1>1. CASE at = "copied"
  <2>1. due = <<>> /\ file # <<>>
    BY <1>1 DEF OpInv, Writing
  <2>2. Front(file) \in Seq(Line)
    BY <1>0, <2>1, LastCopied
  <2>3. Front(file) \o (source \o <<>>) = Front(file) \o source /\ Front(file) \o source \in Seq(Line)
    BY <1>0, <2>2, OwedParts
  <2>4. QED
    BY <1>1, <2>1, <2>3 DEF Story
<1>2. CASE at \in {"forget", "create", "copy"}
  <2>1. due = <<>>
    BY <1>2 DEF OpInv, Writing
  <2>2. file \o (source \o <<>>) = file \o source /\ file \o source \in Seq(Line)
    BY <1>0, OwedParts
  <2>3. QED
    BY <1>2, <2>1, <2>2 DEF Story
<1>3. CASE at \notin {"copied", "forget", "create", "copy"}
  <2>1. source = <<>> /\ (at = "start" => due = <<>>)
    BY <1>3 DEF OpInv, Writing, Copying
  <2>2. file \o (<<>> \o due) = file \o due /\ file \o due \in Seq(Line) /\ file \o (<<>> \o <<>>) = file
    BY <1>0, OwedParts
  <2>3. due = <<>> => file \o due = file \o source
    BY <2>1
  <2>4. Story = file \o (<<>> \o due)
    BY <1>3, <2>1 DEF Story
  <2>5. QED
    BY <1>3, <2>1, <2>2, <2>3, <2>4
<1>4. QED
  BY <1>1, <1>2, <1>3

\* Every step of the context keeps its checkpoints such that one can go back to them.
LEMMA GoodKept ==
    ASSUME LoopTypes, OpInv, PlanInv, StoryInv, DoContext
    PROVE  Good(Story)'
<1>0. /\ file \in Seq(Line) /\ due \in Seq(Line) /\ source \in Seq(Line) /\ Context /\ plan # <<>>
      /\ nextCheckpoint \in Nat /\ Good(Story) /\ Remembers /\ AnswerInv
      /\ Head(plan).n \in Nat
      /\ Head(plan).op = "append" => Head(plan).lines \in Seq(MessageLine)
  BY ContextTypes, AskedParts DEF DoContext, LoopTypes, LoopTypeOK, ContextTypeOK, StoryInv
<1>1. CASE \/ WriteNothing \/ WriteNewline \/ RotateToRevert \/ ForgetToRevert \/ Create
           \/ CopyLine \/ CopyNewline \/ (WriteLine /\ WriteHere(Head(due)))
  <2>1. Story' = Story
    BY <1>1, StoryStays, Zenon
  <2>2. QED
    BY <1>0, <2>1, Zenon
<1>2. CASE Checkpoint
  <2> DEFINE l == CheckpointLine(nextCheckpoint)
  <2>1. /\ file' = file /\ at = "start" /\ at' = "open" /\ due = <<>> /\ due' = <<l>>
        /\ source = <<>> /\ source' = <<>> /\ Doing("checkpoint")
    BY <1>2 DEF Checkpoint, diskVars, OpInv, Writing, Copying
  <2>2. l \in Line /\ <<l>> \in Seq(Line)
    BY <1>0, LineTypes
  <2>3. Story' = file \o (<<>> \o <<l>>)
    BY <2>1 DEF Story
  <2>4. file \o (<<>> \o <<l>>) = file \o <<l>>
    <3> HIDE DEF l
    <3>1. QED
      BY <1>0, <2>2, OwedParts, Zenon
  <2>5. file \o <<l>> = Append(file, l)
    BY <1>0, <2>2
  <2>6. Good(file)
    BY <1>0, <2>1, StoryBetween
  <2>7. ASSUME Intact(file) PROVE Sound(file, nextCheckpoint)
    <3>1. Tells(file)
      <4>1. file \o due = file
        BY <1>0, <2>1, JoinNothing
      <4>2. QED
        BY <1>0, <2>1, <2>7, <4>1 DEF Remembers
    <3>2. soul # "verdict"
      <4>1. ASSUME soul = "verdict" PROVE FALSE
        <5>1. Head(plan) \in {Answer, Usage(said.total), Results}
          BY <1>0, <4>1, RecordingTail DEF PlanInv
        <5>2. QED
          BY <2>1, <5>1, AnswerPlan DEF Doing
      <4>2. QED
        BY <4>1
    <3>3. Answered(history)
      BY <1>0, <2>1, <3>2 DEF AnswerInv, Copying
    <3>4. Earlier(file, NextOf(file))
      BY <1>0, <2>6, <2>7, AllEarlier
    <3>5. QED
      BY <3>1, <3>3, <3>4 DEF Sound, Tells
  <2>8. Good(Append(file, l))
    BY <1>0, <2>6, <2>7, GoodCheckpoint
  <2>9. Story' = Append(file, l)
    BY <2>3, <2>4, <2>5
  <2> HIDE DEF l
  <2>10. QED
    BY <2>8, <2>9, Zenon
<1>3. CASE AppendMessages \/ UpdateTokenCount
  <2> DEFINE d == IF Doing("append") THEN Head(plan).lines ELSE <<UsageLine(Head(plan).n)>>
  <2>1. /\ file' = file /\ at = "start" /\ at' = "open" /\ due' = d
        /\ source = <<>> /\ source' = <<>>
    BY <1>3 DEF AppendMessages, UpdateTokenCount, diskVars, OpInv, Copying, Doing
  <2>2. d \in Seq(Line) /\ \A i \in 1 .. Len(d) : ~IsCheckpoint(d[i])
    <3>1. CASE Doing("append")
      <4>1. d \in Seq(MessageLine)
        BY <1>0, <3>1 DEF Doing
      <4> HIDE DEF d
      <4>2. d \in Seq(Line) /\ \A i \in 1 .. Len(d) : d[i] \in MessageLine
        BY <4>1, MessageTypes
      <4>3. QED
        BY <4>2, LineTypes
    <3>2. CASE ~Doing("append")
      <4> DEFINE u == UsageLine(Head(plan).n)
      <4>1. u \in Line /\ ~IsCheckpoint(u)
        BY <1>0, LineTypes
      <4>2. d = <<u>>
        BY <3>2
      <4> HIDE DEF u, d
      <4>3. QED
        BY <4>1, <4>2
    <3>3. QED
      BY <3>1, <3>2
  <2>3. Story' = file \o (<<>> \o d)
    BY <2>1 DEF Story
  <2>4. Good(file)
    BY <1>0, <2>1, StoryBetween
  <2> HIDE DEF d
  <2>5. file \o (<<>> \o d) = file \o d
    BY <1>0, <2>2, OwedParts, Zenon
  <2>6. Good(file \o d)
    BY <1>0, <2>2, <2>4, GoodMore, Zenon
  <2>7. Story' = file \o d
    BY <2>3, <2>5
  <2>8. QED
    BY <2>6, <2>7, Zenon
<1>4. CASE WriteLine /\ ~WriteHere(Head(due))
  <2>1. /\ at \notin {"copied", "forget", "create", "copy"} /\ at' = "newline" /\ due # <<>>
        /\ due' = Tail(due) /\ source = <<>> /\ source' = <<>>
    BY <1>4 DEF WriteLine, OpInv, Copying
  <2>2. Tail(due) \in Seq(Line) /\ Junk \in Line
    BY <1>0, <2>1, LineTypes
  <2>3. Good(file \o due)
    BY <1>0, <2>1, StoryBetween
  <2>4. \E n \in Nat : /\ n <= Len(file) /\ n + 1 <= Len(file') /\ file'[n + 1] = Junk
                       /\ \A i \in 1 .. n : file'[i] = file[i]
                       /\ file' \in Seq(Line)
    <3>1. CASE PutUnder
      <4>1. /\ file' \in Seq(Line) /\ Len(file') = Len(file) + 1 /\ file'[Len(file) + 1] = Junk
            /\ \A i \in 1 .. Len(file) : file'[i] = file[i]
        BY <1>0, <2>2, <3>1, LineAppended DEF PutUnder
      <4>2. Len(file) \in Nat /\ Len(file) <= Len(file)
        BY <1>0
      <4>3. Len(file) + 1 <= Len(file')
        BY <4>1, <4>2
      <4>4. QED
        BY <4>1, <4>2, <4>3
    <3>2. CASE PutBehind /\ tail \in {"open", "late"}
      <4>1. file # <<>>
        BY <3>2 DEF OpInv
      <4>2. PICK k \in Nat : k = Len(file) - 1
        BY <1>0, <4>1
      <4>3. Len(file) = k + 1
        BY <1>0, <4>2
      <4>4. /\ file' \in Seq(Line) /\ Len(file') = Len(file) /\ file'[Len(file)] = Junk
            /\ \A i \in 1 .. Len(file) - 1 : file'[i] = file[i]
        BY <1>0, <2>2, <3>2, <4>1, LastReplaced DEF PutBehind
      <4>5. k <= Len(file) /\ k + 1 <= Len(file') /\ file'[k + 1] = Junk
        BY <4>3, <4>4
      <4>6. \A i \in 1 .. k : file'[i] = file[i]
        BY <4>2, <4>4
      <4>7. QED
        BY <4>4, <4>5, <4>6
    <3>3. QED
      BY <1>4, <3>1, <3>2 DEF WriteLine
  <2>5. file' \in Seq(Line)
    BY <2>4
  <2>6. Good(file' \o Tail(due))
    BY <1>0, <2>2, <2>3, <2>4, GoodSpoilt
  <2>7. Story' = file' \o (<<>> \o Tail(due))
    BY <2>1 DEF Story
  <2>8. file' \o (<<>> \o Tail(due)) = file' \o Tail(due)
    BY <2>2, <2>5, OwedParts, Zenon
  <2>9. QED
    BY <2>6, <2>7, <2>8
<1>5. CASE RotateToClear
  <2>1. /\ file' = <<>> /\ due' = <<>> /\ source' = <<>> /\ at' = "create"
    BY <1>5 DEF RotateToClear, OpInv, Writing
  <2>2. <<>> \o (<<>> \o <<>>) = <<>>
    <3>1. <<>> \in Seq(Line)
      OBVIOUS
    <3>2. QED
      BY <3>1, OwedParts, Zenon
  <2>3. Story' = <<>>
    BY <2>1, <2>2 DEF Story
  <2>4. QED
    BY <2>3 DEF Good
<1>6. CASE CopyEnds \/ FailSoftly
  <2>1. /\ file' = file /\ due' = <<>> /\ source' = <<>> /\ at' = "start" /\ at # "copied"
    BY <1>6 DEF CopyEnds, FailSoftly, GiveUp, Done, diskVars, OpInv, Writing
  <2>2. file \o (<<>> \o <<>>) = file
    BY <1>0, OwedParts
  <2>3. Story' = file
    BY <2>1, <2>2 DEF Story
  <2>4. Good(file)
    <3>1. CASE CopyEnds
      <4>1. Story = file \o source
        BY <3>1, StoryBetween DEF CopyEnds, OpInv, Writing
      <4>2. QED
        BY <1>0, <4>1, GoodBeginning, Zenon
    <3>2. CASE FailSoftly
      <4>1. Story = file \o due
        BY <3>2, StoryBetween DEF FailSoftly
      <4>2. QED
        BY <1>0, <4>1, GoodBeginning, Zenon
    <3>3. QED
      BY <1>6, <3>1, <3>2
  <2>5. QED
    BY <2>3, <2>4
<1>7. QED
  BY <1>0, <1>1, <1>2, <1>3, <1>4, <1>5, <1>6 DEF Context

\* Writing what is owed, or failing to, keeps what the file will say.
LEMMA RemembersKept ==
    ASSUME LoopTypes, OpInv, PlanInv, StoryInv, DoContext
    PROVE  Remembers'
<1>0. /\ file \in Seq(Line) /\ due \in Seq(Line) /\ source \in Seq(Line) /\ Context /\ plan # <<>>
      /\ nextCheckpoint \in Nat /\ Remembers /\ history \in Seq(MessageLine)
      /\ Head(plan).n \in Nat
      /\ Head(plan).op = "append" => Head(plan).lines \in Seq(MessageLine)
      /\ Head(plan).soft => Head(plan).op = "usage"
  BY ContextTypes, AskedParts DEF DoContext, LoopTypes, LoopTypeOK, ContextTypeOK, StoryInv
<1>e. file \o <<>> = file /\ <<>> \o <<>> = <<>>
  <2>1. <<>> \in Seq(Line)
    OBVIOUS
  <2>2. QED
    BY <1>0, <2>1, JoinNothing, Zenon
<1>1. CASE Checkpoint
  <2> DEFINE l == CheckpointLine(nextCheckpoint)
  <2>1. /\ history' = history /\ nextCheckpoint' = nextCheckpoint + 1
        /\ file' = file /\ due = <<>> /\ due' = <<l>> /\ at = "start" /\ at' = "open"
    BY <1>1 DEF Checkpoint, diskVars, OpInv, Writing
  <2>2. /\ l \in Line /\ IsCheckpoint(l) /\ ~IsMessage(l) /\ l.n = nextCheckpoint
    BY <1>0, LineTypes
  <2> HIDE DEF l
  <2>3. Intact(file) => Tells(file)
    BY <1>0, <1>e, <2>1 DEF Remembers
  <2>4. file \o <<l>> = Append(file, l)
    BY <1>0, <2>2
  <2>5. Intact(file) => /\ history' = MessagesOf(file \o <<l>>)
                        /\ nextCheckpoint' = NextOf(file \o <<l>>)
    BY <1>0, <2>1, <2>2, <2>3, <2>4, ReadsOneMore, CountsOneMore DEF Tells
  <2>6. QED
    BY <2>1, <2>5 DEF Remembers, Tells
<1>2. CASE AppendMessages
  <2> DEFINE ms == Head(plan).lines
  <2>1. /\ history' = history \o ms /\ nextCheckpoint' = nextCheckpoint
        /\ file' = file /\ due = <<>> /\ due' = ms /\ at = "start" /\ at' = "open"
    BY <1>2 DEF AppendMessages, diskVars, OpInv, Writing
  <2>2. ms \in Seq(MessageLine)
    BY <1>0, <1>2 DEF AppendMessages, Doing
  <2> HIDE DEF ms
  <2>3. Intact(file) => Tells(file)
    BY <1>0, <1>e, <2>1 DEF Remembers
  <2>4. Intact(file) => history' = MessagesOf(file \o ms) /\ nextCheckpoint' = NextOf(file \o ms)
    BY <1>0, <2>1, <2>2, <2>3, ReadsMore DEF Tells
  <2>5. QED
    BY <2>1, <2>4 DEF Remembers, Tells
<1>3. CASE UpdateTokenCount
  <2> DEFINE l == UsageLine(Head(plan).n)
  <2>1. /\ history' = history /\ nextCheckpoint' = nextCheckpoint
        /\ file' = file /\ due = <<>> /\ due' = <<l>> /\ at = "start" /\ at' = "open"
    BY <1>3 DEF UpdateTokenCount, diskVars, OpInv, Writing
  <2>2. /\ l \in Line /\ ~IsMessage(l) /\ ~IsCheckpoint(l)
    BY <1>0, LineTypes
  <2> HIDE DEF l
  <2>3. Intact(file) => Tells(file)
    BY <1>0, <1>e, <2>1 DEF Remembers
  <2>4. file \o <<l>> = Append(file, l)
    BY <1>0, <2>2
  <2>5. Intact(file) => /\ history' = MessagesOf(file \o <<l>>)
                        /\ nextCheckpoint' = NextOf(file \o <<l>>)
    BY <1>0, <2>1, <2>2, <2>3, <2>4, ReadsOneMore, CountsOneMore DEF Tells
  <2>6. QED
    BY <2>1, <2>5 DEF Remembers, Tells
<1>4. CASE WriteNothing \/ WriteNewline \/ RotateToClear \/ RotateToRevert \/ ForgetToRevert
  BY <1>0, <1>4 DEF WriteNothing, WriteNewline, RotateToClear, RotateToRevert, ForgetToRevert,
                    Done, memoryVars, diskVars, Remembers, Tells
<1>5. CASE WriteLine
  <2>1. /\ UNCHANGED <<history, nextCheckpoint>> /\ due' = Tail(due) /\ due # <<>>
        /\ at \in {"open", "more"} /\ at' = "newline"
    BY <1>5 DEF WriteLine, memoryVars
  <2>2. Head(due) \in Line /\ Tail(due) \in Seq(Line) /\ Junk \in Line
    BY <1>0, <2>1, LineTypes
  <2>3. SUFFICES ASSUME Intact(file') PROVE Remembers'
    BY <2>1 DEF Remembers
  <2>4. ~(PutBehind /\ tail \in {"open", "late"}) /\ ~PutUnder
    <3>1. ASSUME PutBehind, tail \in {"open", "late"} PROVE FALSE
      <4>1. file # <<>>
        BY <3>1 DEF OpInv
      <4>2. file'[Len(file)] = Junk /\ Len(file) \in DOMAIN file'
        BY <1>0, <2>2, <3>1, <4>1, LastReplaced DEF PutBehind
      <4>3. QED
        BY <2>3, <4>2 DEF Intact, Spoilt
    <3>2. ASSUME PutUnder PROVE FALSE
      <4>1. file'[Len(file) + 1] = Junk /\ Len(file) + 1 \in DOMAIN file'
        BY <1>0, <2>2, <3>2 DEF PutUnder
      <4>2. QED
        BY <2>3, <4>1 DEF Intact, Spoilt
    <3>3. QED
      BY <3>1, <3>2
  <2>5. file' = Append(file, Head(due))
    BY <1>5, <2>4 DEF WriteLine, WriteHere
  <2>6. Append(file, Head(due)) \o Tail(due) = file \o due
    BY <1>0, <2>1, LineMoved, Zenon
  <2>7. Intact(file)
    <3>1. /\ \A i \in 1 .. Len(file) : file'[i] = file[i]
          /\ Len(file') = Len(file) + 1 /\ Len(file) \in Nat
      BY <1>0, <2>2, <2>5, LineAppended
    <3>2. \A i \in DOMAIN file : i \in DOMAIN file' /\ file'[i] = file[i]
      BY <1>0, <2>2, <2>5, <3>1
    <3>3. QED
      BY <2>3, <3>2 DEF Intact, Spoilt
  <2>8. QED
    BY <1>0, <2>1, <2>5, <2>6, <2>7 DEF Remembers, Tells
<1>6. CASE Create
  <2>1. file = <<>> /\ file' = <<>> /\ due' = <<>> /\ at = "create"
    BY <1>6 DEF Create, OpInv, Writing
  <2>2. MessagesOf(<<>>) = <<>> /\ NextOf(<<>>) = 0
    BY NothingSaid
  <2>3. history' = <<>> /\ nextCheckpoint' = 0
    BY <1>6, <2>1 DEF Create, Forget, OpInv, memoryVars
  <2>4. Tells(<<>>)'
    BY <2>2, <2>3 DEF Tells
  <2>5. file' \o due' = <<>>
    BY <1>e, <2>1
  <2>6. at' \in {"start", "copy"}
    BY <1>6 DEF Create, Done
  <2>7. QED
    BY <2>1, <2>4, <2>5, <2>6 DEF Remembers, Tells
<1>7. CASE CopyLine
  <2>1. /\ UNCHANGED <<history, nextCheckpoint>>
        /\ file' = Append(file, Head(source)) /\ at = "copy" /\ at' = "copied" /\ source # <<>>
    BY <1>7 DEF CopyLine, WriteHere, memoryVars
  <2>2. Front(file') = file
    BY <1>0, <2>1, LineAppended
  <2>3. QED
    BY <1>0, <2>1, <2>2 DEF Remembers, Tells
<1>8. CASE CopyNewline
  <2> DEFINE l == Head(source)
             f == Front(file)
  <2>1. /\ history' = IF IsMessage(l) THEN Append(history, l) ELSE history
        /\ nextCheckpoint' = IF IsCheckpoint(l) THEN l.n + 1 ELSE nextCheckpoint
        /\ file' = file /\ at = "copied" /\ at' = "copy"
    BY <1>8 DEF CopyNewline
  <2>2. /\ l \in Line /\ f \in Seq(Line) /\ file = Append(f, l)
    <3>1. source # <<>> /\ file # <<>> /\ Last(file) = Head(source)
      BY <2>1 DEF OpInv
    <3>2. QED
      BY <1>0, <3>1, LastCopied
  <2>3. Tells(f)
    BY <1>0, <2>1 DEF Remembers
  <2> HIDE DEF l, f
  <2>4. QED
    BY <2>1, <2>2, <2>3, ReadsOneMore, CountsOneMore DEF Remembers, Tells
<1>9. CASE CopyEnds
  <2>1. /\ UNCHANGED <<history, nextCheckpoint, file>> /\ due' = <<>> /\ at = "copy" /\ at' = "start"
    BY <1>9 DEF CopyEnds, OpInv, Writing, Done, memoryVars, diskVars
  <2>2. QED
    BY <1>0, <1>e, <2>1 DEF Remembers, Tells
<1>10. CASE FailSoftly
  <2> DEFINE l == UsageLine(Head(plan).n)
  <2>1. /\ UNCHANGED <<history, nextCheckpoint, file>> /\ due' = <<>> /\ at' = "start"
        /\ at \in {"open", "newline"} /\ due \in {<<>>, <<l>>}
    BY <1>0, <1>10 DEF FailSoftly, GiveUp, memoryVars, diskVars, OpInv, Writing, Doing
  <2>2. /\ l \in Line /\ ~IsMessage(l) /\ ~IsCheckpoint(l)
    BY <1>0, LineTypes
  <2> HIDE DEF l
  <2>3. file \o <<l>> = Append(file, l)
    BY <1>0, <2>2
  <2>4. Tells(file \o due) => Tells(file)
    <3>1. CASE due = <<>>
      BY <1>e, <3>1
    <3>2. CASE due = <<l>>
      BY <1>0, <2>2, <2>3, <3>2, ReadsOneMore, CountsOneMore DEF Tells
    <3>3. QED
      BY <2>1, <3>1, <3>2
  <2>5. QED
    BY <1>0, <1>e, <2>1, <2>4 DEF Remembers, Tells
<1>11. QED
  BY <1>0, <1>1, <1>2, <1>3, <1>4, <1>5, <1>6, <1>7, <1>8, <1>9, <1>10 DEF Context

\* A rewind finds its checkpoint in what is left of the rotated file.
LEMMA CopyKept ==
    ASSUME LoopTypes, OpInv, PlanInv, StoryInv, DoContext
    PROVE  CopyInv'
<1>0. /\ file \in Seq(Line) /\ due \in Seq(Line) /\ source \in Seq(Line) /\ Context /\ plan # <<>>
      /\ nextCheckpoint \in Nat /\ Remembers /\ CopyInv /\ Good(Story)
      /\ Head(plan).n \in Nat
  BY ContextTypes, AskedParts DEF DoContext, LoopTypes, LoopTypeOK, ContextTypeOK, StoryInv
<1>1. CASE at' \in {"start", "open", "newline", "more"}
  BY <1>1 DEF CopyInv, Copying
<1>2. CASE RotateToClear
  BY <1>2 DEF RotateToClear, CopyInv, Copying, Doing
<1>3. CASE RotateToRevert
  <2>1. /\ at = "start" /\ at' = "forget" /\ due = <<>> /\ plan' = plan
        /\ Head(plan).n < nextCheckpoint
    BY <1>3 DEF RotateToRevert, OpInv, Writing
  <2>2. Story' = Story
    BY <1>3, StoryStays, Zenon
  <2>3. Story = file
    BY <2>1, StoryBetween
  <2>4. ASSUME Intact(file) PROVE \E i \in DOMAIN file : file[i] = Target
    <3>1. nextCheckpoint = NextOf(file)
      <4>1. file \o due = file
        BY <1>0, <2>1, JoinNothing
      <4>2. QED
        BY <1>0, <2>1, <2>4, <4>1 DEF Remembers, Tells
    <3>2. Earlier(file, nextCheckpoint)
      BY <1>0, <2>3, <2>4, <3>1, AllEarlier
    <3>3. Head(plan).n \in 0 .. nextCheckpoint - 1
      BY <1>0, <2>1
    <3>4. QED
      BY <3>2, <3>3 DEF Earlier, Target
  <2>5. Intact(Story) => \E i \in DOMAIN Story : Story[i] = Target
    BY <2>3, <2>4
  <2>6. Target' = Target
    BY <2>1 DEF Target
  <2>7. QED
    BY <2>1, <2>2, <2>5, <2>6 DEF CopyInv, Copying, Intact, Spoilt
<1>4. CASE ForgetToRevert \/ (Create /\ at' = "copy") \/ CopyLine \/ CopyNewline
  <2>1. Story' = Story
    BY <1>4, StoryStays, Zenon
  <2>2. plan' = plan /\ Target' = Target
    BY <1>4 DEF ForgetToRevert, Create, CopyLine, CopyNewline, Target, Done
  <2>3. Intact(Story) => \E i \in DOMAIN Story : Story[i] = Target
    BY <1>0, <1>4 DEF CopyInv, ForgetToRevert, Create, Done, CopyLine, CopyNewline, Copying
  <2>4. at' \in {"copy", "copied"} => Intact(file') /\ \A i \in DOMAIN file' : file'[i] # Target
    <3>1. CASE ForgetToRevert
      BY <3>1 DEF ForgetToRevert
    <3>2. CASE Create
      BY <3>2 DEF Create, OpInv, Intact, Spoilt
    <3>3. CASE CopyNewline
      BY <1>0, <3>3 DEF CopyNewline, CopyInv, Copying
    <3>4. CASE CopyLine
      <4>1. /\ file' = Append(file, Head(source)) /\ Head(source) # Junk /\ Head(source) # Target
            /\ at = "copy" /\ source # <<>>
        BY <3>4 DEF CopyLine, WriteHere
      <4>2. Intact(file) /\ \A i \in DOMAIN file : file[i] # Target
        BY <1>0, <4>1 DEF CopyInv, Copying
      <4>3. \A i \in DOMAIN file' : file'[i] = Head(source) \/ (i \in DOMAIN file /\ file'[i] = file[i])
        BY <1>0, <4>1
      <4>4. QED
        BY <4>1, <4>2, <4>3 DEF Intact, Spoilt
    <3>5. QED
      BY <1>4, <3>1, <3>2, <3>3, <3>4
  <2>5. QED
    BY <2>1, <2>2, <2>3, <2>4 DEF CopyInv, Copying, Intact, Spoilt
<1>5. at' \in {"start", "open", "newline", "more"} \/ RotateToClear \/ RotateToRevert
      \/ ForgetToRevert \/ (Create /\ at' = "copy") \/ CopyLine \/ CopyNewline
  BY <1>0 DEF Context, Checkpoint, AppendMessages, UpdateTokenCount, WriteNothing, WriteLine,
              WriteNewline, Create, CopyEnds, FailSoftly, GiveUp, Done
<1>6. QED
  BY <1>1, <1>2, <1>3, <1>4, <1>5

\* A rewind that has found its checkpoint remembers what stands before it.
LEMMA CopyFound ==
    ASSUME LoopTypes, OpInv, StoryInv, CopyEnds
    PROVE  Answered(history) /\ nextCheckpoint = Head(plan).n
<1>0. /\ file \in Seq(Line) /\ source \in Seq(Line) /\ at = "copy" /\ due = <<>>
      /\ Remembers /\ CopyInv /\ Good(Story) /\ plan # <<>>
  BY DEF LoopTypes, LoopTypeOK, ContextTypeOK, StoryInv, CopyEnds, OpInv, Writing, Copying, Doing
<1>n. Head(plan).n \in Nat
  BY <1>0, AskedParts
<1>1. Story = file \o source
  BY <1>0, StoryBetween
<1>2. /\ Intact(file) /\ \A i \in DOMAIN file : file[i] # Target
      /\ Intact(Story) => \E i \in DOMAIN Story : Story[i] = Target
  BY <1>0 DEF CopyInv, Copying
<1>3. source # <<>>
  <2>1. ASSUME source = <<>> PROVE FALSE
    <3>1. Story = file
      BY <1>0, <1>1, <2>1, JoinNothing
    <3>2. QED
      BY <1>2, <3>1
  <2>2. QED
    BY <2>1
<1>4. Head(source) = Target
  BY <1>3 DEF CopyEnds
<1> DEFINE s == Story
           n == Len(file)
<1>5. /\ s \in Seq(Line) /\ n \in Nat /\ n + 1 \in DOMAIN s /\ s[n + 1] = Target
      /\ SubSeq(s, 1, n) = file /\ \A i \in 1 .. n : s[i] = file[i]
  BY <1>0, <1>1, <1>3, <1>4
<1>6. IsCheckpoint(Target) /\ Target.n = Head(plan).n
  BY <1>n, LineTypes DEF Target
<1>7. \A i \in 1 .. n : s[i] # Junk
  BY <1>0, <1>2, <1>5 DEF Intact, Spoilt
<1>8. Good(s)
  BY <1>0
<1>9. Tells(file)
  BY <1>0 DEF Remembers
<1> HIDE DEF s, n
<1>10. (n + 1) - 1 = n
  BY <1>5
<1>11. Sound(SubSeq(s, 1, n), Target.n)
  <2>1. NoJunk(s, (n + 1) - 1)
    BY <1>7, <1>10 DEF NoJunk
  <2>2. Sound(SubSeq(s, 1, (n + 1) - 1), s[n + 1].n)
    BY <1>5, <1>6, <1>8, <2>1 DEF Good
  <2>3. QED
    BY <1>5, <1>10, <2>2
<1>12. QED
  BY <1>5, <1>6, <1>9, <1>11 DEF Sound, Tells

\* An answer and its results are all there, or none of it.
LEMMA AnsweredCalls ==
    ASSUME NEW h \in Seq(MessageLine), h # <<>>, Last(h).role = "calls", Answered(Front(h))
    PROVE  Answered(h \o <<Message("tools")>>)
<1> DEFINE c == Last(h)
           t == Message("tools")
           f == Front(h)
<1>1. c \in Line /\ t \in Line /\ t.role = "tools" /\ h \in Seq(Line) /\ c.role = "calls"
  <2>1. h \in Seq(Line) /\ t \in Line /\ t.role = "tools"
    BY MessageTypes DEF MessageRoles
  <2>2. c \in Line
    BY <2>1 DEF Last
  <2>3. QED
    BY <2>1, <2>2
<1>2. f \in Seq(Line) /\ h = Append(f, c) /\ Answered(f)
  BY <1>1, LastCopied
<1> HIDE DEF c, t, f
<1>3. <<c, t>> \in Seq(Line) /\ Answered(<<c, t>>)
  BY <1>1 DEF Answered
<1>4. Answered(f \o <<c, t>>)
  BY <1>2, <1>3, AnsweredJoined, Zenon
<1>5. Append(f, c) \o <<t>> = f \o <<c, t>>
  BY <1>1, <1>2
<1>6. QED
  BY <1>2, <1>4, <1>5 DEF t

\* An answer is recorded whole, or half if it called tools.
LEMMA AnswerGrows ==
    ASSUME NEW h \in Seq(MessageLine), Answered(h)
    PROVE  /\ \A role \in {"assistant"} : Answered(h \o <<Message(role)>>)
           /\ LET g == h \o <<Message("calls")>>
              IN  g # <<>> /\ Last(g).role = "calls" /\ Front(g) = h
<1>1. h \in Seq(Line) /\ \A role \in MessageRoles : Message(role) \in Line /\ Message(role).role = role
  BY MessageTypes
<1>2. Answered(h \o <<Message("assistant")>>)
  <2> DEFINE l == Message("assistant")
             s == <<l>>
  <2>1. l \in Line /\ l.role = "assistant"
    BY <1>1 DEF MessageRoles
  <2>2. s \in Seq(Line) /\ Answered(s)
    BY <2>1, AnsweredOne
  <2> HIDE DEF s
  <2>3. Answered(h \o s)
    BY <1>1, <2>2, AnsweredJoined, Zenon
  <2>4. QED
    BY <2>3 DEF s
<1>3. LET g == h \o <<Message("calls")>>
      IN  g # <<>> /\ Last(g).role = "calls" /\ Front(g) = h
  <2> DEFINE l == Message("calls")
             g == Append(h, l)
  <2>1. l \in Line /\ l.role = "calls"
    BY <1>1 DEF MessageRoles
  <2> HIDE DEF l
  <2>2. g # <<>> /\ Len(g) = Len(h) + 1 /\ g[Len(h) + 1] = l /\ Front(g) = h
    BY <1>1, <2>1, LineAppended
  <2>3. Last(g) = l
    BY <2>2 DEF Last
  <2>4. h \o <<l>> = g
    BY <1>1, <2>1
  <2>5. QED
    BY <2>1, <2>2, <2>3, <2>4 DEF l
<1>4. QED
  BY <1>2, <1>3

\* What is recorded: which operation of the answer is being done.
LEMMA RecordingNow ==
    ASSUME LoopTypes, Recording, plan # <<>>
    PROVE  \/ /\ Head(plan) = Answer /\ Len(plan) > 1 /\ plan # <<Results>>
              /\ Tail(plan) \in {<<Results>>, <<Usage(said.total), Results>>}
           \/ /\ Head(plan) = Usage(said.total) /\ plan # <<Results>> /\ Head(plan) # Answer
              /\ Tail(plan) = <<Results>>
           \/ plan = <<Results>> /\ Len(plan) = 1 /\ Tail(plan) = <<>> /\ Head(plan) = Results
<1> DEFINE a == Answer
           u == Usage(said.total)
           t == Results
<1>1. plan = <<t>> \/ plan = <<u, t>> \/ plan = <<a, t>> \/ plan = <<a, u, t>>
  BY DEF Recording
<1>2. a.op # u.op
  BY AnswerPlan
<1> HIDE DEF a, u, t
<1>3. CASE plan = <<t>>
  BY <1>3 DEF t
<1>4. CASE plan = <<u, t>>
  <2>1. Head(plan) = u /\ plan # <<t>> /\ Tail(plan) = <<t>> /\ u # a
    BY <1>2, <1>4
  <2>2. QED
    BY <2>1 DEF a, u, t
<1>5. CASE plan = <<a, t>>
  <2>1. Head(plan) = a /\ plan # <<t>> /\ Tail(plan) = <<t>> /\ Len(plan) > 1
    BY <1>5
  <2>2. QED
    BY <2>1 DEF a, u, t
<1>6. CASE plan = <<a, u, t>>
  <2>1. Head(plan) = a /\ plan # <<t>> /\ Tail(plan) = <<u, t>> /\ Len(plan) > 1
    BY <1>6
  <2>2. QED
    BY <2>1 DEF a, u, t
<1>7. QED
  BY <1>1, <1>3, <1>4, <1>5, <1>6

\* While an answer is recorded, half of it is there until the results are.
LEMMA AnswerKeptRecording ==
    ASSUME LoopTypes, OpInv, PlanInv, StoryInv, DoContext, soul = "verdict"
    PROVE  AnswerInv'
<1>0. /\ Context /\ plan # <<>> /\ Recording /\ AnswerInv /\ history \in Seq(MessageLine)
      /\ soul' = soul /\ said' = said /\ Answer' = Answer /\ Results' = Results
  BY ContextTypes DEF DoContext, turnVars, PlanInv, StoryInv, LoopTypes, Answer, Results
<1>1. Head(plan) \in {Answer, Usage(said.total), Results}
  BY <1>0, RecordingTail
<1>2. Head(plan).op \in {"append", "usage"} /\ ~Head(plan).soft
  BY <1>1, AnswerPlan
<1>3. AppendMessages \/ UpdateTokenCount \/ WriteNothing \/ WriteLine \/ WriteNewline
  <2>1. ~(at \in {"forget", "create", "copy", "copied"})
    BY <1>2 DEF OpInv, Copying, Doing
  <2>2. QED
    BY <1>0, <1>2, <2>1 DEF Context, Checkpoint, RotateToClear, RotateToRevert, ForgetToRevert,
                            Create, CopyLine, CopyNewline, CopyEnds, FailSoftly, Doing
<1>4. CASE AppendMessages
  <2>1. /\ at = "start" /\ at' = "open" /\ plan' = plan /\ history' = history \o Head(plan).lines
        /\ Head(plan).op = "append"
    BY <1>4 DEF AppendMessages, Doing
  <2>2. CASE Head(plan) = Answer /\ Len(plan) > 1 /\ plan # <<Results>>
    <3>1. Answered(history)
      BY <1>0, <2>1, <2>2 DEF AnswerInv, Fresh
    <3>2. history' = history \o <<Message(IF said.calls THEN "calls" ELSE "assistant")>>
      BY <2>1, <2>2, AnswerPlan
    <3>3. Half(history')
      BY <1>0, <3>1, <3>2, AnswerGrows DEF Half
    <3>4. Half(history)'
      BY <1>0, <3>3 DEF Half, Answered
    <3>5. ~Fresh' /\ ~Over'
      BY <1>0, <2>1, <2>2 DEF Fresh, Over
    <3>6. QED
      BY <1>0, <3>4, <3>5 DEF AnswerInv
  <2>3. CASE plan = <<Results>> /\ Len(plan) = 1 /\ Head(plan) = Results
    <3>1. Half(history)
      BY <1>0, <2>1, <2>3 DEF AnswerInv, Fresh, Over
    <3>2. history' = history \o (IF said.calls THEN <<Message("tools")>> ELSE <<>>)
      BY <2>1, <2>3, AnswerPlan
    <3>3. Answered(history')
      <4>1. CASE said.calls
        BY <1>0, <3>1, <3>2, <4>1, AnsweredCalls DEF Half
      <4>2. CASE ~said.calls
        <5>1. history' = history
          BY <1>0, <3>2, <4>2
        <5>2. QED
          BY <3>1, <4>2, <5>1 DEF Half
      <4>3. QED
        BY <4>1, <4>2
    <3>4. Answered(history)'
      BY <3>3 DEF Answered
    <3>5. Over'
      BY <1>0, <2>1, <2>3 DEF Over
    <3>6. QED
      BY <1>0, <3>4, <3>5 DEF AnswerInv
  <2>4. Head(plan) # Usage(said.total)
    BY <2>1, AnswerPlan
  <2>5. QED
    BY <1>0, <2>2, <2>3, <2>4, RecordingNow
<1>5. CASE UpdateTokenCount
  <2>1. /\ at = "start" /\ at' = "open" /\ plan' = plan /\ history' = history
        /\ Head(plan).op = "usage"
    BY <1>5 DEF UpdateTokenCount, Doing
  <2>2. Head(plan) = Usage(said.total) /\ plan # <<Results>> /\ Head(plan) # Answer
    <3>1. Head(plan) # Answer /\ Head(plan) # Results
      BY <2>1, AnswerPlan
    <3>2. QED
      BY <1>0, <3>1, RecordingNow
  <2>3. Half(history)
    BY <1>0, <2>2 DEF AnswerInv, Fresh, Over
  <2>4. Half(history)'
    BY <1>0, <2>1, <2>3 DEF Half, Answered
  <2>5. ~Fresh' /\ ~Over'
    BY <1>0, <2>1, <2>2 DEF Fresh, Over
  <2>6. QED
    BY <1>0, <2>4, <2>5 DEF AnswerInv
<1>6. CASE WriteNothing \/ WriteLine \/ WriteNewline
  <2>1. /\ at # "start" /\ history' = history
        /\ \/ plan' = plan /\ at' # "start"
           \/ plan' = Tail(plan) /\ at' = "start"
    BY <1>6 DEF WriteNothing, WriteLine, WriteNewline, Done, memoryVars
  <2>2. CASE plan' = plan /\ at' # "start"
    <3>1. ~Fresh /\ ~Fresh' /\ (Over <=> Over')
      BY <1>0, <2>1, <2>2 DEF Fresh, Over
    <3>2. QED
      BY <1>0, <2>1, <3>1 DEF AnswerInv, Half, Answered
  <2>3. CASE plan' = Tail(plan) /\ at' = "start"
    <3>1. CASE plan = <<Results>> /\ Tail(plan) = <<>>
      <4>1. Over /\ Over'
        BY <2>1, <2>3, <3>1 DEF Over
      <4>2. QED
        BY <1>0, <2>1, <4>1 DEF AnswerInv, Half, Answered
    <3>2. CASE plan # <<Results>> /\ Tail(plan) \in {<<Results>>, <<Usage(said.total), Results>>}
      <4>1. ~Fresh /\ ~Over
        BY <1>0, <2>1, <3>2 DEF Fresh, Over
      <4>2. ~Fresh' /\ ~Over'
        <5>1. Usage(said.total) # Answer
          BY AnswerPlan
        <5> DEFINE t == Results
                   u == Usage(said.total)
        <5>2. plan' = <<t>> \/ plan' = <<u, t>>
          BY <2>3, <3>2
        <5> HIDE DEF t, u
        <5>3. plan' # <<>> /\ (Len(plan') > 1 => Head(plan') = u)
          BY <5>2
        <5>4. QED
          BY <1>0, <2>3, <5>1, <5>3 DEF Fresh, Over, u
      <4>3. QED
        BY <1>0, <2>1, <4>1, <4>2 DEF AnswerInv, Half, Answered
    <3>3. QED
      BY <1>0, <3>1, <3>2, RecordingNow
  <2>4. QED
    BY <2>1, <2>2, <2>3
<1>7. QED
  BY <1>3, <1>4, <1>5, <1>6

\* All else that is written keeps calls and results together.
LEMMA AnswerKeptElsewhere ==
    ASSUME LoopTypes, OpInv, PlanInv, StoryInv, DoContext, soul # "verdict"
    PROVE  AnswerInv'
<1>0. /\ Context /\ plan # <<>> /\ AnswerInv /\ history \in Seq(MessageLine) /\ soul' = soul
      /\ plan \in Seq(Whole) /\ (~Copying => Answered(history)) /\ nextCheckpoint \in Nat
  BY ContextTypes DEF DoContext, turnVars, StoryInv, LoopTypes, LoopTypeOK, ContextTypeOK, AnswerInv
<1>1. plan' \in Seq(Whole)
  <2>1. Tail(plan) \in Seq(Whole)
    BY <1>0
  <2>2. <<Head(plan), Appends(<<Mark(nextCheckpoint)>>)>> \o Tail(plan) \in Seq(Whole)
    BY <1>0, MarkPlan
  <2>3. QED
    BY <1>0, <2>1, <2>2, PlanSteps
<1>2. CASE AppendMessages
  <2>1. history' = history \o Head(plan).lines /\ at = "start" /\ Head(plan).op = "append"
    BY <1>2 DEF AppendMessages, Doing
  <2>2. Head(plan).lines \in Seq(MessageLine) /\ Answered(Head(plan).lines)
    <3>1. Head(plan) \in Whole
      BY <1>0
    <3>2. QED
      BY <2>1, <3>1 DEF Whole, Asked
  <2>3. Answered(history)
    BY <1>0, <2>1 DEF Copying
  <2> DEFINE ms == Head(plan).lines
  <2> HIDE DEF ms
  <2>4. history \in Seq(Line) /\ ms \in Seq(Line) /\ Answered(ms)
    BY <1>0, <2>2, MessageTypes DEF ms
  <2>5. Answered(history \o ms)
    BY <2>3, <2>4, AnsweredJoined, Zenon
  <2>6. Answered(history)'
    BY <2>1, <2>5 DEF Answered, ms
  <2>7. QED
    BY <1>0, <1>1, <2>6 DEF AnswerInv
<1>3. CASE ForgetToRevert \/ (Create /\ Doing("clear"))
  <2>1. history' = <<>>
    BY <1>3 DEF ForgetToRevert, Create, Forget, Doing
  <2>2. Answered(history)'
    BY <2>1 DEF Answered
  <2>3. QED
    BY <1>0, <1>1, <2>2 DEF AnswerInv
<1>4. CASE CopyLine \/ CopyNewline \/ (Create /\ ~Doing("clear"))
  <2>1. Copying'
    BY <1>4 DEF CopyLine, CopyNewline, Create, Copying
  <2>2. QED
    BY <1>0, <1>1, <2>1 DEF AnswerInv
<1>5. CASE CopyEnds
  <2>1. Answered(history) /\ history' = history
    BY <1>5, CopyFound DEF CopyEnds, memoryVars
  <2>2. QED
    BY <1>0, <1>1, <2>1 DEF AnswerInv, Answered
<1>6. CASE \/ Checkpoint \/ UpdateTokenCount \/ WriteNothing \/ WriteLine \/ WriteNewline
           \/ RotateToClear \/ RotateToRevert \/ FailSoftly
  <2>1. history' = history /\ ~Copying
    BY <1>6 DEF Checkpoint, UpdateTokenCount, WriteNothing, WriteLine, WriteNewline, RotateToClear,
                RotateToRevert, FailSoftly, GiveUp, memoryVars, Copying
  <2>2. QED
    BY <1>0, <1>1, <2>1 DEF AnswerInv, Answered
<1>7. QED
  BY <1>0, <1>2, <1>3, <1>4, <1>5, <1>6 DEF Context

\* So it lands where it was sent.
LEMMA LandedKept ==
    ASSUME LoopTypes, OpInv, PlanInv, StoryInv, DoContext
    PROVE  Landed'
<1>0. Context /\ plan # <<>> /\ soul' = soul /\ back' = back /\ back \in Nat
  BY ContextTypes DEF DoContext, turnVars, LoopTypes, LoopTypeOK
<1> SUFFICES ASSUME soul = "rewound", plan' = <<>> PROVE nextCheckpoint' = back
  BY <1>0 DEF Landed
<1> DEFINE o == Do("revert", back)
<1>1. plan = <<o>>
  BY <1>0 DEF PlanInv
<1>2. o.op = "revert" /\ o.n = back /\ ~o.soft
  BY <1>0, OpTypes DEF OpNames
<1> HIDE DEF o
<1>3. Head(plan).op = "revert" /\ Head(plan).n = back /\ ~Head(plan).soft
  BY <1>1, <1>2
<1>4. ~Writing /\ ~Doing("clear")
  BY <1>3 DEF OpInv, Doing
<1>5. CopyEnds
  BY <1>0, <1>3, <1>4 DEF Context, Checkpoint, AppendMessages, UpdateTokenCount, WriteNothing,
                          WriteLine, WriteNewline, RotateToClear, RotateToRevert, ForgetToRevert,
                          Create, CopyLine, CopyNewline, FailSoftly, Doing, Writing
<1>6. QED
  BY <1>3, <1>5, CopyFound DEF CopyEnds, memoryVars

\* Every step of the context keeps the story.
LEMMA StoryKeptByContext ==
    ASSUME LoopTypes, OpInv, PlanInv, StoryInv, DoContext
    PROVE  StoryInv'
<1>1. Good(Story)' /\ Remembers' /\ CopyInv'
  BY GoodKept, RemembersKept, CopyKept
<1>2. AnswerInv'
  BY AnswerKeptRecording, AnswerKeptElsewhere
<1>3. Landed'
  BY LandedKept
<1>4. QED
  BY <1>1, <1>2, <1>3 DEF StoryInv, Landed

\* The soul asks for what keeps calls and results together.
LEMMA AnswerKeptBySoul ==
    ASSUME LoopTypes, OpInv, PlanInv, StoryInv, LoopNext, ~DoContext, ~Interrupt, ~Restart
    PROVE  AnswerInv'
<1>0. /\ AnswerInv /\ SoulStep /\ history' = history /\ history \in Seq(MessageLine)
  BY SoulSteps DEF StoryInv, SoulStep, LoopTypes
<1>1. CASE BeginTurn \/ SlashClear \/ SlashCompact \/ SlashEnds \/ AskModel \/ CountCheckpoints
           \/ DeliverMail \/ ModelAnswers
  <2>1. soul # "verdict" /\ soul' # "verdict" /\ plan = <<>>
    BY <1>1 DEF BeginTurn, SlashClear, SlashCompact, SlashEnds, AskModel, CountCheckpoints,
                DeliverMail, ModelAnswers, GoesOn
  <2>2. at = "start"
    BY <2>1 DEF LoopTypes, LoopTypeOK, ContextTypeOK
  <2>3. Answered(history)
    BY <1>0, <2>1, <2>2 DEF AnswerInv, Copying
  <2>4. plan' \in Seq(Whole)
    <3>1. <<>> \in Seq(Whole)
      OBVIOUS
    <3>2. CASE BeginTurn \/ SlashClear \/ SlashCompact \/ SlashEnds \/ CountCheckpoints \/ DeliverMail
      BY <2>3, <3>1, <3>2, Plans DEF BeginTurn, SlashClear, SlashCompact, SlashEnds, CountCheckpoints,
                DeliverMail, GoesOn
    <3>3. CASE AskModel
      <4>1. <<>> \o <<Do("checkpoint", 0)>> = <<Do("checkpoint", 0)>>
        OBVIOUS
      <4>2. plan' = (IF tokenCount >= MaxTokens THEN Compaction ELSE <<>>) \o <<Do("checkpoint", 0)>>
        BY <3>3 DEF AskModel, GoesOn
      <4>3. QED
        BY <2>3, <4>1, <4>2, Plans
    <3>4. CASE ModelAnswers
      <4>1. PICK a \in Reply, input \in 1 .. MaxTokens : plan' = Told(input, a)
        BY <3>4 DEF ModelAnswers, GoesOn, Told
      <4>2. QED
        BY <4>1, ToldType
    <3>5. QED
      BY <1>1, <3>2, <3>3, <3>4
  <2>5. QED
    BY <1>0, <2>1, <2>3, <2>4 DEF AnswerInv, Answered
<1>2. CASE GrowContext
  <2>1. /\ plan' = <<Answer, Results>> \/ plan' = <<Answer, Usage(said.total), Results>>
        /\ soul = "results" /\ soul' = "verdict" /\ said' = said /\ plan = <<>> /\ at' = at
    BY <1>2, Records DEF GoesOn, GrowContext, turnVars
  <2>2. Answer' = Answer
    BY <2>1 DEF Answer
  <2>3. at = "start"
    BY <2>1 DEF LoopTypes, LoopTypeOK, ContextTypeOK
  <2>4. Answered(history)
    BY <1>0, <2>1, <2>3 DEF AnswerInv, Copying
  <2>5. Fresh'
    <3> DEFINE a == Answer
               u == Usage(said.total)
               t == Results
    <3>1. plan' = <<a, t>> \/ plan' = <<a, u, t>>
      BY <2>1
    <3> HIDE DEF a, u, t
    <3>2. plan' # <<>> /\ Head(plan') = a /\ Len(plan') > 1
      BY <3>1
    <3>3. QED
      BY <2>1, <2>2, <2>3, <3>2 DEF Fresh, a
  <2>6. QED
    BY <1>0, <2>1, <2>4, <2>5 DEF AnswerInv, Answered
<1>3. CASE Rejected \/ Rewind \/ AnotherStep \/ TurnDone
  <2>1. soul = "verdict" /\ soul' # "verdict" /\ plan = <<>>
    BY <1>3 DEF Rejected, Rewind, AnotherStep, TurnDone, GoesOn
  <2>2. Answered(history)
    BY <1>0, <2>1 DEF AnswerInv, Over
  <2>3. plan' \in Seq(Whole)
    <3>1. <<>> \in Seq(Whole)
      OBVIOUS
    <3>2. CASE Rejected \/ AnotherStep \/ TurnDone
      BY <3>1, <3>2 DEF Rejected, AnotherStep, TurnDone, GoesOn
    <3>3. CASE Rewind
      <4>1. plan' = <<Do("revert", mail.to)>> /\ mail.to \in Nat
        BY <3>3 DEF Rewind, GoesOn, LoopTypes, LoopTypeOK
      <4>2. QED
        BY <4>1, Plans
    <3>4. QED
      BY <1>3, <3>2, <3>3
  <2>4. QED
    BY <1>0, <2>1, <2>2, <2>3 DEF AnswerInv, Answered
<1>4. CASE CallMail \/ \E s \in StepIds : SendMail(s)
  <2>1. UNCHANGED <<plan, soul, said, at, history>>
    BY <1>4 DEF CallMail, SendMail, turnVars, contextVars, opVars, memoryVars
  <2>2. Answer' = Answer /\ Results' = Results
    BY <2>1 DEF Answer, Results
  <2>3. QED
    BY <1>0, <2>1, <2>2 DEF AnswerInv, Fresh, Over, Half, Answered, Copying
<1>5. QED
  BY <1>1, <1>2, <1>3, <1>4 DEF LoopNext

\* The soul's steps leave it alone.
LEMMA StoryKeptBySoul ==
    ASSUME LoopTypes, OpInv, PlanInv, StoryInv, LoopNext, ~DoContext, ~Interrupt, ~Restart
    PROVE  StoryInv'
<1>0. /\ Good(Story) /\ Remembers /\ CopyInv /\ Landed
  BY DEF StoryInv, Landed
<1>1. /\ UNCHANGED <<history, nextCheckpoint, file, due, source, at>>
      /\ (plan = <<>> /\ at = "start") \/ plan' = plan
  BY SoulSteps DEF SoulStep
<1>2. Story' = Story
  BY <1>1 DEF Story
<1>3. Good(Story)'
  BY <1>0, <1>2, Zenon
<1>4. Remembers'
  BY <1>0, <1>1 DEF Remembers, Tells
<1>5. CopyInv'
  <2>1. CASE at = "start"
    BY <1>1, <2>1 DEF CopyInv, Copying
  <2>2. CASE plan' = plan
    <3>1. Target' = Target
      BY <2>2 DEF Target
    <3>2. QED
      BY <1>0, <1>1, <1>2, <2>2, <3>1 DEF CopyInv, Copying, Doing, Intact, Spoilt
  <2>3. QED
    BY <1>1, <2>1, <2>2
<1>6. Landed'
  <2>1. CASE CallMail \/ \E s \in StepIds : SendMail(s)
    BY <1>0, <1>1, <2>1 DEF Landed, CallMail, SendMail, turnVars, contextVars, opVars
  <2>2. CASE Rewind
    BY <2>2 DEF Rewind, GoesOn, Landed
  <2>3. CASE ~(CallMail \/ (\E s \in StepIds : SendMail(s)) \/ Rewind)
    <3>1. soul' # "rewound"
      BY <2>3 DEF LoopNext, BeginTurn, SlashClear, SlashCompact, SlashEnds, AskModel,
                  CountCheckpoints, ModelAnswers, GrowContext, Rejected, DeliverMail,
                  AnotherStep, TurnDone, GoesOn
    <3>2. QED
      BY <3>1 DEF Landed
  <2>4. QED
    BY <2>1, <2>2, <2>3
<1>7. AnswerInv'
  BY AnswerKeptBySoul
<1>8. QED
  BY <1>3, <1>4, <1>5, <1>6, <1>7 DEF StoryInv, Landed

\* What is cut where nothing is spoilt leaves a file that says what is remembered.
LEMMA StoryKeptByCuts ==
    ASSUME LoopTypes, OpInv, PlanInv, StoryInv, Interrupt \/ Restart, ~spoilt'
    PROVE  StoryInv'
<1>0. /\ file \in Seq(Line) /\ source \in Seq(Line) /\ Good(Story) /\ Remembers /\ AnswerInv
      /\ history \in Seq(MessageLine)
  BY DEF LoopTypes, LoopTypeOK, ContextTypeOK, StoryInv
<1>1. /\ ~torn' /\ due = <<>> /\ at # "copied" /\ at # "copy" /\ (soul = "verdict" => plan = <<>>)
      /\ file' = file /\ due' = <<>> /\ source' = <<>> /\ at' = "start" /\ plan' = <<>>
      /\ soul' = "idle"
  BY DEF Interrupt, Restart, GiveUp, Restore, Spoils, Tears, diskVars
<1>e. file \o <<>> = file /\ file \o (<<>> \o <<>>) = file /\ MessagesOf(<<>>) = <<>> /\ NextOf(<<>>) = 0
  <2>1. <<>> \in Seq(Line)
    OBVIOUS
  <2>2. file \o <<>> = file
    BY <1>0, JoinNothing
  <2>3. QED
    BY <1>0, <2>1, <2>2, OwedParts, NothingSaid
<1>2. Good(file)
  <2>1. Story = file \o source
    BY <1>1, StoryBetween
  <2>2. QED
    BY <1>0, <2>1, GoodBeginning, Zenon
<1>3. Good(Story)'
  <2>1. Story' = file
    BY <1>1, <1>e DEF Story
  <2>2. QED
    BY <1>2, <2>1
<1>4. at \in {"forget", "create"} => file = <<>>
  BY DEF OpInv
<1>5. Answered(history)
  <2>1. ~Copying
    BY <1>1 DEF Copying
  <2>2. QED
    BY <1>0, <1>1, <2>1 DEF AnswerInv, Over
<1>6. Intact(file) /\ at \notin {"forget", "create"} => Tells(file)
  BY <1>0, <1>1, <1>e DEF Remembers
<1>7. (Intact(file) => Tells(file)') /\ Answered(history')
  <2>1. CASE Interrupt
    <3>1. UNCHANGED <<history, nextCheckpoint>> /\ ~torn
      BY <1>1, <2>1 DEF Interrupt, GiveUp, memoryVars
    <3>2. at \in {"forget", "create"} => Tells(file)
      <4>1. at \in {"forget", "create"} => history = <<>> /\ nextCheckpoint = 0
        BY <3>1 DEF OpInv
      <4>2. QED
        BY <1>4, <1>e, <4>1 DEF Tells
    <3>3. QED
      BY <1>1, <1>5, <1>6, <3>1, <3>2 DEF Tells
  <2>2. CASE Restart
    <3>1. Intact(file)
      BY <1>1, <2>2 DEF Restart, Restore
    <3>2. Readable(file) = file
      BY <1>0, <3>1, ReadsItAll
    <3>3. history' = MessagesOf(file) /\ nextCheckpoint' = NextOf(file)
      BY <2>2, <3>2 DEF Restart, Restore
    <3>4. CASE at \in {"forget", "create"}
      <4>1. history' = <<>>
        BY <1>4, <1>e, <3>3, <3>4
      <4>2. QED
        BY <1>1, <3>3, <4>1 DEF Tells, Answered
    <3>5. CASE at \notin {"forget", "create"}
      <4>1. history' = history
        BY <1>6, <3>1, <3>3, <3>5 DEF Tells
      <4>2. QED
        BY <1>1, <1>5, <3>3, <4>1 DEF Tells
    <3>6. QED
      BY <3>4, <3>5
  <2>3. QED
    BY <2>1, <2>2
<1>8. Remembers'
  <2>1. file' \o due' = file
    BY <1>1, <1>e
  <2>2. QED
    BY <1>1, <1>7, <2>1 DEF Remembers, Tells, Intact, Spoilt
<1>9. CopyInv'
  BY <1>1 DEF CopyInv, Copying
<1>10. AnswerInv'
  <2>1. <<>> \in Seq(Whole)
    OBVIOUS
  <2>2. QED
    BY <1>1, <1>7, <2>1 DEF AnswerInv, Answered
<1>11. QED
  BY <1>1, <1>3, <1>8, <1>9, <1>10 DEF StoryInv, Landed

\* It stays when nothing happens.
LEMMA StoryStutters ==
    ASSUME StoryInv, UNCHANGED soulVars
    PROVE  StoryInv'
<1>1. UNCHANGED <<history, nextCheckpoint, file, due, source, at, plan, soul, said, back>>
  BY DEF soulVars, contextVars, memoryVars, diskVars, opVars, turnVars
<1>2. Story' = Story /\ Target' = Target /\ Answer' = Answer /\ Results' = Results
  BY <1>1 DEF Story, Target, Answer, Results
<1>3. Good(Story)'
  <2>1. Good(Story)
    BY DEF StoryInv
  <2>2. QED
    BY <1>2, <2>1, Zenon
<1>4. Remembers'
  BY <1>1 DEF StoryInv, Remembers, Tells
<1>5. CopyInv'
  BY <1>1, <1>2 DEF StoryInv, CopyInv, Copying, Doing, Intact, Spoilt
<1>6. AnswerInv'
  BY <1>1, <1>2 DEF StoryInv, AnswerInv, Fresh, Over, Half, Answered, Copying
<1>7. QED
  BY <1>1, <1>3, <1>4, <1>5, <1>6 DEF StoryInv, Landed

---------------------------------------------------------------------------------
(* The invariant, and what it gives. *)

\* Every step keeps the invariant.
LEMMA LoopInvKept ==
    ASSUME LoopInv, [LoopNext]_soulVars
    PROVE  LoopInv'
<1>0. LoopTypes /\ OpInv /\ PlanInv /\ FileCatchesUp /\ (~spoilt => StoryInv)
  BY DEF LoopInv
<1>1. LoopTypes' /\ OpInv' /\ PlanInv' /\ FileCatchesUp'
  BY <1>0, TypesKept, OpKept, PlanKept, FileKept
<1>2. ASSUME ~spoilt' PROVE StoryInv'
  <2>1. spoilt' = spoilt \/ Interrupt \/ Restart
    BY DEF LoopNext, DoContext, BeginTurn, SlashClear, SlashCompact, SlashEnds, AskModel,
           CountCheckpoints, CallMail, ModelAnswers, GrowContext, Rejected, Rewind, DeliverMail,
           AnotherStep, TurnDone, SendMail, turnVars, soulVars
  <2>2. ~spoilt
    BY <1>2, <2>1 DEF Interrupt, Restart
  <2>3. StoryInv
    BY <1>0, <2>2
  <2>4. CASE Interrupt \/ Restart
    BY <1>0, <1>2, <2>3, <2>4, StoryKeptByCuts
  <2>5. CASE UNCHANGED soulVars
    BY <2>3, <2>5, StoryStutters
  <2>6. CASE LoopNext /\ ~Interrupt /\ ~Restart
    BY <1>0, <2>3, <2>6, StoryKeptByContext, StoryKeptBySoul
  <2>7. QED
    BY <2>4, <2>5, <2>6
<1>3. QED
  BY <1>1, <1>2 DEF LoopInv

\* It holds before the first turn.
LEMMA LoopInvBegins ==
    ASSUME LoopInit
    PROVE  LoopInv
<1> USE LoopAssumption DEF LoopInit, ContextInit
<1>e. <<>> \o <<>> = <<>> /\ <<>> \o (<<>> \o <<>>) = <<>>
  <2>1. <<>> \in Seq(Line)
    OBVIOUS
  <2>2. QED
    BY <2>1, OwedParts, JoinNothing, Zenon
<1>1. LoopTypes
  <2>1. Nothing \in Reply
    BY DEF Nothing, Reply
  <2>2. <<>> \in Seq(Line) /\ <<>> \in Seq(Op) /\ <<>> \in Seq(MessageLine) /\ <<>> \in Seq(Asked)
    OBVIOUS
  <2>3. ContextTypeOK
    BY <2>2 DEF ContextTypeOK
  <2>4. LoopTypeOK
    <3>1. turns \in 0 .. MaxTurns /\ steps \in 0 .. MaxAsks /\ nCheckpoints \in Nat /\ back \in Nat
      OBVIOUS
    <3>2. spoilt \in BOOLEAN /\ calling \in SUBSET StepIds /\ said \in Reply
      BY <2>1
    <3>3. mail \in [to : Nat, by : StepIds] \cup {NoMail}
      OBVIOUS
    <3>4. soul = "idle" /\ plan = <<>>
      OBVIOUS
    <3>5. QED
      BY <2>3, <3>1, <3>2, <3>3, <3>4 DEF LoopTypeOK
  <2>5. QED
    BY <2>2, <2>4 DEF LoopTypes
<1>2. OpInv
  BY DEF OpInv, Writing, Copying, Doing
<1>3. PlanInv
  BY DEF PlanInv
<1>4. FileCatchesUp
  BY <1>e, NothingSaid DEF FileCatchesUp, ReadsAs
<1>5. StoryInv
  <2>1. Story = <<>>
    BY <1>e DEF Story
  <2>2. Good(Story)
    BY <2>1 DEF Good
  <2>3. Remembers
    BY <1>e, NothingSaid DEF Remembers, Tells
  <2>4. CopyInv
    BY DEF CopyInv, Copying
  <2>5. AnswerInv
    BY DEF AnswerInv, Answered
  <2>6. QED
    BY <2>2, <2>3, <2>4, <2>5 DEF StoryInv, Landed
<1>6. QED
  BY <1>1, <1>2, <1>3, <1>4, <1>5 DEF LoopInv

\* So it always holds.
LEMMA LoopInvHolds == LoopSpec => []LoopInv
<1>1. LoopInit => LoopInv
  BY LoopInvBegins
<1>2. LoopInv /\ [LoopNext]_soulVars => LoopInv'
  BY LoopInvKept
<1>3. QED
  BY <1>1, <1>2, PTL DEF LoopSpec

\* The types of the context and of the soul (context.rs, kimisoul.rs).
THEOREM LoopTypeCorrect == LoopSpec => []LoopTypeOK
<1>1. LoopInv => LoopTypeOK
  BY DEF LoopInv, LoopTypes
<1>2. QED
  BY <1>1, LoopInvHolds, PTL

\* The memory is what the file says once the operation under way has written what it owes,
\* but for one that was cut where the two differ, while no two records are glued
\* (context.rs:158-284).
THEOREM TheFileCatchesUp == LoopSpec => []FileCatchesUp
<1>1. LoopInv => FileCatchesUp
  BY DEF LoopInv
<1>2. QED
  BY <1>1, LoopInvHolds, PTL

\* A rewind ends at the checkpoint it goes back to: the copy finds it in the rotated file,
\* whatever was rewound or compacted since it was written, unless a rewind or a memory the
\* file does not hold was cut (kimisoul.rs:843-853).
THEOREM RewindsLand == LoopSpec => []RewindLands
<1>1. LoopInv => RewindLands
  BY DEF LoopInv, StoryInv, Landed, RewindLands
<1>2. QED
  BY <1>1, LoopInvHolds, PTL

\* The model is asked with no tool call that has no result, and no result that no call asked
\* for, unless something of the conversation was lost with what cut it, half a step included
\* (kimisoul.rs:1013-1049).
THEOREM CallsAreAnsweredAlways == LoopSpec => []CallsAreAnswered
<1>1. LoopInv => CallsAreAnswered
  <2> SUFFICES ASSUME LoopInv, soul = "model", ~spoilt PROVE Answered(history)
    BY DEF CallsAreAnswered, Answered
  <2>1. AnswerInv /\ OpInv /\ PlanInv /\ LoopTypes
    BY DEF LoopInv, StoryInv
  <2>2. ~Copying
    <3>1. ASSUME Doing("revert") PROVE FALSE
      <4>1. plan # <<>> /\ Head(plan).op = "revert" /\ Head(plan) = plan[1] /\ 1 \in DOMAIN plan
        BY <2>1, <3>1, AskedParts DEF Doing, LoopTypes
      <4>2. QED
        BY <2>1, <4>1 DEF PlanInv
    <3>2. QED
      BY <2>1, <3>1 DEF OpInv
  <2>3. QED
    BY <2>1, <2>2 DEF AnswerInv
<1>2. QED
  BY <1>1, LoopInvHolds, PTL
=================================================================================
