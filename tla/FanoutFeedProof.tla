----------------------------- MODULE FanoutFeedProof -----------------------------
(***************************************************************************)
(* FanoutFeed, for any set of connections and any bounds: its types, the   *)
(* balance of its accounts, that no attachment is ever pruned, and that it *)
(* implements SessionFeed.                                                 *)
(***************************************************************************)
EXTENDS FanoutFeed, TLAPS

LEMMA TypeInit == Init => TypeOK
  BY DEF Init, FanoutInit, TypeOK, FanoutTypeOK

LEMMA TypeStep == TypeOK /\ [Next]_vars => TypeOK'
<1> SUFFICES ASSUME TypeOK, [Next]_vars PROVE TypeOK'
  OBVIOUS
<1> USE DEF TypeOK, FanoutTypeOK
<1>1. CASE Publish
  BY <1>1 DEF Publish, Broadcast, Live
<1>2. CASE Stop
  BY <1>2 DEF Stop, Shutdown, Drop
<1>3. ASSUME NEW c \in Conns, Join(c) PROVE TypeOK'
  BY <1>3 DEF Join, Attach
<1>4. ASSUME NEW c \in Conns, Leave(c) PROVE TypeOK'
  BY <1>4 DEF Leave, Detach, Drop
<1>5. ASSUME NEW c \in Conns, Answer(c) PROVE TypeOK'
  <2>1. queue' \in [Conns -> Seq(Nat)]
    BY <1>5 DEF Answer, SendTo
  <2>2. attached' \in SUBSET Conns /\ staging' \in SUBSET Conns
    BY <1>5 DEF Answer, SendTo, Drop
  <2>3. CASE c \in attached \ open
    <3>1. staged' = [d \in Conns |-> IF d \in {c} THEN <<>> ELSE staged[d]]
      BY <1>5, <2>3 DEF Answer, SendTo, Drop
    <3>2. staged' \in [Conns -> Seq(Nat)]
      BY <3>1
    <3>3. QED
      BY <1>5, <2>1, <2>2, <3>2 DEF Answer, SendTo
  <2>4. CASE c \notin attached \ open
    BY <1>5, <2>1, <2>4 DEF Answer, SendTo
  <2>5. QED
    BY <2>3, <2>4
<1>6. ASSUME NEW c \in Conns, BeginReplay(c) PROVE TypeOK'
  <2>1. staged' \in [Conns -> Seq(Nat)]
    <3>1. CASE c \in attached
      <4>1. <<>> \in Seq(Nat)
        OBVIOUS
      <4>2. QED
        BY <1>6, <3>1, <4>1 DEF BeginReplay, BeginCatchUp
    <3>2. CASE c \notin attached
      BY <1>6, <3>2 DEF BeginReplay, BeginCatchUp
    <3>3. QED
      BY <3>1, <3>2
  <2>2. staging' \in SUBSET Conns
    BY <1>6 DEF BeginReplay, BeginCatchUp
  <2>3. QED
    BY <1>6, <2>1, <2>2 DEF BeginReplay, BeginCatchUp
<1>7. ASSUME NEW c \in Conns, EndReplay(c) PROVE TypeOK'
  BY <1>7 DEF EndReplay, EndCatchUp
<1>8. ASSUME NEW c \in Conns, Write(c) PROVE TypeOK'
  <2>1. Head(queue[c]) \in Nat /\ Tail(queue[c]) \in Seq(Nat)
    BY <1>8 DEF Write, Take
  <2>2. QED
    BY <1>8, <2>1 DEF Write, Take
<1>9. CASE UNCHANGED vars
  BY <1>9 DEF vars
<1>10. QED
  BY <1>1, <1>2, <1>3, <1>4, <1>5, <1>6, <1>7, <1>8, <1>9 DEF Next

(* Every variable stays in its type. *)
THEOREM TypeCorrect == Spec => []TypeOK
<1>1. Init => TypeOK
  BY TypeInit
<1>2. TypeOK /\ [Next]_vars => TypeOK'
  BY TypeStep
<1>3. QED
  BY <1>1, <1>2, PTL DEF Spec

---------------------------------------------------------------------------------
(* The maps: an attachment has an open queue, only an attachment stages, and an   *)
(* id that was never minted has nothing.                                          *)

LEMMA MapsStep == TypeOK /\ MapsOK /\ [Next]_vars => MapsOK'
<1> SUFFICES ASSUME TypeOK, MapsOK, [Next]_vars PROVE MapsOK'
  OBVIOUS
<1> USE DEF TypeOK, FanoutTypeOK, MapsOK
<1>1. CASE Publish
  BY <1>1 DEF Publish, Broadcast, Live
<1>2. CASE Stop
  BY <1>2 DEF Stop, Shutdown, Drop
<1>3. ASSUME NEW c \in Conns, Join(c) PROVE MapsOK'
  BY <1>3 DEF Join, Attach
<1>4. ASSUME NEW c \in Conns, Leave(c) PROVE MapsOK'
  BY <1>4 DEF Leave, Detach, Drop
<1>5. ASSUME NEW c \in Conns, Answer(c) PROVE MapsOK'
  BY <1>5 DEF Answer, SendTo, Drop
<1>6. ASSUME NEW c \in Conns, BeginReplay(c) PROVE MapsOK'
  BY <1>6 DEF BeginReplay, BeginCatchUp
<1>7. ASSUME NEW c \in Conns, EndReplay(c) PROVE MapsOK'
  BY <1>7 DEF EndReplay, EndCatchUp
<1>8. ASSUME NEW c \in Conns, Write(c) PROVE MapsOK'
  BY <1>8 DEF Write, Take
<1>9. CASE UNCHANGED vars
  BY <1>9 DEF vars
<1>10. QED
  BY <1>1, <1>2, <1>3, <1>4, <1>5, <1>6, <1>7, <1>8, <1>9 DEF Next

---------------------------------------------------------------------------------
(* What is held back: staging delays facts and loses none.                        *)

LEMMA HeldBackStep ==
  TypeOK /\ MapsOK /\ (\A c \in Conns : HeldBack(c)) /\ [Next]_vars
    => \A c \in Conns : HeldBack(c)'
<1> SUFFICES ASSUME TypeOK, MapsOK, \A c \in Conns : HeldBack(c), [Next]_vars,
                    NEW d \in Conns
             PROVE  HeldBack(d)'
  OBVIOUS
<1> USE DEF TypeOK, FanoutTypeOK, MapsOK, HeldBack
<1>0. HeldBack(d)
  OBVIOUS
<1>1. CASE Publish
  <2>1. CASE d \in staging
    <3>1. staged'[d] = Append(staged[d], published + 1) /\ flowed'[d] = flowed[d]
      BY <1>1, <2>1 DEF Publish, Broadcast, Live
    <3>2. published' = published + 1 /\ flowed[d] + Len(staged[d]) = published
      BY <1>0, <1>1, <2>1 DEF Publish
    <3>3. /\ staged[d] \in Seq(Nat) /\ flowed[d] \in Nat
          /\ \A i \in 1..Len(staged[d]) : staged[d][i] = flowed[d] + i
      BY <1>0
    <3>4. /\ Len(staged'[d]) = Len(staged[d]) + 1
          /\ \A i \in 1..Len(staged'[d]) : staged'[d][i] = flowed[d] + i
      <4> DEFINE s == staged[d]
                 n == published + 1
      <4>1. s \in Seq(Nat) /\ n \in Nat /\ Len(s) \in Nat /\ n = flowed[d] + (Len(s) + 1)
        BY <3>2, <3>3
      <4>2. staged'[d] = Append(s, n) /\ \A i \in 1..Len(s) : s[i] = flowed[d] + i
        BY <3>1, <3>3
      <4> HIDE DEF s, n
      <4>3. /\ Len(Append(s, n)) = Len(s) + 1 /\ Append(s, n)[Len(s) + 1] = n
            /\ \A i \in 1..Len(s) : Append(s, n)[i] = s[i]
        BY <4>1
      <4>4. \A i \in 1..Len(s) + 1 : i \in 1..Len(s) \/ i = Len(s) + 1
        BY <4>1
      <4>5. QED
        BY <4>1, <4>2, <4>3, <4>4 DEF s
    <3>5. Len(staged[d]) \in Nat /\ published \in Nat /\ flowed[d] \in Nat
      BY <3>3
    <3>6. Len(staged'[d]) = Len(staged[d]) + 1
      BY ONLY <3>4
    <3>7. flowed'[d] + Len(staged'[d]) = published' /\ published' \in Nat
      BY ONLY <3>1, <3>2, <3>5, <3>6
    <3>8. \A i \in 1..Len(staged'[d]) : staged'[d][i] = flowed'[d] + i
      BY ONLY <3>1, <3>4
    <3>9. QED
      BY ONLY <3>7, <3>8 DEF HeldBack
  <2>2. CASE d \notin staging
    <3>1. staged'[d] = <<>> /\ staged[d] = <<>>
      BY <1>1, <2>2 DEF Publish, Broadcast
    <3>2. d \in attached' => flowed'[d] = published'
      BY <1>1, <2>2 DEF Publish, Broadcast, Live
    <3>3. flowed'[d] \in {flowed[d], published'} /\ published' = published + 1
      BY <1>1 DEF Publish
    <3>4. QED
      BY <1>0, <3>1, <3>2, <3>3
  <2>3. QED
    BY <2>1, <2>2
<1>2. CASE Stop
  BY <1>0, <1>2 DEF Stop, Shutdown, Drop
<1>3. ASSUME NEW c \in Conns, Join(c) PROVE HeldBack(d)'
  <2>1. staged'[d] = staged[d] /\ published' = published
    BY <1>3 DEF Join, Attach
  <2>2. CASE d = c
    <3>1. staged[d] = <<>> /\ flowed'[d] = published
      BY <1>3, <2>2 DEF Join
    <3>2. QED
      BY <2>1, <3>1
  <2>3. CASE d # c
    <3>1. flowed'[d] = flowed[d] /\ (d \in attached' <=> d \in attached)
      BY <1>3, <2>3 DEF Join, Attach
    <3>2. QED
      BY <1>0, <2>1, <3>1
  <2>4. QED
    BY <2>2, <2>3
<1>4. ASSUME NEW c \in Conns, Leave(c) PROVE HeldBack(d)'
  BY <1>0, <1>4 DEF Leave, Detach, Drop
<1>5. ASSUME NEW c \in Conns, Answer(c) PROVE HeldBack(d)'
  <2>1. c \notin attached \ open
    OBVIOUS
  <2>2. QED
    BY <1>0, <1>5, <2>1 DEF Answer, SendTo
<1>6. ASSUME NEW c \in Conns, BeginReplay(c) PROVE HeldBack(d)'
  BY <1>0, <1>6 DEF BeginReplay, BeginCatchUp
<1>7. ASSUME NEW c \in Conns, EndReplay(c) PROVE HeldBack(d)'
  BY <1>0, <1>7 DEF EndReplay, EndCatchUp
<1>8. ASSUME NEW c \in Conns, Write(c) PROVE HeldBack(d)'
  BY <1>0, <1>8 DEF Write, Take
<1>9. CASE UNCHANGED vars
  BY <1>0, <1>9 DEF vars
<1>10. QED
  BY <1>1, <1>2, <1>3, <1>4, <1>5, <1>6, <1>7, <1>8, <1>9 DEF Next

---------------------------------------------------------------------------------
(* What is in transit: what a step may do to a queue, then the steps.               *)

LEMMA CarriesAnswer ==
  ASSUME NEW q \in Seq(Nat), NEW from \in Nat, NEW upto \in Nat, Carries(q, from, upto)
  PROVE  Carries(Append(q, 0), from, upto)
<1> DEFINE p == Append(q, 0)
<1>1. /\ p \in Seq(Nat) /\ Len(p) = Len(q) + 1 /\ p[Len(q) + 1] = 0
      /\ \A i \in 1..Len(q) : p[i] = q[i]
  OBVIOUS
<1> HIDE DEF p
<1>2. QED
  BY <1>1 DEF Carries, p

LEMMA CarriesAll ==
  ASSUME NEW q \in Seq(Nat), NEW s \in Seq(Nat), NEW from \in Nat, NEW upto \in Nat,
         Carries(q, from, upto), \A i \in 1..Len(s) : s[i] = upto + i
  PROVE  Carries(q \o s, from, upto + Len(s))
<1> DEFINE p == q \o s
<1>0. /\ Len(q) \in Nat /\ \A i \in 1..Len(q) : q[i] \in Nat
      /\ Len(s) \in Nat
  OBVIOUS
<1>1. /\ Len(p) = Len(q) + Len(s)
      /\ \A i \in 1..Len(q) : p[i] = q[i]
      /\ \A i \in Len(q) + 1 .. Len(q) + Len(s) : p[i] = s[i - Len(q)]
  OBVIOUS
<1> HIDE DEF p
<1>a. \A i, j \in 1..Len(q) : i < j /\ q[i] # 0 /\ q[j] # 0 => q[i] < q[j]
  BY DEF Carries
<1>b. \A i \in 1..Len(q) : q[i] # 0 => q[i] <= upto
  BY DEF Carries
<1>2. \A i \in Len(q) + 1 .. Len(q) + Len(s) : p[i] = upto + (i - Len(q))
  BY <1>0, <1>1
<1>3. \A i \in 1..Len(p) : p[i] = 0 \/ (from < p[i] /\ p[i] <= upto + Len(s))
  <2> TAKE i \in 1..Len(p)
  <2>1. CASE i <= Len(q)
    BY <1>0, <1>1, <2>1 DEF Carries
  <2>2. CASE i > Len(q)
    BY <1>0, <1>1, <1>2, <2>2 DEF Carries
  <2>3. QED
    BY <1>0, <1>1, <2>1, <2>2
<1>4. ASSUME NEW i \in 1..Len(p), NEW j \in 1..Len(p), i < j, p[i] # 0, p[j] # 0
      PROVE  p[i] < p[j]
  <2>1. CASE j <= Len(q)
    <3>1. i \in 1..Len(q) /\ j \in 1..Len(q)
      BY <1>0, <1>1, <1>4, <2>1
    <3>2. QED
      BY <1>1, <1>a, <1>4, <3>1
  <2>2. CASE i <= Len(q) /\ j > Len(q)
    <3>1. i \in 1..Len(q) /\ j \in Len(q) + 1 .. Len(q) + Len(s)
      BY <1>0, <1>1, <1>4, <2>2
    <3>2. p[i] <= upto /\ p[j] = upto + (j - Len(q)) /\ p[i] \in Nat
      BY <1>0, <1>1, <1>2, <1>4, <1>b, <3>1
    <3>3. QED
      BY <1>0, <2>2, <3>1, <3>2
  <2>3. CASE i > Len(q)
    <3>1. i \in Len(q) + 1 .. Len(q) + Len(s) /\ j \in Len(q) + 1 .. Len(q) + Len(s)
      BY <1>0, <1>1, <1>4, <2>3
    <3>2. p[i] = upto + (i - Len(q)) /\ p[j] = upto + (j - Len(q))
      BY <1>2, <3>1
    <3>3. QED
      BY <1>0, <1>4, <3>1, <3>2
  <2>4. QED
    BY <1>0, <1>1, <2>1, <2>2, <2>3
<1>5. ASSUME NEW k \in from + 1 .. upto + Len(s)
      PROVE  \E i \in 1..Len(p) : p[i] = k
  <2>1. CASE k <= upto
    <3>1. PICK i \in 1..Len(q) : q[i] = k
      BY <2>1 DEF Carries
    <3>2. QED
      BY <1>0, <1>1, <3>1
  <2>2. CASE k > upto
    <3> DEFINE i == Len(q) + (k - upto)
    <3>1. i \in Len(q) + 1 .. Len(q) + Len(s) /\ i - Len(q) = k - upto
      BY <1>0, <2>2
    <3> HIDE DEF i
    <3>2. p[i] = k
      <4>1. p[i] = upto + (i - Len(q))
        BY <1>2, <3>1
      <4>2. QED
        BY <3>1, <4>1
    <3>3. i \in 1..Len(p)
      BY <1>0, <1>1, <3>1
    <3>4. QED
      BY <3>2, <3>3
  <2>3. QED
    BY <2>1, <2>2
<1>6. QED
  BY <1>3, <1>4, <1>5 DEF Carries, p

LEMMA CarriesRest ==
  ASSUME NEW q \in Seq(Nat), NEW from \in Nat, NEW upto \in Nat, Carries(q, from, upto),
         q # <<>>
  PROVE  /\ Carries(Tail(q), IF Head(q) = 0 THEN from ELSE Head(q), upto)
         /\ Head(q) # 0 => Head(q) = from + 1 /\ Head(q) <= upto
<1> DEFINE p == Tail(q)
<1>0. /\ Len(q) \in Nat \ {0} /\ \A i \in 1..Len(q) : q[i] \in Nat
  OBVIOUS
<1>1. /\ p \in Seq(Nat) /\ Len(p) + 1 = Len(q) /\ Head(q) = q[1] /\ 1 \in 1..Len(q)
      /\ \A i \in 1..Len(p) : p[i] = q[i + 1] /\ i + 1 \in 1..Len(q)
      /\ \A i \in 1..Len(q) : i # 1 => i - 1 \in 1..Len(p) /\ p[i - 1] = q[i]
  OBVIOUS
<1> HIDE DEF p
<1>2. \A i, j \in 1..Len(p) : i < j /\ p[i] # 0 /\ p[j] # 0 => p[i] < p[j]
  <2> TAKE i, j \in 1..Len(p)
  <2>1. i + 1 \in 1..Len(q) /\ j + 1 \in 1..Len(q) /\ (i < j => i + 1 < j + 1)
    BY <1>0, <1>1
  <2>2. QED
    BY <1>1, <2>1 DEF Carries
<1>3. CASE q[1] = 0
  <2>1. \A k \in from + 1 .. upto : \E i \in 1..Len(p) : p[i] = k
    <3> TAKE k \in from + 1 .. upto
    <3>1. PICK i \in 1..Len(q) : q[i] = k
      BY DEF Carries
    <3>2. i # 1
      BY <1>3, <3>1
    <3>3. QED
      BY <1>1, <3>1, <3>2
  <2>2. \A i \in 1..Len(p) : p[i] = 0 \/ (from < p[i] /\ p[i] <= upto)
    BY <1>1 DEF Carries
  <2>3. QED
    BY <1>1, <1>2, <1>3, <2>1, <2>2 DEF Carries, p
<1>4. CASE q[1] # 0
  <2>1. from < q[1] /\ q[1] <= upto /\ q[1] \in Nat
    BY <1>1, <1>4 DEF Carries
  <2>2. \A i \in 1..Len(q) : i # 1 /\ q[i] # 0 => q[1] < q[i]
    BY <1>1, <1>4 DEF Carries
  <2>3. q[1] = from + 1
    <3>1. from + 1 \in from + 1 .. upto
      BY <2>1
    <3>2. \A k \in from + 1 .. upto : \E i \in 1..Len(q) : q[i] = k
      BY DEF Carries
    <3>3. PICK i \in 1..Len(q) : q[i] = from + 1
      BY ONLY <3>1, <3>2
    <3>4. QED
      BY <2>1, <2>2, <3>3
  <2>4. \A k \in q[1] + 1 .. upto : \E i \in 1..Len(p) : p[i] = k
    <3> TAKE k \in q[1] + 1 .. upto
    <3>1. PICK i \in 1..Len(q) : q[i] = k
      BY <2>1, <2>3 DEF Carries
    <3>2. i # 1
      BY <2>1, <3>1
    <3>3. QED
      BY <1>1, <3>1, <3>2
  <2>5. \A i \in 1..Len(p) : p[i] = 0 \/ (q[1] < p[i] /\ p[i] <= upto)
    BY <1>1, <2>2 DEF Carries
  <2>6. QED
    BY <1>1, <1>2, <1>4, <2>1, <2>3, <2>4, <2>5 DEF Carries, p
<1>5. QED
  BY <1>3, <1>4

LEMMA CarriesFact ==
  ASSUME NEW q \in Seq(Nat), NEW from \in Nat, NEW upto \in Nat, Carries(q, from, upto)
  PROVE  Carries(Append(q, upto + 1), from, upto + 1)
<1> DEFINE s == <<upto + 1>>
<1>1. s \in Seq(Nat) /\ Len(s) = 1 /\ \A i \in 1..Len(s) : s[i] = upto + i
  OBVIOUS
<1>2. Carries(q \o s, from, upto + Len(s))
  BY <1>1, CarriesAll
<1>3. Append(q, upto + 1) = q \o s
  OBVIOUS
<1>4. QED
  BY <1>1, <1>2, <1>3

LEMMA InTransitStep ==
  TypeOK /\ AccountsBalance /\ [Next]_vars => \A c \in Conns : InTransit(c)'
<1> SUFFICES ASSUME TypeOK, AccountsBalance, [Next]_vars, NEW d \in Conns
             PROVE  Carries(queue'[d], seen'[d], flowed'[d])
  BY DEF InTransit
<1>0. /\ queue[d] \in Seq(Nat) /\ seen[d] \in Nat /\ flowed[d] \in Nat
      /\ staged[d] \in Seq(Nat) /\ published \in Nat
      /\ Carries(queue[d], seen[d], flowed[d])
  BY DEF TypeOK, FanoutTypeOK, AccountsBalance, InTransit
<1> DEFINE Same == queue'[d] = queue[d] /\ seen'[d] = seen[d] /\ flowed'[d] = flowed[d]
<1>s. Same => Carries(queue'[d], seen'[d], flowed'[d])
  BY <1>0
<1>1. CASE Publish
  <2>1. CASE d \in Live \cap open
    <3>1. queue'[d] = Append(queue[d], published + 1) /\ flowed'[d] = published + 1
      BY <1>1, <2>1 DEF Publish, Broadcast, TypeOK, FanoutTypeOK
    <3>2. seen'[d] = seen[d]
      BY <1>1 DEF Publish
    <3>3. flowed[d] = published
      <4>1. d \in attached /\ staged[d] = <<>>
        BY <2>1 DEF Live, AccountsBalance, MapsOK
      <4>2. flowed[d] + Len(staged[d]) = published
        BY <4>1 DEF AccountsBalance, HeldBack
      <4>3. QED
        BY <1>0, <4>1, <4>2
    <3>4. QED
      BY <1>0, <3>1, <3>2, <3>3, CarriesFact
  <2>2. CASE d \notin Live \cap open
    BY <1>1, <1>s, <2>2 DEF Publish, Broadcast
  <2>3. QED
    BY <2>1, <2>2
<1>2. CASE Stop
  BY <1>2, <1>s DEF Stop, Shutdown
<1>3. ASSUME NEW c \in Conns, Join(c) PROVE Carries(queue'[d], seen'[d], flowed'[d])
  <2>1. CASE c = d
    <3>1. queue'[d] = <<>> /\ seen'[d] = published /\ flowed'[d] = published
      BY <1>3, <2>1 DEF Join, Attach, AccountsBalance, MapsOK, TypeOK
    <3>2. QED
      BY <1>0, <3>1 DEF Carries
  <2>2. CASE c # d
    BY <1>3, <1>s, <2>2 DEF Join, Attach, TypeOK
  <2>3. QED
    BY <2>1, <2>2
<1>4. ASSUME NEW c \in Conns, Leave(c) PROVE Carries(queue'[d], seen'[d], flowed'[d])
  BY <1>4, <1>s DEF Leave, Detach
<1>5. ASSUME NEW c \in Conns, Answer(c) PROVE Carries(queue'[d], seen'[d], flowed'[d])
  <2>1. seen'[d] = seen[d] /\ flowed'[d] = flowed[d]
    BY <1>5 DEF Answer
  <2>2. queue'[d] \in {queue[d], Append(queue[d], 0)}
    BY <1>5 DEF Answer, SendTo, TypeOK, FanoutTypeOK
  <2>3. QED
    BY <1>0, <2>1, <2>2, CarriesAnswer
<1>6. ASSUME NEW c \in Conns, BeginReplay(c)
      PROVE  Carries(queue'[d], seen'[d], flowed'[d])
  BY <1>6, <1>s DEF BeginReplay, BeginCatchUp
<1>7. ASSUME NEW c \in Conns, EndReplay(c) PROVE Carries(queue'[d], seen'[d], flowed'[d])
  <2>1. c \in staging \cap open /\ seen' = seen
    BY <1>7 DEF EndReplay, AccountsBalance, MapsOK
  <2>2. CASE c = d
    <3>1. queue'[d] = queue[d] \o staged[d] /\ flowed'[d] = flowed[d] + Len(staged[d])
      BY <1>7, <2>1, <2>2 DEF EndReplay, EndCatchUp, TypeOK, FanoutTypeOK
    <3>2. \A i \in 1..Len(staged[d]) : staged[d][i] = flowed[d] + i
      BY DEF AccountsBalance, HeldBack
    <3>3. QED
      BY <1>0, <2>1, <3>1, <3>2, CarriesAll
  <2>3. CASE c # d
    BY <1>7, <1>s, <2>1, <2>3 DEF EndReplay, EndCatchUp, TypeOK, FanoutTypeOK
  <2>4. QED
    BY <2>2, <2>3
<1>8. ASSUME NEW c \in Conns, Write(c) PROVE Carries(queue'[d], seen'[d], flowed'[d])
  <2>1. CASE c = d
    <3>1. /\ queue[d] # <<>> /\ queue'[d] = Tail(queue[d]) /\ flowed'[d] = flowed[d]
          /\ seen'[d] = IF Head(queue[d]) = 0 THEN seen[d] ELSE Head(queue[d])
      BY <1>8, <2>1 DEF Write, Take, TypeOK, FanoutTypeOK
    <3>2. QED
      BY <1>0, <3>1, CarriesRest
  <2>2. CASE c # d
    BY <1>8, <1>s, <2>2 DEF Write, Take, TypeOK, FanoutTypeOK
  <2>3. QED
    BY <2>1, <2>2
<1>9. CASE UNCHANGED vars
  BY <1>9, <1>s DEF vars
<1>10. QED
  BY <1>1, <1>2, <1>3, <1>4, <1>5, <1>6, <1>7, <1>8, <1>9 DEF Next

---------------------------------------------------------------------------------
LEMMA BalanceInit == Init => AccountsBalance
<1> SUFFICES ASSUME Init PROVE AccountsBalance
  OBVIOUS
<1>1. MapsOK
  BY DEF Init, FanoutInit, MapsOK
<1>2. /\ published = 0 /\ attached = {}
      /\ \A c \in Conns : /\ staged[c] = <<>> /\ queue[c] = <<>>
                          /\ seen[c] = 0 /\ flowed[c] = 0
  BY DEF Init, FanoutInit
<1>3. \A c \in Conns : HeldBack(c)
  <2> TAKE c \in Conns
  <2>1. staged[c] = <<>> /\ Len(staged[c]) = 0 /\ flowed[c] = 0
    BY <1>2
  <2>2. QED
    BY <1>2, <2>1 DEF HeldBack
<1>4. \A c \in Conns : InTransit(c)
  <2>1. Carries(<<>>, 0, 0)
    BY DEF Carries
  <2>2. QED
    BY <1>2, <2>1 DEF InTransit
<1>5. QED
  BY <1>1, <1>3, <1>4 DEF AccountsBalance

LEMMA BalanceStep == TypeOK /\ AccountsBalance /\ [Next]_vars => AccountsBalance'
<1> SUFFICES ASSUME TypeOK, AccountsBalance, [Next]_vars PROVE AccountsBalance'
  OBVIOUS
<1>1. MapsOK /\ \A c \in Conns : HeldBack(c)
  BY DEF AccountsBalance
<1>2. MapsOK'
  BY <1>1, MapsStep
<1>3. \A c \in Conns : HeldBack(c)'
  BY <1>1, HeldBackStep
<1>4. \A c \in Conns : InTransit(c)'
  BY InTransitStep
<1>5. QED
  BY <1>2, <1>3, <1>4 DEF AccountsBalance

(* The accounts of the fan-out balance: what a client has been given, what is held
   back for it and what is in transit to it are together all it is owed. *)
THEOREM BalanceCorrect == Spec => []AccountsBalance
<1>1. Init => TypeOK /\ AccountsBalance
  BY TypeInit, BalanceInit
<1>2. TypeOK /\ AccountsBalance /\ [Next]_vars => TypeOK' /\ AccountsBalance'
  BY TypeStep, BalanceStep
<1>3. QED
  BY <1>1, <1>2, PTL DEF Spec

(* Only detach and shutdown take an attachment away: the branches of broadcast,
   send_to and end_catch_up that prune are never taken. *)
THEOREM NothingIsPruned == Spec => NeverPruned
<1> DEFINE KeepsFaith == \A c \in attached \ attached' : c \in open \ open'
<1>1. ASSUME TypeOK, AccountsBalance, Next PROVE KeepsFaith
  <2>0. attached \subseteq open /\ staging \subseteq attached
    BY <1>1 DEF AccountsBalance, MapsOK
  <2>1. CASE Publish
    BY <2>0, <2>1 DEF Publish, Broadcast, Live
  <2>2. CASE Stop
    BY <2>0, <2>2 DEF Stop, Shutdown, Drop
  <2>3. ASSUME NEW c \in Conns, Join(c) PROVE KeepsFaith
    BY <2>3 DEF Join, Attach
  <2>4. ASSUME NEW c \in Conns, Leave(c) PROVE KeepsFaith
    BY <2>0, <2>4 DEF Leave, Detach, Drop
  <2>5. ASSUME NEW c \in Conns, Answer(c) PROVE KeepsFaith
    <3>1. attached' = attached
      BY <2>0, <2>5 DEF Answer, SendTo
    <3>2. QED
      BY <3>1
  <2>6. ASSUME NEW c \in Conns, BeginReplay(c) PROVE KeepsFaith
    BY <2>6 DEF BeginReplay, BeginCatchUp
  <2>7. ASSUME NEW c \in Conns, EndReplay(c) PROVE KeepsFaith
    BY <2>0, <2>7 DEF EndReplay, EndCatchUp
  <2>8. ASSUME NEW c \in Conns, Write(c) PROVE KeepsFaith
    BY <2>8 DEF Write, Take
  <2>9. QED
    BY <1>1, <2>1, <2>2, <2>3, <2>4, <2>5, <2>6, <2>7, <2>8 DEF Next
<1>2. TypeOK /\ AccountsBalance /\ [Next]_vars => [KeepsFaith]_vars
  BY <1>1
<1>3. QED
  BY <1>2, TypeCorrect, BalanceCorrect, PTL DEF Spec, NeverPruned

---------------------------------------------------------------------------------
(* Refinement: a fact the writer hands over is the next one its client is to see;  *)
(* every other step publishes, joins, or is none of the abstract feed's business.  *)

LEMMA FeedStep ==
  TypeOK /\ AccountsBalance /\ [Next]_vars => [Feed!Next]_(Feed!feedVars)
<1> SUFFICES ASSUME TypeOK, AccountsBalance, [Next]_vars
             PROVE  Feed!Next \/ UNCHANGED <<published, joined, seen>>
  BY DEF Feed!feedVars
<1>1. CASE Publish
  BY <1>1 DEF Publish, Feed!Next, Feed!Publish
<1>2. CASE Stop
  BY <1>2 DEF Stop
<1>3. ASSUME NEW c \in Conns, Join(c) PROVE Feed!Next
  BY <1>3 DEF Join, Feed!Next, Feed!Join
<1>4. ASSUME NEW c \in Conns, Leave(c) PROVE UNCHANGED <<published, joined, seen>>
  BY <1>4 DEF Leave
<1>5. ASSUME NEW c \in Conns, Answer(c) PROVE UNCHANGED <<published, joined, seen>>
  BY <1>5 DEF Answer
<1>6. ASSUME NEW c \in Conns, BeginReplay(c) PROVE UNCHANGED <<published, joined, seen>>
  BY <1>6 DEF BeginReplay
<1>7. ASSUME NEW c \in Conns, EndReplay(c) PROVE UNCHANGED <<published, joined, seen>>
  BY <1>7 DEF EndReplay
<1>8. ASSUME NEW c \in Conns, Write(c)
      PROVE  Feed!Next \/ UNCHANGED <<published, joined, seen>>
  <2>1. /\ queue[c] \in Seq(Nat) /\ seen[c] \in Nat /\ flowed[c] \in Nat
        /\ Carries(queue[c], seen[c], flowed[c]) /\ queue[c] # <<>>
    BY <1>8 DEF TypeOK, FanoutTypeOK, AccountsBalance, InTransit, Write, Take
  <2>2. CASE Head(queue[c]) = 0
    BY <1>8, <2>2 DEF Write, TypeOK
  <2>3. CASE Head(queue[c]) # 0
    <3>1. Head(queue[c]) = seen[c] + 1 /\ Head(queue[c]) <= flowed[c]
      BY <2>1, <2>3, CarriesRest
    <3>2. flowed[c] <= published
      <4>1. flowed[c] + Len(staged[c]) <= published /\ staged[c] \in Seq(Nat)
        BY DEF AccountsBalance, HeldBack, TypeOK, FanoutTypeOK
      <4>2. Len(staged[c]) \in Nat /\ published \in Nat
        BY <4>1 DEF TypeOK
      <4>3. QED
        BY <2>1, <4>1, <4>2
    <3>3. c \in joined
      BY <2>1 DEF AccountsBalance, MapsOK
    <3>4. seen' = [seen EXCEPT ![c] = seen[c] + 1] /\ seen[c] < published
      <4>1. seen' = [seen EXCEPT ![c] = Head(queue[c])]
        BY <1>8, <2>3 DEF Write
      <4>2. published \in Nat
        BY DEF TypeOK
      <4>3. seen[c] < published
        BY <2>1, <3>1, <3>2, <4>2
      <4>4. QED
        BY <3>1, <4>1, <4>3
    <3>5. QED
      BY <1>8, <3>3, <3>4 DEF Write, Feed!Next, Feed!See
  <2>4. QED
    BY <2>2, <2>3
<1>9. CASE UNCHANGED vars
  BY <1>9 DEF vars
<1>10. QED
  BY <1>1, <1>2, <1>3, <1>4, <1>5, <1>6, <1>7, <1>8, <1>9 DEF Next

(* The fan-out implements the session feed: every client sees the facts from the
   moment it joined, each of them, once, and in their order. *)
THEOREM FanoutIsAFeed == Spec => FeedSpec
<1>1. Init => Feed!Init
  BY DEF Init, Feed!Init
<1>2. TypeOK /\ AccountsBalance /\ [Next]_vars => [Feed!Next]_(Feed!feedVars)
  BY FeedStep
<1>3. QED
  BY <1>1, <1>2, TypeCorrect, BalanceCorrect, PTL DEF Spec, FeedSpec, Feed!Spec
=================================================================================
