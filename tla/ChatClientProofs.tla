--------------------------- MODULE ChatClientProofs ----------------------------
(* Theorems about ChatClient, for any bounds.                                *)
EXTENDS ChatClient, SequenceTheorems, WellFoundedInduction, TLAPS

-----------------------------------------------------------------------------
(* The inductive invariant. *)

\* No question is twice in a list of messages.
Once(s) == \A i, j \in DOMAIN s : s[i].role = "question" /\ s[j] = s[i] => i = j

\* The questions of a list have got their ids already: the next id is new to it.
Numbered(s, n) == \A i \in DOMAIN s : s[i].role = "question" => s[i].id <= n

Messages(s, n) == s \in Seq(Message) /\ Once(s) /\ Numbered(s, n)

\* Where the page is, and what it has asked and made.
PlaceOK ==
  /\ made \in Conversations /\ asked \in 0..MaxQuestions /\ controller \in Nat
  /\ at \in 0..made /\ temporary \in 0..made
  /\ {fresh, typed, idle, resetting, fetching, listing, frozen} \subseteq BOOLEAN
  /\ answer \in Seq(MessageIds)

Creation == [conversation : 1..made, id : 0..asked, controller : Nat]
CreatingOK == creating \subseteq Creation

\* What the page shows, what the server keeps and what is sent to it.
StoredOK ==
  /\ stored \in [Known -> Seq(Message)] /\ Known \subseteq 1..made
  /\ \A c \in Known : Messages(stored[c], asked)
StreamsOK == \A s \in streams : s \in Requests /\ Messages(s.sent, asked)
WritesOK == \A w \in writes : w \in Writes /\ Messages(w.messages, asked)

ChatInv ==
  /\ PlaceOK /\ CreatingOK /\ Messages(shown, asked) /\ StoredOK /\ StreamsOK
  /\ WritesOK /\ StreamsCanBeStopped

-----------------------------------------------------------------------------
(* The least number of a set, and induction.                               *)

LEMMA LeastOf ==
  ASSUME NEW T \in SUBSET Nat, T # {}
  PROVE  \E x \in T : \A y \in T : x <= y
<1> DEFINE R == {ss \in Nat \X Nat : ss[1] < ss[2]}
<1>1. IsWellFoundedOn(R, Nat)
  BY NatLessThanWellFounded DEF OpToRel
<1>2. PICK x \in T : \A y \in T : ~(<<y, x>> \in R)
  <2> HIDE DEF R
  <2> QED
    BY <1>1, WFMin
<1>3. \A y \in T : <<y, x>> \in R <=> y < x
  OBVIOUS
<1>4. \A y \in T : ~(y < x)
  <2> HIDE DEF R
  <2> QED
    BY <1>2, <1>3
<1> QED
  BY <1>4

LEMMA AllUpTo ==
  ASSUME NEW n \in Nat, NEW T, 0 \in T, \A i \in 1..n : i - 1 \in T => i \in T
  PROVE  0..n \subseteq T
<1> SUFFICES ASSUME 0..n \ T # {} PROVE FALSE
  OBVIOUS
<1>0. 0..n \ T \in SUBSET Nat
  OBVIOUS
<1>1. PICK x \in 0..n \ T : \A y \in 0..n \ T : x <= y
  BY <1>0, LeastOf
<1>2. x \in 1..n /\ x - 1 \in 0..n /\ ~(x <= x - 1)
  BY <1>1
<1>3. x - 1 \in T
  BY <1>1, <1>2
<1> QED
  BY <1>1, <1>2, <1>3

LEMMA GreatestOf ==
  ASSUME NEW n \in Nat, NEW T \in SUBSET (1..n), T # {}
  PROVE  \E x \in T : \A y \in T : y <= x
<1> DEFINE U == {n - t : t \in T}
<1>1. U \in SUBSET Nat /\ U # {}
  <2>1. \A t \in T : t \in 1..n /\ n - t \in Nat
    OBVIOUS
  <2> QED
    BY <2>1
<1>2. PICK u \in U : \A v \in U : u <= v
  BY <1>1, LeastOf
<1>3. PICK x \in T : u = n - x
  BY <1>2
<1>4. \A y \in T : n - x <= n - y
  BY <1>2, <1>3
<1> QED
  BY <1>4

-----------------------------------------------------------------------------
(* Lists of messages. *)

LEMMA MessageOf ==
  ASSUME NEW s \in Seq(Message), NEW i \in DOMAIN s
  PROVE  s[i] \in Message /\ s[i].id \in Nat
<1>1. s[i] \in Message
  OBVIOUS
<1> QED
  BY <1>1, ChatAssumption DEF Message, MessageIds, NoId

LEMMA LaterNumber ==
  ASSUME NEW m \in Nat, NEW n \in Nat, m <= n, NEW s, Messages(s, m)
  PROVE  Messages(s, n)
<1>1. \A i \in DOMAIN s : s[i].id \in Nat
  BY MessageOf DEF Messages
<1> QED
  BY <1>1 DEF Messages, Numbered

\* Messages picked out of a list, each at most once.
LEMMA Picked ==
  ASSUME NEW n, NEW s, Messages(s, n), NEW t \in Seq(Message),
         NEW p \in [DOMAIN t -> DOMAIN s],
         \A i, j \in DOMAIN t : p[i] = p[j] => i = j,
         \A i \in DOMAIN t : t[i] = s[p[i]]
  PROVE  Messages(t, n)
<1>1. \A i \in DOMAIN t : p[i] \in DOMAIN s
  OBVIOUS
<1>2. Once(t)
  <2> SUFFICES ASSUME NEW i \in DOMAIN t, NEW j \in DOMAIN t,
                      t[i].role = "question", t[j] = t[i]
               PROVE  i = j
    BY DEF Once
  <2>1. s[p[i]].role = "question" /\ s[p[j]] = s[p[i]]
    OBVIOUS
  <2>2. p[i] = p[j]
    BY <1>1, <2>1, Zenon DEF Messages, Once
  <2> QED
    BY <2>2
<1>3. Numbered(t, n)
  BY <1>1, Zenon DEF Messages, Numbered
<1> QED
  BY <1>2, <1>3 DEF Messages

LEMMA FirstOnes ==
  ASSUME NEW n, NEW s, Messages(s, n), NEW k \in 0..Len(s)
  PROVE  Messages(SubSeq(s, 1, k), n)
<1> DEFINE t == SubSeq(s, 1, k)
           p == [i \in DOMAIN t |-> i]
<1>1. s \in Seq(Message)
  BY DEF Messages
<1>2. t \in Seq(Message) /\ Len(t) = k /\ \A i \in 1..k : t[i] = s[i]
  BY <1>1
<1>3. DOMAIN t = 1..k /\ DOMAIN s = 1..Len(s)
  BY <1>1, <1>2
<1> HIDE DEF t
<1>4. p \in [DOMAIN t -> DOMAIN s] /\ \A i \in DOMAIN t : t[i] = s[p[i]]
  BY <1>2, <1>3
<1>5. \A i, j \in DOMAIN t : p[i] = p[j] => i = j
  OBVIOUS
<1> HIDE DEF p
<1>6. Messages(t, n)
  BY <1>2, <1>4, <1>5, Picked
<1> QED
  BY <1>6 DEF t

LEMMA LastDropped ==
  ASSUME NEW n, NEW s, Messages(s, n), NEW k \in Nat
  PROVE  Messages(DropLast(s, k), n)
<1>1. s \in Seq(Message) /\ Len(s) \in Nat
  BY DEF Messages
<1>2. (IF Len(s) > k THEN Len(s) - k ELSE 0) \in 0..Len(s)
  BY <1>1
<1> QED
  BY <1>2, FirstOnes DEF DropLast

LEMMA AnswerAdded ==
  ASSUME NEW n, NEW s, Messages(s, n), NEW id \in MessageIds
  PROVE  Messages(Append(s, Answer(id)), n)
<1>1. s \in Seq(Message) /\ Answer(id) \in Message /\ Answer(id).role = "answer"
  BY DEF Messages, Answer, Message
<1> DEFINE t == Append(s, Answer(id))
<1>2. /\ t \in Seq(Message) /\ DOMAIN t = 1..(Len(s) + 1) /\ DOMAIN s = 1..Len(s)
      /\ t[Len(s) + 1] = Answer(id) /\ \A i \in 1..Len(s) : t[i] = s[i]
  BY <1>1
<1> HIDE DEF t
<1>3. \A i \in DOMAIN t : t[i].role = "question" => i \in DOMAIN s /\ t[i] = s[i]
  <2> SUFFICES ASSUME NEW i \in DOMAIN t, t[i].role = "question"
               PROVE  i \in DOMAIN s /\ t[i] = s[i]
    OBVIOUS
  <2>1. i # Len(s) + 1
    BY <1>1, <1>2
  <2> QED
    BY <1>1, <1>2, <2>1
<1>4. Once(t) /\ Numbered(t, n)
  BY <1>3 DEF Messages, Once, Numbered
<1>5. Messages(t, n)
  BY <1>2, <1>4 DEF Messages
<1> QED
  BY <1>5 DEF t

LEMMA QuestionAdded ==
  ASSUME NEW n \in Nat, NEW s, Messages(s, n), n < MaxQuestions
  PROVE  Messages(Append(s, Question(n + 1)), n + 1)
<1>1. /\ s \in Seq(Message) /\ Question(n + 1) \in Message
      /\ Question(n + 1).role = "question" /\ Question(n + 1).id = n + 1
  BY ChatAssumption DEF Messages, Question, Message, MessageIds, NoId
<1> DEFINE t == Append(s, Question(n + 1))
<1>2. /\ t \in Seq(Message) /\ DOMAIN t = 1..(Len(s) + 1) /\ DOMAIN s = 1..Len(s)
      /\ t[Len(s) + 1] = Question(n + 1) /\ \A i \in 1..Len(s) : t[i] = s[i]
      /\ Len(s) \in Nat
  BY <1>1
<1> HIDE DEF t
<1>3. \A i \in 1..Len(s) : s[i] # Question(n + 1) \/ s[i].role # "question"
  <2>1. \A i \in 1..Len(s) : s[i].role = "question" => s[i].id <= n
    BY <1>2 DEF Messages, Numbered
  <2> QED
    BY <1>1, <2>1
<1>4. Once(t)
  <2> SUFFICES ASSUME NEW i \in DOMAIN t, NEW j \in DOMAIN t,
                      t[i].role = "question", t[j] = t[i]
               PROVE  i = j
    BY DEF Once
  <2>1. CASE i \in 1..Len(s) /\ j \in 1..Len(s)
    BY <1>2, <2>1 DEF Messages, Once
  <2>2. CASE i \in 1..Len(s) /\ j = Len(s) + 1
    BY <1>2, <1>3, <2>2
  <2>3. CASE i = Len(s) + 1 /\ j \in 1..Len(s)
    BY <1>2, <1>3, <2>3
  <2> QED
    BY <1>2, <2>1, <2>2, <2>3
<1>5. Numbered(t, n + 1)
  <2> SUFFICES ASSUME NEW i \in DOMAIN t, t[i].role = "question" PROVE t[i].id <= n + 1
    BY DEF Numbered
  <2>1. CASE i = Len(s) + 1
    BY <1>1, <1>2, <2>1
  <2>2. CASE i \in 1..Len(s)
    <3>1. s[i].id <= n /\ s[i].id \in Nat
      BY <1>1, <1>2, <2>2, MessageOf DEF Messages, Numbered
    <3> QED
      BY <1>2, <2>2, <3>1
  <2> QED
    BY <1>2, <2>1, <2>2
<1>6. Messages(t, n + 1)
  BY <1>2, <1>4, <1>5 DEF Messages
<1> QED
  BY <1>6 DEF t

LEMMA PairAdded ==
  ASSUME NEW n \in Nat, NEW s, Messages(s, n), n < MaxQuestions
  PROVE  Messages(WithQuestion(s, n + 1), n + 1)
<1>1. s \in Seq(Message) /\ Question(n + 1) \in Message /\ Answer(n + 1) \in Message
      /\ n + 1 \in MessageIds
  BY ChatAssumption DEF Messages, Question, Answer, Message, MessageIds, NoId
<1>2. Messages(Append(Append(s, Question(n + 1)), Answer(n + 1)), n + 1)
  BY <1>1, QuestionAdded, AnswerAdded
<1>3. WithQuestion(s, n + 1) = Append(Append(s, Question(n + 1)), Answer(n + 1))
  BY <1>1 DEF WithQuestion
<1> QED
  BY <1>2, <1>3

\* delete_msg takes a part out of the middle.
LEMMA FirstOfIs ==
  ASSUME NEW s \in Seq(Message), NEW id, \E i \in DOMAIN s : s[i].id = id
  PROVE  FirstOf(s, id) \in DOMAIN s /\ s[FirstOf(s, id)].id = id
<1> DEFINE T == {i \in DOMAIN s : s[i].id = id}
<1>1. T \in SUBSET Nat /\ T # {} /\ DOMAIN s = 1..Len(s)
  OBVIOUS
<1>2. PICK x \in T : \A y \in T : x <= y
  BY <1>1, LeastOf
<1>3. \A j \in 1..(x - 1) : j \in DOMAIN s /\ ~(x <= j)
  BY <1>1, <1>2
<1>4. \A j \in 1..(x - 1) : s[j].id # id
  BY <1>2, <1>3
<1> QED
  BY <1>2, <1>4 DEF FirstOf

LEMMA PairTaken ==
  ASSUME NEW n, NEW s, Messages(s, n), NEW id, DeleteAsserts(s, id)
  PROVE  Messages(WithoutPair(s, id), n)
<1>1. s \in Seq(Message) /\ DOMAIN s = 1..Len(s) /\ Len(s) \in Nat
  BY DEF Messages
<1>2. CASE \A i \in DOMAIN s : s[i].id # id
  BY <1>2 DEF WithoutPair
<1>3. CASE \E i \in DOMAIN s : s[i].id = id
  <2> DEFINE i == FirstOf(s, id)
             front == SubSeq(s, 1, i - 1)
             back == SubSeq(s, i + 2, Len(s))
             t == front \o back
             p == [k \in DOMAIN t |-> IF k < i THEN k ELSE k + 2]
  <2>1. i \in 1..Len(s) /\ i + 1 \in 1..Len(s) /\ i \in Nat
    BY <1>1, <1>3, FirstOfIs DEF DeleteAsserts
  <2> HIDE DEF i
  <2>2. /\ front \in Seq(Message) /\ Len(front) = i - 1
        /\ \A k \in 1..(i - 1) : front[k] = s[k]
    BY <1>1, <2>1
  <2>3. /\ back \in Seq(Message) /\ Len(back) = Len(s) - i - 1
        /\ \A k \in 1..(Len(s) - i - 1) : back[k] = s[k + i + 1]
    <3>1. /\ i + 2 \in Int /\ Len(s) \in Int /\ \A k \in (i + 2)..Len(s) : s[k] \in Message
          /\ Len(s) - (i + 2) + 1 = Len(s) - i - 1 /\ Len(s) - i - 1 \in Nat
      BY <1>1, <2>1
    <3>2. /\ back \in Seq(Message)
          /\ Len(back) = IF i + 2 <= Len(s) THEN Len(s) - (i + 2) + 1 ELSE 0
          /\ \A k \in 1..(Len(s) - (i + 2) + 1) : back[k] = s[i + 2 + k - 1]
      BY <3>1, SubSeqProperties
    <3>3. Len(back) = Len(s) - i - 1
      <4>1. i + 1 <= Len(s) /\ i \in Int /\ Len(s) \in Int
        BY <2>1
      <4>2. CASE i + 2 <= Len(s)
        BY <3>1, <3>2, <4>2
      <4>3. CASE ~(i + 2 <= Len(s))
        BY <3>2, <4>1, <4>3
      <4> QED
        BY <4>2, <4>3
    <3>4. \A k \in 1..(Len(s) - i - 1) : i + 2 + k - 1 = k + i + 1
      BY <2>1
    <3> QED
      BY <3>1, <3>2, <3>3, <3>4
  <2> HIDE DEF front, back
  <2>4. /\ t \in Seq(Message) /\ DOMAIN t = 1..(Len(s) - 2)
        /\ \A k \in 1..(Len(s) - 2) :
             t[k] = IF k < i THEN front[k] ELSE back[k - i + 1]
    <3>1. /\ front \o back \in Seq(Message)
          /\ Len(front \o back) = Len(front) + Len(back)
          /\ \A k \in 1..(Len(front) + Len(back)) :
               (front \o back)[k] = IF k <= Len(front) THEN front[k] ELSE back[k - Len(front)]
      BY <2>2, <2>3, ConcatProperties
    <3>2. Len(front) + Len(back) = Len(s) - 2
      BY <1>1, <2>1, <2>2, <2>3
    <3>3. \A k \in 1..(Len(s) - 2) : (k <= i - 1 <=> k < i) /\ k - (i - 1) = k - i + 1
      BY <1>1, <2>1
    <3> QED
      BY <2>2, <3>1, <3>2, <3>3
  <2> HIDE DEF t
  <2>5. p \in [DOMAIN t -> DOMAIN s]
    <3>1. \A k \in 1..(Len(s) - 2) : (IF k < i THEN k ELSE k + 2) \in 1..Len(s)
      BY <1>1, <2>1
    <3> QED
      BY <1>1, <2>4, <3>1
  <2>6. \A j, k \in DOMAIN t : p[j] = p[k] => j = k
    BY <2>1, <2>4
  <2>7. \A k \in DOMAIN t : t[k] = s[p[k]]
    <3> SUFFICES ASSUME NEW k \in 1..(Len(s) - 2) PROVE t[k] = s[p[k]]
      BY <2>4
    <3>1. CASE k < i
      BY <2>1, <2>2, <2>4, <3>1
    <3>2. CASE ~(k < i)
      <4>1. k - i + 1 \in 1..(Len(s) - i - 1) /\ (k - i + 1) + i + 1 = k + 2
        BY <1>1, <2>1, <3>2
      <4>2. t[k] = back[k - i + 1] /\ p[k] = k + 2
        BY <2>4, <3>2
      <4> QED
        BY <2>3, <4>1, <4>2
    <3> QED
      BY <3>1, <3>2
  <2> HIDE DEF p
  <2>8. Messages(t, n)
    BY <2>4, <2>5, <2>6, <2>7, Picked
  <2> QED
    BY <1>3, <2>8 DEF WithoutPair, t, i, front, back
<1> QED
  BY <1>2, <1>3

\* The filter: its function exists, and so it is what it is defined to be.
KeptStep(s, id, f, i) ==
  IF i = 0 THEN <<>> ELSE IF s[i].id = id THEN f[i - 1] ELSE Append(f[i - 1], s[i])

LEMMA KeptExists ==
  ASSUME NEW s, NEW n \in Nat, NEW id
  PROVE  \E f : f = [i \in 0..n |-> KeptStep(s, id, f, i)]
<1> DEFINE T == {m \in Nat : \E f : f = [i \in 0..m |-> KeptStep(s, id, f, i)]}
<1>1. 0 \in T
  <2> DEFINE f == [i \in 0..0 |-> <<>>]
  <2>1. f = [i \in 0..0 |-> KeptStep(s, id, f, i)]
    BY DEF KeptStep
  <2> QED
    BY <2>1
<1>2. ASSUME NEW m \in 1..n, m - 1 \in T PROVE m \in T
  <2>1. PICK f : f = [i \in 0..(m - 1) |-> KeptStep(s, id, f, i)]
    BY <1>2
  <2> DEFINE g == [i \in 0..m |-> IF i = m THEN KeptStep(s, id, f, m) ELSE f[i]]
  <2>2. ASSUME NEW i \in 0..m PROVE g[i] = KeptStep(s, id, g, i)
    <3>1. CASE i = m
      BY <1>2, <3>1 DEF KeptStep
    <3>2. CASE i # m
      <4>1. i \in 0..(m - 1) /\ g[i] = f[i] /\ (i # 0 => i - 1 \in 0..m /\ i - 1 # m)
        BY <1>2, <3>2
      <4>2. f[i] = KeptStep(s, id, f, i)
        BY <2>1, <4>1
      <4>3. i # 0 => g[i - 1] = f[i - 1]
        BY <4>1
      <4> HIDE DEF g
      <4> QED
        BY <4>1, <4>2, <4>3 DEF KeptStep
    <3> QED
      BY <3>1, <3>2
  <2>3. g = [i \in 0..m |-> g[i]]
    OBVIOUS
  <2> HIDE DEF g
  <2>4. g = [i \in 0..m |-> KeptStep(s, id, g, i)]
    BY <2>2, <2>3
  <2> QED
    BY <1>2, <2>4
<1> HIDE DEF T
<1>3. 0..n \subseteq T
  BY <1>1, <1>2, AllUpTo
<1>4. n \in T
  BY <1>3
<1> QED
  BY <1>4 DEF T

LEMMA WithoutIdIs ==
  ASSUME NEW s \in Seq(Message), NEW id
  PROVE  \E f : /\ f = [i \in 0..Len(s) |-> KeptStep(s, id, f, i)]
                /\ WithoutId(s, id) = f[Len(s)]
<1> DEFINE IsKept(f) == f = [i \in 0..Len(s) |-> KeptStep(s, id, f, i)]
<1>1. \E f : IsKept(f)
  <2>1. Len(s) \in Nat
    OBVIOUS
  <2> QED
    BY <2>1, KeptExists
<1>2. IsKept(CHOOSE f : IsKept(f))
  BY <1>1, Zenon
<1>3. WithoutId(s, id) = (CHOOSE f : IsKept(f))[Len(s)]
  BY Zenon DEF WithoutId, KeptStep
<1> QED
  BY <1>2, <1>3

LEMMA IdTaken ==
  ASSUME NEW n, NEW s, Messages(s, n), NEW id
  PROVE  Messages(WithoutId(s, id), n)
<1>1. s \in Seq(Message) /\ DOMAIN s = 1..Len(s) /\ Len(s) \in Nat
  BY DEF Messages
<1>2. PICK f : /\ f = [i \in 0..Len(s) |-> KeptStep(s, id, f, i)]
               /\ WithoutId(s, id) = f[Len(s)]
  BY <1>1, WithoutIdIs
<1> DEFINE From(i) == \A k \in DOMAIN f[i] : \E j \in 1..i : f[i][k] = s[j]
           T == {i \in Nat : i <= Len(s) => Messages(f[i], n) /\ From(i)}
<1>3. 0 \in T
  <2>1. f[0] = <<>>
    BY <1>1, <1>2 DEF KeptStep
  <2>2. Messages(<<>>, n)
    BY DEF Messages, Once, Numbered
  <2> QED
    BY <2>1, <2>2
<1>4. ASSUME NEW i \in 1..Len(s), i - 1 \in T PROVE i \in T
  <2>1. Messages(f[i - 1], n) /\ From(i - 1)
    BY <1>1, <1>4
  <2>2. f[i] = IF s[i].id = id THEN f[i - 1] ELSE Append(f[i - 1], s[i])
    <3>1. i \in 0..Len(s) /\ i # 0
      BY <1>1
    <3>2. f[i] = KeptStep(s, id, f, i)
      BY <1>2, <3>1
    <3> QED
      BY <3>1, <3>2 DEF KeptStep
  <2>3. CASE s[i].id = id
    BY <1>1, <2>1, <2>2, <2>3
  <2>4. CASE s[i].id # id
    <3> DEFINE q == f[i - 1]
               t == Append(q, s[i])
    <3>1. /\ q \in Seq(Message) /\ DOMAIN q = 1..Len(q) /\ Len(q) \in Nat
          /\ \A k \in DOMAIN q : \E j \in 1..(i - 1) : q[k] = s[j]
          /\ Once(q) /\ Numbered(q, n)
      BY <2>1 DEF Messages
    <3> HIDE DEF q
    <3>2. /\ t \in Seq(Message) /\ DOMAIN t = 1..(Len(q) + 1)
          /\ t[Len(q) + 1] = s[i] /\ \A k \in 1..Len(q) : t[k] = q[k]
      BY <1>1, <3>1
    <3> HIDE DEF t
    <3>3. \A k \in DOMAIN t : \E j \in 1..i : t[k] = s[j]
      <4> SUFFICES ASSUME NEW k \in DOMAIN t PROVE \E j \in 1..i : t[k] = s[j]
        OBVIOUS
      <4>1. CASE k = Len(q) + 1
        BY <3>2, <4>1
      <4>2. CASE k \in 1..Len(q)
        <5>1. PICK j \in 1..(i - 1) : q[k] = s[j]
          BY <3>1, <4>2
        <5>2. j \in 1..i
          BY <1>4
        <5> QED
          BY <3>2, <4>2, <5>1, <5>2
      <4> QED
        BY <3>1, <3>2, <4>1, <4>2
    <3>4. ASSUME NEW k \in 1..Len(q), s[i].role = "question" PROVE q[k] # s[i]
      <4>1. PICK j \in 1..(i - 1) : q[k] = s[j]
        BY <3>1, <3>4
      <4>2. j \in DOMAIN s /\ i \in DOMAIN s /\ j # i
        BY <1>1
      <4> QED
        BY <3>4, <4>1, <4>2 DEF Messages, Once
    <3>5. Once(t)
      <4> SUFFICES ASSUME NEW j \in DOMAIN t, NEW k \in DOMAIN t,
                          t[j].role = "question", t[k] = t[j]
                   PROVE  j = k
        BY DEF Once
      <4>1. CASE j \in 1..Len(q) /\ k \in 1..Len(q)
        BY <3>1, <3>2, <4>1 DEF Once
      <4>2. CASE j \in 1..Len(q) /\ k = Len(q) + 1
        BY <3>2, <3>4, <4>2
      <4>3. CASE j = Len(q) + 1 /\ k \in 1..Len(q)
        BY <3>2, <3>4, <4>3
      <4> QED
        BY <3>1, <3>2, <4>1, <4>2, <4>3
    <3>6. Numbered(t, n)
      <4> SUFFICES ASSUME NEW k \in DOMAIN t, t[k].role = "question" PROVE t[k].id <= n
        BY DEF Numbered
      <4>1. PICK j \in 1..i : t[k] = s[j]
        BY <3>3
      <4>2. j \in DOMAIN s
        BY <1>1
      <4> QED
        BY <4>1, <4>2 DEF Messages, Numbered
    <3>7. f[i] = t
      BY <2>2, <2>4 DEF t, q
    <3> QED
      BY <3>2, <3>3, <3>5, <3>6, <3>7 DEF Messages
  <2> QED
    BY <2>3, <2>4
<1> HIDE DEF T
<1>5. 0..Len(s) \subseteq T
  BY <1>1, <1>3, <1>4, AllUpTo
<1>6. Len(s) \in T
  BY <1>1, <1>5
<1> QED
  BY <1>1, <1>2, <1>6 DEF T

-----------------------------------------------------------------------------
(* What the steps are made of. *)

\* A stream is one there was, or the one sent now, under the controller in use.
StreamsFrom(request) ==
  \A s \in streams' : (s \in streams \/ s = request) /\ s.controller = controller

LEMMA SendKeeps ==
  ASSUME ChatInv, NEW r \in Requests, Send(r)
  PROVE  StreamsFrom(r) /\ {idle', resetting'} \subseteq BOOLEAN
BY DEF Send, StreamsFrom, ChatInv, PlaceOK, StreamsCanBeStopped

LEMMA EndKeeps ==
  ASSUME ChatInv, NEW s \in streams, End(s)
  PROVE  streams' \subseteq streams /\ {idle', resetting'} \subseteq BOOLEAN
BY DEF End

\* What a completion will write.
LEMMA WriteIs ==
  ASSUME ChatInv, NEW s \in streams
  PROVE  Write(s) \in Writes /\ Messages(Write(s).messages, asked)
<1>1. s \in Requests /\ Messages(s.sent, asked) /\ s.id \in MessageIds
  BY DEF ChatInv, StreamsOK, Requests
<1>2. Messages(Append(s.sent, Answer(s.id)), asked)
  BY <1>1, AnswerAdded
<1>3. NoId \in MessageIds
  BY ChatAssumption DEF MessageIds, NoId
<1> QED
  BY <1>1, <1>2, <1>3 DEF Write, Writes, Requests, Messages

LEMMA GoesOnKeeps ==
  ASSUME ChatInv, NEW S \in SUBSET streams, GoesOn({Write(s) : s \in S})
  PROVE  \A w \in writes' : w \in Writes /\ Messages(w.messages, asked)
<1>1. \A w \in writes' : w \in writes \/ \E s \in S : w = Write(s)
  BY DEF GoesOn
<1> QED
  BY <1>1, WriteIs DEF ChatInv, WritesOK

\* abort leaves no stream: each held the controller that is aborted.
LEMMA AbortedKeeps ==
  ASSUME ChatInv, Aborted
  PROVE  /\ streams' = {} /\ controller' \in Nat /\ {idle', resetting'} \subseteq BOOLEAN
         /\ \A w \in writes' : w \in Writes /\ Messages(w.messages, asked)
<1>1. streams' = {}
  BY DEF Aborted, ChatInv, StreamsCanBeStopped
<1>2. controller' \in Nat
  BY DEF Aborted, ChatInv, PlaceOK
<1>3. {idle', resetting'} \subseteq BOOLEAN
  BY DEF Aborted, ChatInv, PlaceOK
<1>4. \A w \in writes' : w \in Writes /\ Messages(w.messages, asked)
  <2>1. {r \in streams \ streams' : r.phase # "stored"} \in SUBSET streams
    OBVIOUS
  <2> QED
    BY <2>1, GoesOnKeeps DEF Aborted
<1> QED
  BY <1>1, <1>2, <1>3, <1>4

LEMMA EffectKeeps ==
  ASSUME NEW n, NEW s, Messages(s, n), NEW ans \in Seq(MessageIds), NEW c, NEW new
  PROVE  Messages(AnswerEffect(s, ans, c, new), n)
<1>1. CASE ans # <<>> /\ c # NoConversation /\ ~new
  <2>1. ans[1] \in MessageIds
    BY <1>1
  <2>2. Messages(WithAnswer(s, ans[1]), n)
    BY <2>1, LastDropped, AnswerAdded DEF WithAnswer
  <2> QED
    BY <1>1, <2>2 DEF AnswerEffect
<1>2. CASE ~(ans # <<>> /\ c # NoConversation /\ ~new)
  BY <1>2 DEF AnswerEffect
<1> QED
  BY <1>1, <1>2

LEMMA FixedMessages ==
  ASSUME NEW n
  PROVE  Messages(<<>>, n) /\ Messages(<<Prologue>>, n) /\ Prologue \in Message
<1>1. Messages(<<>>, n)
  BY DEF Messages, Once, Numbered
<1>2. NoId \in MessageIds
  BY ChatAssumption DEF MessageIds, NoId
<1>3. Messages(Append(<<>>, Answer(NoId)), n)
  BY <1>1, <1>2, AnswerAdded
<1>4. Append(<<>>, Answer(NoId)) = <<Prologue>>
  BY DEF Prologue
<1>5. Prologue \in Message
  BY <1>2 DEF Prologue, Answer, Message
<1> QED
  BY <1>1, <1>3, <1>4, <1>5

LEMMA GoToKeeps ==
  ASSUME ChatInv, NEW c, NEW new \in BOOLEAN, GoTo(c, new)
  PROVE  /\ at' = c /\ {fresh', fetching'} \subseteq BOOLEAN
         /\ Messages(shown', asked)
<1>1. at' = c /\ {fresh', fetching'} \subseteq BOOLEAN
  BY DEF GoTo, ChatInv, PlaceOK
<1> DEFINE first == IF new /\ ~fresh THEN <<Prologue>>
                    ELSE IF c = NoConversation THEN <<>> ELSE shown
<1>2. Messages(first, asked)
  BY FixedMessages DEF ChatInv
<1> HIDE DEF first
<1>3. Messages(AnswerEffect(first, answer, c, new), asked)
  BY <1>2, EffectKeeps DEF ChatInv, PlaceOK
<1>4. shown' = shown \/ shown' = AnswerEffect(first, answer, c, new)
  BY DEF GoTo, first
<1> QED
  BY <1>1, <1>3, <1>4 DEF ChatInv

\* One more message id.
LEMMA NextId ==
  ASSUME ChatInv, asked < MaxQuestions, asked' = asked + 1, UNCHANGED <<made, stored>>
  PROVE  /\ asked \in Nat /\ asked' \in 0..MaxQuestions /\ asked' \in MessageIds
         /\ creating \subseteq Creation' /\ StoredOK'
         /\ \A s \in streams : s \in Requests /\ Messages(s.sent, asked')
         /\ \A W : (\A w \in W : w \in Writes /\ Messages(w.messages, asked))
                    => \A w \in W : w \in Writes /\ Messages(w.messages, asked')
<1>1. asked \in Nat /\ asked' \in Nat /\ asked <= asked' /\ asked' \in 0..MaxQuestions
  BY ChatAssumption DEF ChatInv, PlaceOK
<1>2. 0..asked \subseteq 0..asked'
  BY <1>1
<1>3. creating \subseteq Creation'
  BY <1>2 DEF ChatInv, CreatingOK, Creation
<1>4. \A c \in Known : Messages(stored[c], asked')
  BY <1>1, LaterNumber DEF ChatInv, StoredOK
<1>5. StoredOK'
  BY <1>4 DEF ChatInv, StoredOK, Known
<1>6. \A s \in streams : s \in Requests /\ Messages(s.sent, asked')
  BY <1>1, LaterNumber DEF ChatInv, StreamsOK
<1>7. \A W : (\A w \in W : w \in Writes /\ Messages(w.messages, asked))
              => \A w \in W : w \in Writes /\ Messages(w.messages, asked')
  BY <1>1, LaterNumber
<1> QED
  BY <1>1, <1>3, <1>5, <1>6, <1>7 DEF MessageIds, NoId

\* A request for messages and a question with a new id.
LEMMA RequestKeeps ==
  ASSUME ChatInv, asked < MaxQuestions, asked' = asked + 1, at # NoConversation,
         NEW s, Messages(s, asked)
  PROVE  /\ Request(at, Sent(s, asked'), asked', controller) \in Requests
         /\ Messages(Request(at, Sent(s, asked'), asked', controller).sent, asked')
<1>1. asked \in Nat /\ asked' \in MessageIds /\ controller \in Nat /\ at \in Conversations
  BY ChatAssumption DEF ChatInv, PlaceOK, MessageIds, NoId, Conversations, NoConversation
<1>2. Messages(Sent(s, asked'), asked')
  BY <1>1, QuestionAdded DEF Sent
<1> QED
  BY <1>1, <1>2 DEF Request, Requests, Messages

-----------------------------------------------------------------------------
(* Every step keeps the invariant. *)

LEMMA ChatInitInv == ChatInit => ChatInv
<1> SUFFICES ASSUME ChatInit PROVE ChatInv
  OBVIOUS
<1>1. PlaceOK
  <2>1. /\ made \in Conversations /\ asked \in 0..MaxQuestions /\ controller \in Nat
        /\ at \in 0..made /\ temporary \in 0..made
    BY ChatAssumption DEF ChatInit, Conversations, NoConversation
  <2>2. /\ {fresh, typed, idle, resetting, fetching, listing, frozen} \subseteq BOOLEAN
        /\ answer \in Seq(MessageIds)
    <3>1. <<>> \in Seq(MessageIds)
      OBVIOUS
    <3> QED
      BY <3>1 DEF ChatInit
  <2> QED
    BY <2>1, <2>2 DEF PlaceOK
<1>2. Messages(shown, asked)
  BY FixedMessages DEF ChatInit
<1>3. StoredOK
  <2>1. Known = {1} /\ stored[1] = <<Prologue>> /\ made = 1
    BY DEF ChatInit, Known
  <2>2. <<Prologue>> \in Seq(Message) /\ Messages(<<Prologue>>, asked)
    BY FixedMessages
  <2>3. stored \in [Known -> Seq(Message)]
    BY <2>1, <2>2 DEF ChatInit
  <2> QED
    BY <2>1, <2>2, <2>3 DEF StoredOK
<1> QED
  BY <1>1, <1>2, <1>3 DEF ChatInit, ChatInv, CreatingOK, StreamsOK, WritesOK, StreamsCanBeStopped

LEMMA PressEnterInv == ASSUME ChatInv, PressEnter PROVE ChatInv'
<1>1. asked < MaxQuestions /\ asked' = asked + 1 /\ UNCHANGED <<made, stored>>
  BY DEF PressEnter, list
<1>2. /\ asked \in Nat /\ asked' \in 0..MaxQuestions /\ creating \subseteq Creation' /\ StoredOK'
      /\ \A s \in streams : s \in Requests /\ Messages(s.sent, asked')
  BY <1>1, NextId
<1>3. Messages(shown', asked') /\ WritesOK'
  <2>1. Messages(shown', asked')
    BY <1>1, <1>2, PairAdded DEF PressEnter, ChatInv
  <2>2. WritesOK'
    BY <1>1, NextId DEF PressEnter, ChatInv, WritesOK
  <2> QED
    BY <2>1, <2>2
<1>4. CASE fresh
  <2>1. [conversation |-> at, id |-> asked', controller |-> controller] \in Creation'
    BY <1>1, <1>2 DEF PressEnter, ChatInv, PlaceOK, Creation, Conversations, NoConversation, url
  <2>2. CreatingOK'
    BY <1>2, <1>4, <2>1 DEF PressEnter, CreatingOK
  <2>3. PlaceOK'
    BY <1>2, <1>4 DEF PressEnter, ChatInv, PlaceOK, url, list
  <2>4. StreamsOK' /\ StreamsCanBeStopped'
    BY <1>2, <1>4 DEF PressEnter, ChatInv, StreamsOK, WritesOK, StreamsCanBeStopped
  <2> QED
    BY <1>2, <1>3, <2>2, <2>3, <2>4 DEF ChatInv
<1>5. CASE ~fresh
  <2> DEFINE r == Request(at, Sent(shown, asked'), asked', controller)
  <2>1. r \in Requests /\ Messages(r.sent, asked')
    BY <1>1, RequestKeeps DEF PressEnter, ChatInv
  <2>2. Send(r)
    BY <1>5 DEF PressEnter
  <2> HIDE DEF r
  <2>3. StreamsFrom(r) /\ {idle', resetting'} \subseteq BOOLEAN
    BY <2>1, <2>2, SendKeeps
  <2>4. StreamsOK' /\ StreamsCanBeStopped'
    BY <1>2, <2>1, <2>3 DEF PressEnter, StreamsFrom, StreamsOK, WritesOK, StreamsCanBeStopped
  <2>5. PlaceOK' /\ CreatingOK'
    BY <1>2, <1>5, <2>3 DEF PressEnter, ChatInv, PlaceOK, CreatingOK, url, list
  <2> QED
    BY <1>2, <1>3, <2>4, <2>5 DEF ChatInv
<1> QED
  BY <1>4, <1>5

LEMMA StopInv == ASSUME ChatInv, Stop PROVE ChatInv'
<1>1. /\ streams' = {} /\ controller' \in Nat /\ {idle', resetting'} \subseteq BOOLEAN
      /\ \A w \in writes' : w \in Writes /\ Messages(w.messages, asked)
  BY AbortedKeeps DEF Stop
<1>2. /\ asked' \in 0..MaxQuestions /\ CreatingOK' /\ StoredOK' /\ Messages(shown', asked')
      /\ WritesOK'
  <2>1. CASE typed
    <3>1. asked < MaxQuestions /\ asked' = asked + 1 /\ UNCHANGED <<made, stored>>
      BY <2>1 DEF Stop, list
    <3>2. /\ asked \in Nat /\ asked' \in 0..MaxQuestions
          /\ creating \subseteq Creation' /\ StoredOK'
      BY <3>1, NextId
    <3>4. WritesOK'
      BY <1>1, <3>1, NextId DEF WritesOK
    <3>3. Messages(shown', asked')
      BY <2>1, <3>1, <3>2, PairAdded DEF Stop, ChatInv
    <3> QED
      BY <3>2, <3>3, <3>4 DEF Stop, CreatingOK
  <2>2. CASE ~typed
    BY <1>1, <2>2 DEF Stop, ChatInv, PlaceOK, CreatingOK, Creation, StoredOK, Known, WritesOK,
                      list
  <2> QED
    BY <2>1, <2>2
<1>3. PlaceOK'
  BY <1>1, <1>2 DEF Stop, ChatInv, PlaceOK, url, list
<1> QED
  BY <1>1, <1>2, <1>3 DEF ChatInv, StreamsOK, WritesOK, StreamsCanBeStopped

LEMMA RegenerateInv ==
  ASSUME ChatInv, NEW i \in DOMAIN shown, Regenerate(i)
  PROVE  ChatInv'
<1>1. /\ asked < MaxQuestions /\ asked' = asked + 1 /\ at # NoConversation
      /\ UNCHANGED <<made, stored>>
  BY DEF Regenerate, list
<1>2. /\ asked \in Nat /\ asked' \in 0..MaxQuestions /\ creating \subseteq Creation' /\ StoredOK'
      /\ \A s \in streams : s \in Requests /\ Messages(s.sent, asked')
  BY <1>1, NextId
<1>3. i \in 1..Len(shown) /\ Len(shown) \in Nat
  BY DEF ChatInv, Messages
<1>4. Messages(shown', asked')
  <2>1. (IF i + 1 > Len(shown) THEN Len(shown) ELSE i + 1) \in 0..Len(shown)
    BY <1>3
  <2>2. Messages(shown', asked)
    BY <2>1, FirstOnes DEF Regenerate, UpToAnswer, ChatInv
  <2> QED
    BY <1>1, <1>2, <2>2, LaterNumber
<1> DEFINE before == SubSeq(shown, 1, i - 1)
           r == Request(at, Sent(before, asked'), asked', controller)
<1>5. Messages(before, asked)
  <2>1. i - 1 \in 0..Len(shown)
    BY <1>3
  <2> QED
    BY <2>1, FirstOnes DEF ChatInv
<1>6. Send(r)
  BY DEF Regenerate
<1> HIDE DEF before
<1>7. r \in Requests /\ Messages(r.sent, asked')
  BY <1>1, <1>5, RequestKeeps
<1> HIDE DEF r
<1>8. StreamsFrom(r) /\ {idle', resetting'} \subseteq BOOLEAN
  BY <1>6, <1>7, SendKeeps
<1>9. StreamsOK' /\ StreamsCanBeStopped'
  BY <1>2, <1>7, <1>8 DEF Regenerate, StreamsFrom, StreamsOK, WritesOK, StreamsCanBeStopped
<1>10. PlaceOK' /\ CreatingOK'
  BY <1>2, <1>8 DEF Regenerate, ChatInv, PlaceOK, CreatingOK, url, list
<1>11. WritesOK'
  BY <1>1, NextId DEF Regenerate, ChatInv, WritesOK
<1> QED
  BY <1>2, <1>4, <1>9, <1>10, <1>11 DEF ChatInv

LEMMA DeleteInv ==
  ASSUME ChatInv, NEW i \in DOMAIN shown, DeleteMessage(i)
  PROVE  ChatInv'
<1> DEFINE id == shown[i].id
           write == [conversation |-> at, deletes |-> id, messages |-> WithoutPair(stored[at], id)]
<1>1. /\ at \in Known /\ DeleteAsserts(stored[at], id)
      /\ writes' = writes \cup {write}
      /\ UNCHANGED <<url, shown, typed, idle, answer, resetting, controller, fetching, list,
                     creating, streams, asked, stored, frozen>>
  BY DEF DeleteMessage
<1>2. id \in MessageIds
  BY MessageOf DEF ChatInv, Messages, Message
<1> HIDE DEF id
<1>3. Messages(WithoutPair(stored[at], id), asked)
  BY <1>1, PairTaken DEF ChatInv, StoredOK
<1>4. write \in Writes /\ Messages(write.messages, asked)
  <2>1. at \in Conversations
    BY <1>1, ChatAssumption DEF ChatInv, PlaceOK, StoredOK, Conversations
  <2> QED
    BY <1>2, <1>3, <2>1 DEF Writes, Messages
<1> HIDE DEF write
<1>5. WritesOK'
  BY <1>1, <1>4 DEF ChatInv, WritesOK
<1>6. PlaceOK' /\ CreatingOK' /\ StoredOK' /\ StreamsOK' /\ StreamsCanBeStopped'
  BY <1>1 DEF ChatInv, PlaceOK, CreatingOK, Creation, StoredOK, Known, StreamsOK,
              StreamsCanBeStopped, url, list
<1> QED
  BY <1>1, <1>5, <1>6 DEF ChatInv

\* A handler stores messages in a conversation.
LEMMA StoreKeeps ==
  ASSUME ChatInv, NEW c, NEW t, Messages(t, asked), Store(c, t), UNCHANGED <<asked, made>>
  PROVE  StoredOK'
<1>1. /\ stored \in [Known -> Seq(Message)] /\ Known \subseteq 1..made
      /\ \A d \in Known : Messages(stored[d], asked)
  BY DEF ChatInv, StoredOK
<1>2. stored' = [d \in Known |-> IF d = c THEN t ELSE stored[d]] /\ t \in Seq(Message)
  BY DEF Store, Messages
<1>3. Known' = Known /\ stored' \in [Known -> Seq(Message)]
  BY <1>1, <1>2 DEF Known
<1>4. \A d \in Known : Messages(stored'[d], asked)
  BY <1>1, <1>2
<1> QED
  BY <1>1, <1>3, <1>4 DEF StoredOK

LEMMA WrittenInv ==
  ASSUME ChatInv, NEW w \in writes, LateStored(w) \/ Deleted(w)
  PROVE  ChatInv'
<1>1. Messages(w.messages, asked)
  BY DEF ChatInv, WritesOK
<1>2. /\ writes' \subseteq writes
      /\ UNCHANGED <<url, typed, idle, answer, resetting, controller, fetching, list,
                     creating, streams, asked, frozen>>
  BY DEF LateStored, Deleted
<1>3. Messages(shown', asked)
  BY <1>2, IdTaken DEF LateStored, Deleted, ChatInv
<1>4. StoredOK'
  <2>1. CASE UNCHANGED stored
    BY <1>2, <2>1 DEF ChatInv, StoredOK, Known, list
  <2>2. CASE Store(w.conversation, w.messages)
    BY <1>1, <1>2, <2>2, StoreKeeps DEF list
  <2> QED
    BY <2>1, <2>2 DEF LateStored, Deleted
<1>5. PlaceOK' /\ CreatingOK' /\ StreamsOK' /\ WritesOK' /\ StreamsCanBeStopped'
  BY <1>2 DEF ChatInv, PlaceOK, CreatingOK, Creation, StreamsOK, WritesOK,
              StreamsCanBeStopped, url, list
<1> QED
  BY <1>2, <1>3, <1>4, <1>5 DEF ChatInv

\* The steps of the user that change neither the list of ids nor the server.
LEMMA MoveInv ==
  ASSUME ChatInv, Type \/ NewConversation \/ \E c \in Conversations : ClickCard(c)
  PROVE  ChatInv'
<1>1. ASSUME Type PROVE ChatInv'
  <2>1. PlaceOK'
    BY <1>1 DEF Type, ChatInv, PlaceOK, url, list
  <2> QED
    BY <1>1, <2>1 DEF Type, ChatInv, CreatingOK, Creation, StoredOK, Known, StreamsOK, WritesOK,
                      StreamsCanBeStopped, list
<1>2. ASSUME NewConversation PROVE ChatInv'
  <2>1. made' \in Conversations /\ 0..made \subseteq 0..made' /\ 1..made \subseteq 1..made'
        /\ made' \in 0..made'
    BY <1>2, ChatAssumption DEF NewConversation, ChatInv, PlaceOK, Conversations
  <2>2. /\ at' = made' /\ {fresh', fetching'} \subseteq BOOLEAN
        /\ Messages(shown', asked)
    BY <1>2, GoToKeeps DEF NewConversation
  <2>3. PlaceOK'
    BY <1>2, <2>1, <2>2 DEF NewConversation, ChatInv, PlaceOK
  <2>4. CreatingOK' /\ StoredOK'
    BY <1>2, <2>1 DEF NewConversation, ChatInv, CreatingOK, Creation, StoredOK, Known
  <2> QED
    BY <1>2, <2>2, <2>3, <2>4 DEF NewConversation, ChatInv, StreamsOK, WritesOK, StreamsCanBeStopped
<1>3. ASSUME NEW c \in Conversations, ClickCard(c) PROVE ChatInv'
  <2>1. c \in 0..made
    BY <1>3 DEF ClickCard, ChatInv, PlaceOK, StoredOK
  <2>2. (c = temporary) \in BOOLEAN
    OBVIOUS
  <2>3. /\ at' = c /\ {fresh', fetching'} \subseteq BOOLEAN
        /\ Messages(shown', asked)
    BY <1>3, <2>2, GoToKeeps DEF ClickCard
  <2>4. /\ streams' = {} /\ controller' \in Nat /\ {idle', resetting'} \subseteq BOOLEAN
        /\ \A w \in writes' : w \in Writes /\ Messages(w.messages, asked)
    BY <1>3, AbortedKeeps DEF ClickCard
  <2>5. PlaceOK'
    BY <1>3, <2>1, <2>3, <2>4 DEF ClickCard, ChatInv, PlaceOK, list
  <2> QED
    BY <1>3, <2>3, <2>4, <2>5 DEF ClickCard, ChatInv, CreatingOK, Creation, StoredOK, Known,
                                  StreamsOK, WritesOK, StreamsCanBeStopped, list
<1> QED
  BY <1>1, <1>2, <1>3

LEMMA RemoveConversationInv ==
  ASSUME ChatInv, NEW c \in Conversations, RemoveConversation(c)
  PROVE  ChatInv'
<1>1. PlaceOK'
  BY DEF RemoveConversation, ChatInv, PlaceOK, url
<1>2. Known' = Known \ {c} /\ \A d \in Known \ {c} : stored'[d] = stored[d]
  BY DEF RemoveConversation, Known
<1>3. stored' \in [Known' -> Seq(Message)]
  BY <1>2 DEF RemoveConversation, ChatInv, StoredOK
<1>4. StoredOK'
  BY <1>2, <1>3 DEF RemoveConversation, ChatInv, StoredOK
<1> QED
  BY <1>1, <1>4 DEF RemoveConversation, ChatInv, CreatingOK, Creation, StreamsOK, WritesOK,
                    StreamsCanBeStopped

LEMMA FetchedInv ==
  ASSUME ChatInv, ListFetched \/ ConversationFetched \/ AnswerReset
  PROVE  ChatInv'
<1>1. ASSUME ListFetched PROVE ChatInv'
  <2> DEFINE c == IF Known = {} THEN NoConversation
                  ELSE CHOOSE x \in Known : \A d \in Known : d <= x
  <2>1. c \in 0..made
    <3>1. made \in Nat /\ Known \in SUBSET (1..made)
      BY ChatAssumption DEF ChatInv, PlaceOK, StoredOK, Conversations
    <3>2. CASE Known = {}
      BY <3>1, <3>2 DEF NoConversation
    <3>3. CASE Known # {}
      <4>1. \E x \in Known : \A d \in Known : d <= x
        BY <3>1, <3>3, GreatestOf
      <4>2. c \in Known
        BY <3>3, <4>1
      <4>3. \A x \in Known : x \in 0..made
        BY <3>1
      <4> HIDE DEF c
      <4> QED
        BY <4>2, <4>3
    <3> QED
      BY <3>2, <3>3
  <2>2. GoTo(c, FALSE)
    BY <1>1 DEF ListFetched
  <2> HIDE DEF c
  <2>3. /\ at' = c /\ {fresh', fetching'} \subseteq BOOLEAN
        /\ Messages(shown', asked)
    BY <2>2, GoToKeeps
  <2>4. PlaceOK'
    <3>1. NoConversation \in 0..made
      BY <2>1, ChatAssumption DEF ChatInv, PlaceOK, Conversations, NoConversation
    <3> QED
      BY <1>1, <2>1, <2>3, <3>1 DEF ListFetched, ChatInv, PlaceOK
  <2> QED
    BY <1>1, <2>3, <2>4 DEF ListFetched, ChatInv, CreatingOK, Creation, StoredOK, Known,
                            StreamsOK, WritesOK, StreamsCanBeStopped
<1>2. ASSUME ConversationFetched PROVE ChatInv'
  <2>1. Messages(shown', asked)
    BY <1>2 DEF ConversationFetched, ChatInv, StoredOK
  <2>2. PlaceOK'
    BY <1>2 DEF ConversationFetched, ChatInv, PlaceOK, url, list
  <2> QED
    BY <1>2, <2>1, <2>2 DEF ConversationFetched, ChatInv, CreatingOK, Creation, StoredOK,
                            Known, StreamsOK, WritesOK, StreamsCanBeStopped, list
<1>3. ASSUME AnswerReset PROVE ChatInv'
  <2>1. PlaceOK'
    <3>1. <<>> \in Seq(MessageIds)
      OBVIOUS
    <3> QED
      BY <1>3, <3>1 DEF AnswerReset, ChatInv, PlaceOK, url, list
  <2> QED
    BY <1>3, <2>1 DEF AnswerReset, ChatInv, CreatingOK, Creation, StoredOK, Known, StreamsOK, WritesOK,
                      StreamsCanBeStopped, list
<1> QED
  BY <1>1, <1>2, <1>3

LEMMA CreatedInv ==
  ASSUME ChatInv, NEW p \in creating, Created(p) \/ CreateFails(p)
  PROVE  ChatInv'
<1>1. p \in Creation /\ p.conversation \in 1..made /\ p.id \in MessageIds
      /\ p.id \in Nat /\ p.id <= asked /\ p.controller \in Nat
  BY ChatAssumption DEF ChatInv, PlaceOK, CreatingOK, Creation, MessageIds, NoId
<1>2. CASE \/ CreateFails(p)
           \/ Created(p) /\ p.conversation \in Known
  <2>1. /\ creating' \subseteq creating
        /\ UNCHANGED <<url, shown, fetching, stored, streams, idle, resetting, listing,
                       typed, answer, controller, temporary, made, asked, writes, frozen>>
    BY <1>2 DEF CreateFails, Created, list
  <2>2. PlaceOK'
    BY <2>1 DEF ChatInv, PlaceOK, url
  <2> QED
    BY <2>1, <2>2 DEF ChatInv, CreatingOK, Creation, StoredOK, Known, StreamsOK, WritesOK,
                      StreamsCanBeStopped
<1>3. CASE Created(p) /\ p.conversation \notin Known
  <2> DEFINE r == Request(p.conversation, Sent(<<Prologue>>, p.id), p.id, p.controller)
  <2>1. /\ creating' = creating \ {p}
        /\ stored' = [c \in Known \cup {p.conversation} |->
                        IF c \in Known THEN stored[c] ELSE <<Prologue>>]
        /\ listing' = TRUE
        /\ GoTo(p.conversation, FALSE) /\ Send(r)
        /\ UNCHANGED <<typed, answer, controller, temporary, made, asked, writes, frozen>>
    BY <1>3 DEF Created
  <2>2. /\ at' = p.conversation /\ {fresh', fetching'} \subseteq BOOLEAN
        /\ Messages(shown', asked)
    BY <2>1, GoToKeeps
  <2>3. r \in Requests /\ Messages(r.sent, asked)
    <3>1. /\ Prologue \in Message /\ Prologue.role = "answer"
          /\ Question(p.id) \in Message /\ Question(p.id).id = p.id
          /\ Question(p.id).role = "question"
      BY <1>1, FixedMessages DEF Prologue, Answer, Question, Message
    <3> DEFINE t == Append(<<Prologue>>, Question(p.id))
    <3>2. t \in Seq(Message) /\ DOMAIN t = 1..2 /\ t[1] = Prologue /\ t[2] = Question(p.id)
      BY <3>1
    <3> HIDE DEF t
    <3>3. \A i \in DOMAIN t : t[i].role = "question" => i = 2
      BY <3>1, <3>2
    <3>4. Once(t) /\ Numbered(t, asked)
      <4>1. Once(t)
        BY <3>3 DEF Once
      <4>2. Numbered(t, asked)
        BY <1>1, <3>1, <3>2, <3>3 DEF Numbered
      <4> QED
        BY <4>1, <4>2
    <3>5. Messages(Sent(<<Prologue>>, p.id), asked)
      BY <3>2, <3>4 DEF Messages, Sent, t
    <3>6. p.conversation \in Conversations
      BY <1>1, ChatAssumption DEF ChatInv, PlaceOK, Conversations
    <3> QED
      BY <1>1, <3>5, <3>6 DEF Request, Requests, Messages
  <2> HIDE DEF r
  <2>4. StreamsFrom(r) /\ {idle', resetting'} \subseteq BOOLEAN
    BY <2>1, <2>3, SendKeeps
  <2>5. StreamsOK' /\ StreamsCanBeStopped'
    BY <2>1, <2>3, <2>4 DEF ChatInv, StreamsFrom, StreamsOK, WritesOK, StreamsCanBeStopped
  <2>6. StoredOK'
    <3>1. Known' = Known \cup {p.conversation}
      BY <2>1 DEF Known
    <3>2. <<Prologue>> \in Seq(Message) /\ Messages(<<Prologue>>, asked)
      BY FixedMessages DEF Messages
    <3>3. stored' \in [Known' -> Seq(Message)]
      BY <2>1, <3>1, <3>2 DEF ChatInv, StoredOK
    <3>4. \A c \in Known' : stored'[c] = IF c \in Known THEN stored[c] ELSE <<Prologue>>
      BY <2>1, <3>1
    <3> QED
      BY <1>1, <2>1, <3>1, <3>2, <3>3, <3>4 DEF ChatInv, StoredOK
  <2>7. PlaceOK'
    BY <1>1, <2>1, <2>2, <2>4 DEF ChatInv, PlaceOK
  <2> QED
    BY <2>1, <2>2, <2>5, <2>6, <2>7 DEF ChatInv, CreatingOK, Creation, WritesOK
<1> QED
  BY <1>2, <1>3 DEF Created

LEMMA ServerStepInv ==
  ASSUME ChatInv, NEW s \in streams, ServerStep(s)
  PROVE  ChatInv'
<1>1. s \in Requests /\ Messages(s.sent, asked) /\ s.id \in MessageIds
  BY DEF ChatInv, StreamsOK, WritesOK, Requests
<1>2. NoId \in MessageIds
  BY ChatAssumption DEF MessageIds, NoId
\* A stream in another phase is the same request.
<1>3. ASSUME NEW phase \in {"asked", "answering", "stored"}, streams' = Phase(s, phase),
             UNCHANGED <<asked, controller>>
      PROVE  StreamsOK' /\ StreamsCanBeStopped'
  <2>1. [s EXCEPT !.phase = phase] \in Requests
        /\ [s EXCEPT !.phase = phase].sent = s.sent
        /\ [s EXCEPT !.phase = phase].controller = s.controller
    BY <1>1 DEF Requests
  <2> QED
    BY <1>1, <1>3, <2>1 DEF Phase, ChatInv, StreamsOK, WritesOK, StreamsCanBeStopped
<1>4. ASSUME NEW id \in MessageIds, Chunk(s, id) PROVE ChatInv'
  <2>1. answer' \in Seq(MessageIds)
    BY <1>4 DEF Chunk
  <2>2. Messages(shown', asked)
    BY <1>4, <2>1, EffectKeeps DEF Chunk, ChatInv
  <2>3. StreamsOK' /\ StreamsCanBeStopped'
    BY <1>3, <1>4 DEF Chunk
  <2>4. PlaceOK'
    BY <1>4, <2>1 DEF Chunk, ChatInv, PlaceOK, url, list
  <2> QED
    BY <1>4, <2>2, <2>3, <2>4 DEF Chunk, ChatInv, CreatingOK, Creation, StoredOK, Known,
                                  WritesOK, list
<1>5. ASSUME Completed(s) PROVE ChatInv'
  <2>1. Messages(Write(s).messages, asked)
    BY WriteIs
  <2>2. StoredOK'
    BY <1>5, <2>1, StoreKeeps DEF Completed, list
  <2>3. StreamsOK' /\ StreamsCanBeStopped'
    BY <1>3, <1>5 DEF Completed
  <2>4. PlaceOK'
    BY <1>5 DEF Completed, ChatInv, PlaceOK, url, list
  <2> QED
    BY <1>5, <2>2, <2>3, <2>4 DEF Completed, ChatInv, CreatingOK, Creation, WritesOK, list
<1>6. ASSUME StreamEnds(s) \/ FetchFails(s) \/ Refused(s) PROVE ChatInv'
  <2>1. streams' \subseteq streams /\ {idle', resetting'} \subseteq BOOLEAN
    BY <1>6, EndKeeps DEF StreamEnds, FetchFails, Refused
  <2>2. Messages(shown', asked)
    BY <1>6, LastDropped DEF StreamEnds, FetchFails, Refused, ChatInv
  <2>3. /\ typed' \in BOOLEAN
        /\ UNCHANGED <<url, answer, controller, fetching, list, creating, asked, stored, frozen>>
    BY <1>6 DEF StreamEnds, FetchFails, Refused, ChatInv, PlaceOK
  <2>5. WritesOK'
    <3>1. {s} \in SUBSET streams /\ {Write(s)} = {Write(r) : r \in {s}}
      OBVIOUS
    <3>2. \/ UNCHANGED writes
          \/ GoesOn({Write(r) : r \in {s}})
      BY <1>6, <3>1 DEF StreamEnds, FetchFails, Refused
    <3> QED
      BY <2>3, <3>1, <3>2, GoesOnKeeps DEF ChatInv, WritesOK
  <2>4. PlaceOK'
    BY <2>1, <2>3 DEF ChatInv, PlaceOK, url, list
  <2> QED
    BY <2>1, <2>2, <2>3, <2>4, <2>5 DEF ChatInv, CreatingOK, Creation, StoredOK, Known,
                                       StreamsOK, StreamsCanBeStopped, list
<1>7. ASSUME ReadBreaks(s) PROVE ChatInv'
  <2>1. PlaceOK'
    BY <1>7 DEF ReadBreaks, ChatInv, PlaceOK, url, list
  <2> QED
    BY <1>7, <2>1 DEF ReadBreaks, ChatInv, CreatingOK, Creation, StoredOK, Known, StreamsOK, WritesOK,
                      StreamsCanBeStopped, list
<1> QED
  BY <1>1, <1>2, <1>4, <1>5, <1>6, <1>7 DEF ServerStep

LEMMA ChatNextInv == ASSUME ChatInv, [ChatNext]_chatVars PROVE ChatInv'
<1>1. CASE ChatUser
  <2>1. \/ Type \/ NewConversation \/ \E c \in Conversations : ClickCard(c)
        \/ PressEnter \/ Stop
        \/ \E i \in DOMAIN shown : Regenerate(i) \/ DeleteMessage(i)
        \/ \E c \in Conversations : RemoveConversation(c)
    BY <1>1 DEF ChatUser
  <2> QED
    BY <2>1, MoveInv, PressEnterInv, StopInv, RegenerateInv, DeleteInv, RemoveConversationInv
<1>2. CASE UNCHANGED chatVars
  <2>1. PlaceOK'
    BY <1>2 DEF chatVars, ChatInv, PlaceOK, url, list
  <2> QED
    BY <1>2, <2>1 DEF chatVars, ChatInv, CreatingOK, Creation, StoredOK, Known, StreamsOK, WritesOK,
                      StreamsCanBeStopped, list
<1> QED
  BY <1>1, <1>2, FetchedInv, CreatedInv, ServerStepInv, WrittenInv DEF ChatNext

LEMMA ChatInductive == ChatSpec => []ChatInv
BY ChatInitInv, ChatNextInv, PTL DEF ChatSpec

-----------------------------------------------------------------------------
(* The theorems. *)

\* Every variable of the chat page and every stored message keeps its type, and
\* the server knows no conversation whose id was not made.
THEOREM ChatTypeCorrect == ChatSpec => []ChatTypeOK
<1>1. ASSUME ChatInv PROVE ChatTypeOK
  <2>1. at \in Conversations \cup {NoConversation}
        /\ temporary \in Conversations \cup {NoConversation}
    BY <1>1, ChatAssumption DEF ChatInv, PlaceOK, Conversations, NoConversation
  <2> QED
    BY <1>1, <2>1 DEF ChatInv, PlaceOK, Messages, StoredOK, StreamsOK, WritesOK, ChatTypeOK
<1> QED
  BY <1>1, ChatInductive, PTL

\* In every behaviour of the chat page, for any number of questions and
\* conversations, the stop button reaches every stream: each holds the
\* controller in use, since abort ends all of the one before it and a request
\* of an aborted controller fails at once.
THEOREM EveryStreamCanBeStopped == ChatSpec => []StreamsCanBeStopped
<1>1. ChatInv => StreamsCanBeStopped
  BY DEF ChatInv
<1> QED
  BY <1>1, ChatInductive, PTL

\* No conversation of the server ever holds a question twice, whatever was
\* stopped, regenerated, deleted or sent meanwhile: a question goes out behind
\* messages that are older than its id.
THEOREM QuestionsAreStoredOnce == ChatSpec => []QuestionStoredOnce
<1>1. ChatInv => QuestionStoredOnce
  BY DEF ChatInv, StoredOK, Messages, Once, QuestionStoredOnce
<1> QED
  BY <1>1, ChatInductive, PTL
=============================================================================
