----------------------------- MODULE HubProofs -----------------------------
(***************************************************************************)
(* Theorems about Hub, for any number of connections and events and        *)
(* channels of any size: an open connection has no gap but for the events  *)
(* dropped on a full queue, and a dead token gets at most one more.        *)
(***************************************************************************)
EXTENDS Hub, SequenceTheorems, TLAPS

-----------------------------------------------------------------------------
(* Lemmas about sequences and the greeting among them                      *)

Greetable == Events \cup {Connected}

LEMMA InsertFacts ==
  ASSUME NEW E, NEW s \in Seq(E), NEW i \in 1..(Len(s) + 1), NEW x \in E
  PROVE  /\ InsertAt(s, i, x) \in Seq(E)
         /\ Len(InsertAt(s, i, x)) = Len(s) + 1
         /\ \A j \in 1..(i - 1) : InsertAt(s, i, x)[j] = s[j]
         /\ InsertAt(s, i, x)[i] = x
         /\ \A j \in (i + 1)..(Len(s) + 1) : InsertAt(s, i, x)[j] = s[j - 1]
<1> DEFINE a == SubSeq(s, 1, i - 1)
           b == SubSeq(s, i, Len(s))
<1>1. /\ a \in Seq(E) /\ Len(a) = i - 1
      /\ \A j \in 1..(i - 1) : a[j] = s[j]
  BY SubSeqProperties, LenProperties
<1>2. /\ b \in Seq(E) /\ Len(b) = Len(s) + 1 - i
      /\ \A j \in 1..(Len(s) + 1 - i) : b[j] = s[i + j - 1]
  BY SubSeqProperties, LenProperties
<1>3. InsertAt(s, i, x) = (a \o <<x>>) \o b
  BY DEF InsertAt
<1> HIDE DEF a, b
<1>4. Len(s) \in Nat
  OBVIOUS
<1>c. PICK c : c = a \o <<x>>
  OBVIOUS
<1>5. /\ c \in Seq(E) /\ Len(c) = i
      /\ \A j \in 1..(i - 1) : c[j] = a[j]
      /\ c[i] = x
  BY <1>1, <1>4, <1>c
<1>v. PICK v : v = c \o b
  OBVIOUS
<1>6. /\ v \in Seq(E)
      /\ Len(v) = Len(s) + 1
      /\ \A j \in 1..i : v[j] = c[j]
      /\ \A j \in (i + 1)..(Len(s) + 1) : v[j] = b[j - i]
  <2>1. v \in Seq(E) /\ Len(v) = Len(c) + Len(b)
    BY <1>2, <1>5, <1>v, ConcatProperties
  <2>2. \A j \in 1..(Len(c) + Len(b)) : v[j] = IF j <= Len(c) THEN c[j] ELSE b[j - Len(c)]
    BY <1>2, <1>5, <1>v, ConcatProperties
  <2> QED BY <1>2, <1>4, <1>5, <2>1, <2>2
<1>7. \A j \in (i + 1)..(Len(s) + 1) : b[j - i] = s[j - 1]
  <2> TAKE j \in (i + 1)..(Len(s) + 1)
  <2>1. j - i \in 1..(Len(s) + 1 - i) /\ i + (j - i) - 1 = j - 1
    BY <1>4
  <2> QED BY <1>2, <2>1
<1>8. \A j \in (i + 1)..(Len(s) + 1) : v[j] = s[j - 1]
  BY <1>6, <1>7
<1>9. \A j \in 1..(i - 1) : v[j] = s[j]
  BY <1>1, <1>4, <1>5, <1>6
<1> QED BY <1>3, <1>4, <1>5, <1>6, <1>8, <1>9, <1>c, <1>v


(* Sequences are equal when their elements are. *)
LEMMA SameSeq ==
  ASSUME NEW E, NEW s \in Seq(E), NEW t \in Seq(E), Len(s) = Len(t),
         \A j \in 1..Len(s) : s[j] = t[j]
  PROVE  s = t
BY SeqEqual

LEMMA EventsAreNot ==
  /\ Connected \notin Events /\ Nothing \notin Events /\ Connected # Nothing
  /\ Events \subseteq Greetable
BY HubAssumption DEF Connected, Nothing, Greetable

LEMMA EventSeqs ==
  /\ \A s \in Seq(Events) : s \in Seq(Greetable)
BY EventsAreNot, SeqMonotonic

LEMMA GreetingFacts ==
  ASSUME NEW s \in Seq(Greetable), NEW i \in 1..(Len(s) + 1),
         NEW v, v = InsertAt(s, i, Connected)
  PROVE  /\ v \in Seq(Greetable) /\ Len(v) = Len(s) + 1
         /\ \A j \in 1..(i - 1) : v[j] = s[j]
         /\ v[i] = Connected
         /\ \A j \in (i + 1)..(Len(s) + 1) : v[j] = s[j - 1]
<1>1. Connected \in Greetable
  BY DEF Greetable
<1> QED BY <1>1, InsertFacts

LEMMA Assoc ==
  ASSUME NEW r \in Seq(Greetable), NEW s \in Seq(Greetable), NEW t \in Seq(Greetable)
  PROVE  r \o (s \o t) = (r \o s) \o t
BY ConcatAssociative

(* A new event goes to the end, with the greeting before it or not there.  *)
LEMMA GreetedAppend ==
  ASSUME NEW w, NEW d \in Seq(Events), NEW e \in Events, Greeted(w, d)
  PROVE  Greeted(Append(w, e), Append(d, e))
<1>1. CASE w = d
  BY <1>1 DEF Greeted
<1>2. CASE \E i \in 1..(Len(d) + 1) : w = InsertAt(d, i, Connected)
  <2>i. PICK i \in 1..(Len(d) + 1) : w = InsertAt(d, i, Connected)
    BY <1>2
  <2>0. d \in Seq(Greetable) /\ e \in Greetable /\ Connected \in Greetable /\ Len(d) \in Nat
    BY EventSeqs, EventsAreNot DEF Greetable
  <2>d. PICK d1 \in Seq(Greetable) : d1 = Append(d, e)
    BY <2>0, AppendProperties
  <2>1. /\ Len(d1) = Len(d) + 1 /\ d1[Len(d) + 1] = e
        /\ \A j \in 1..Len(d) : d1[j] = d[j]
    BY <2>0, <2>d, AppendProperties
  <2>2. i \in 1..(Len(d1) + 1) /\ i \in Int
    BY <2>0, <2>1
  <2>3. /\ w \in Seq(Greetable) /\ Len(w) = Len(d) + 1
        /\ \A j \in 1..(i - 1) : w[j] = d[j]
        /\ w[i] = Connected
        /\ \A j \in (i + 1)..(Len(d) + 1) : w[j] = d[j - 1]
    BY <2>0, <2>i, GreetingFacts
  <2>w. PICK w1 \in Seq(Greetable) : w1 = Append(w, e)
    BY <2>0, <2>3, AppendProperties
  <2>4. /\ Len(w1) = Len(d) + 2 /\ w1[Len(d) + 2] = e
        /\ \A j \in 1..(Len(d) + 1) : w1[j] = w[j]
    BY <2>0, <2>3, <2>w, AppendProperties
  <2>e. d1 \in Seq(Greetable)
    BY <2>d
  <2>v. PICK v : v = InsertAt(d1, i, Connected)
    OBVIOUS
  <2>5. /\ v \in Seq(Greetable) /\ Len(v) = Len(d1) + 1
        /\ \A j \in 1..(i - 1) : v[j] = d1[j]
        /\ v[i] = Connected
        /\ \A j \in (i + 1)..(Len(d1) + 1) : v[j] = d1[j - 1]
    BY <2>0, <2>1, <2>2, <2>e, <2>v, GreetingFacts
  <2>6. ASSUME NEW j \in 1..Len(v) PROVE v[j] = w1[j]
    <3>1. CASE j < i
      BY <2>0, <2>1, <2>2, <2>3, <2>4, <2>5, <3>1
    <3>2. CASE j = i
      BY <2>0, <2>1, <2>2, <2>3, <2>4, <2>5, <3>2
    <3>3. CASE i < j /\ j < Len(d) + 2
      <4>0. j \in (i + 1)..(Len(d) + 1) /\ j - 1 \in 1..Len(d)
        BY <2>0, <2>1, <2>2, <2>5, <3>3
      <4>1. v[j] = d1[j - 1] /\ d1[j - 1] = d[j - 1]
        BY <2>0, <2>1, <2>2, <2>5, <4>0
      <4>2. w1[j] = w[j] /\ w[j] = d[j - 1]
        BY <2>0, <2>2, <2>3, <2>4, <4>0
      <4> QED BY <4>1, <4>2
    <3>4. CASE j = Len(d) + 2
      BY <2>0, <2>1, <2>2, <2>4, <2>5, <3>4
    <3>5. j < i \/ j = i \/ (i < j /\ j < Len(d) + 2) \/ j = Len(d) + 2
      BY <2>0, <2>1, <2>2, <2>5
    <3> QED BY <3>1, <3>2, <3>3, <3>4, <3>5
  <2>7. v = w1
    BY <2>0, <2>1, <2>4, <2>5, <2>6, <2>w, SameSeq
  <2> QED BY <2>2, <2>7, <2>d, <2>w, <2>v DEF Greeted
<1> QED BY <1>1, <1>2 DEF Greeted

(* The first of them goes out: an event that was owed,                     *)
LEMMA GreetedTail ==
  ASSUME NEW w \in Seq(Greetable), w # <<>>, w[1] \in Events,
         NEW d \in Seq(Events), Greeted(w, d)
  PROVE  /\ Tail(d) \in Seq(Events) /\ d # <<>> /\ Head(d) = w[1]
         /\ Greeted(Tail(w), Tail(d))
<1>d. d # <<>> /\ d[1] = w[1]
  <2>1. CASE w = d
    BY <2>1
  <2>2. CASE \E i \in 1..(Len(d) + 1) : w = InsertAt(d, i, Connected)
    <3>i. PICK i \in 1..(Len(d) + 1) : w = InsertAt(d, i, Connected)
      BY <2>2
    <3>0. d \in Seq(Greetable) /\ Connected \in Greetable /\ Len(d) \in Nat
      BY EventSeqs DEF Greetable
    <3>1. w[i] = Connected /\ \A j \in 1..(i - 1) : w[j] = d[j]
      BY <3>0, <3>i, GreetingFacts
    <3>2. i # 1
      BY <3>1, EventsAreNot
    <3> QED BY <3>0, <3>1, <3>2
  <2> QED BY <2>1, <2>2 DEF Greeted
<1>h. Tail(d) \in Seq(Events) /\ Head(d) = d[1]
  BY <1>d, HeadTailProperties
<1>1. CASE w = d
  BY <1>1, <1>d, <1>h DEF Greeted
<1>2. CASE \E i \in 1..(Len(d) + 1) : w = InsertAt(d, i, Connected)
  <2>i. PICK i \in 1..(Len(d) + 1) : w = InsertAt(d, i, Connected)
    BY <1>2
  <2>0. d \in Seq(Greetable) /\ Connected \in Greetable /\ Len(d) \in Nat
    BY EventSeqs DEF Greetable
  <2>1. /\ Len(w) = Len(d) + 1
        /\ \A j \in 1..(i - 1) : w[j] = d[j]
        /\ w[i] = Connected
        /\ \A j \in (i + 1)..(Len(d) + 1) : w[j] = d[j - 1]
    BY <2>0, <2>i, GreetingFacts
  <2>2. i # 1
    BY <2>1, EventsAreNot
  <2>3. i - 1 \in 1..Len(d) /\ d # <<>> /\ i \in Int
    BY <2>0, <2>2
  <2>d. PICK d1 : d1 = Tail(d)
    OBVIOUS
  <2>4. /\ d1 \in Seq(Events) /\ d1 \in Seq(Greetable) /\ Len(d1) = Len(d) - 1
        /\ \A j \in 1..Len(d1) : d1[j] = d[j + 1]
    BY <2>0, <2>3, <2>d, HeadTailProperties
  <2>w. PICK w1 : w1 = Tail(w)
    OBVIOUS
  <2>5. /\ w1 \in Seq(Greetable) /\ Len(w1) = Len(d)
        /\ \A j \in 1..Len(w1) : w1[j] = w[j + 1]
    BY <2>0, <2>1, <2>w, HeadTailProperties
  <2>k. PICK k \in 1..(Len(d1) + 1) : k = i - 1
    BY <2>0, <2>3, <2>4
  <2>v. PICK v : v = InsertAt(d1, k, Connected)
    OBVIOUS
  <2>6. /\ v \in Seq(Greetable) /\ Len(v) = Len(d1) + 1
        /\ \A j \in 1..(k - 1) : v[j] = d1[j]
        /\ v[k] = Connected
        /\ \A j \in (k + 1)..(Len(d1) + 1) : v[j] = d1[j - 1]
    <3>1. d1 \in Seq(Greetable)
      BY <2>4
    <3> QED BY <2>v, <3>1, GreetingFacts
  <2>7. ASSUME NEW j \in 1..Len(v) PROVE v[j] = w1[j]
    <3>0. j \in 1..Len(d) /\ j \in Int /\ k \in Int
      BY <2>0, <2>4, <2>6
    <3>1. CASE j < k
      <4>1. v[j] = d[j + 1]
        BY <2>0, <2>4, <2>6, <2>k, <3>0, <3>1
      <4>2. w1[j] = w[j + 1] /\ j + 1 \in 1..(i - 1)
        BY <2>0, <2>3, <2>5, <2>k, <3>0, <3>1
      <4> QED BY <2>1, <4>1, <4>2
    <3>2. CASE j = k
      <4>1. w1[j] = w[i]
        BY <2>0, <2>3, <2>5, <2>k, <3>0, <3>2
      <4> QED BY <2>1, <2>6, <3>2, <4>1
    <3>3. CASE k < j
      <4>1. v[j] = d[j]
        BY <2>0, <2>4, <2>6, <2>k, <3>0, <3>3
      <4>2. w1[j] = w[j + 1] /\ j + 1 \in (i + 1)..(Len(d) + 1)
        BY <2>0, <2>3, <2>5, <2>k, <3>0, <3>3
      <4>3. w[j + 1] = d[j]
        <5>1. (j + 1) - 1 = j
          BY <3>0
        <5> QED BY <2>1, <4>2, <5>1
      <4> QED BY <4>1, <4>2, <4>3
    <3>4. j < k \/ j = k \/ k < j
      BY <3>0
    <3> QED BY <3>1, <3>2, <3>3, <3>4
  <2>8. v = w1
    BY <2>0, <2>4, <2>5, <2>6, <2>7, SameSeq
  <2> QED BY <1>d, <1>h, <2>4, <2>8, <2>d, <2>w, <2>v DEF Greeted
<1> QED BY <1>1, <1>2 DEF Greeted

(* or the greeting, which was not.                                         *)
LEMMA GreetingSent ==
  ASSUME NEW w \in Seq(Greetable), w # <<>>, w[1] = Connected,
         NEW d \in Seq(Events), Greeted(w, d)
  PROVE  Tail(w) = d
<1>1. w # d
  BY EventsAreNot, ElementOfSeq, EmptySeq, LenProperties
<1>i. PICK i \in 1..(Len(d) + 1) : w = InsertAt(d, i, Connected)
  BY <1>1 DEF Greeted
<1>0. d \in Seq(Greetable) /\ Connected \in Greetable /\ Len(d) \in Nat
  BY EventSeqs DEF Greetable
<1>2. /\ Len(w) = Len(d) + 1
      /\ \A j \in 1..(i - 1) : w[j] = d[j]
      /\ \A j \in (i + 1)..(Len(d) + 1) : w[j] = d[j - 1]
  BY <1>0, <1>i, GreetingFacts
<1>3. i = 1
  <2> SUFFICES ASSUME i # 1 PROVE FALSE
    OBVIOUS
  <2>1. w[1] = d[1] /\ 1 \in 1..Len(d)
    BY <1>0, <1>2
  <2>2. d[1] \in Events
    BY <2>1, ElementOfSeq
  <2> QED BY <2>1, <2>2, EventsAreNot
<1>w. PICK w1 : w1 = Tail(w)
  OBVIOUS
<1>4. /\ w1 \in Seq(Greetable) /\ Len(w1) = Len(d)
      /\ \A j \in 1..Len(w1) : w1[j] = w[j + 1]
  BY <1>0, <1>2, <1>w, HeadTailProperties
<1>5. \A j \in 1..Len(w1) : w1[j] = d[j]
  <2> TAKE j \in 1..Len(w1)
  <2>1. j + 1 \in 2..(Len(d) + 1) /\ (j + 1) - 1 = j
    BY <1>0, <1>4
  <2>2. w1[j] = w[j + 1]
    BY <1>4
  <2>3. w[j + 1] = d[(j + 1) - 1]
    BY <1>2, <1>3, <2>1
  <2> QED BY <2>1, <2>2, <2>3
<1> QED BY <1>0, <1>4, <1>5, <1>w, SameSeq

(* Among events alone there is no greeting. *)
LEMMA Ungreeted ==
  ASSUME NEW w \in Seq(Events), NEW d \in Seq(Events), Greeted(w, d)
  PROVE  w = d
<1> SUFFICES ASSUME NEW i \in 1..(Len(d) + 1), w = InsertAt(d, i, Connected) PROVE FALSE
  BY DEF Greeted
<1>0. d \in Seq(Greetable) /\ Connected \in Greetable /\ Len(d) \in Nat
  BY EventSeqs DEF Greetable
<1>1. w[i] = Connected /\ Len(w) = Len(d) + 1
  BY <1>0, GreetingFacts
<1>2. w[i] \in Events
  BY <1>1, ElementOfSeq
<1> QED BY <1>1, <1>2, EventsAreNot

(* The greeting takes its place behind the events that are there. *)
LEMMA GreetingPlaced ==
  ASSUME NEW s \in Seq(Events), NEW t \in Seq(Events)
  PROVE  Greeted(Append(s, Connected) \o t, s \o t)
<1>0. /\ s \in Seq(Greetable) /\ t \in Seq(Greetable) /\ Connected \in Greetable
      /\ Len(s) \in Nat /\ Len(t) \in Nat
  BY EventSeqs DEF Greetable
<1>d. PICK d : d = s \o t
  OBVIOUS
<1>1. /\ d \in Seq(Greetable) /\ Len(d) = Len(s) + Len(t)
      /\ \A j \in 1..Len(s) : d[j] = s[j]
      /\ \A j \in (Len(s) + 1)..(Len(s) + Len(t)) : d[j] = t[j - Len(s)]
  BY <1>0, <1>d, ConcatProperties
<1>a. PICK a : a = Append(s, Connected)
  OBVIOUS
<1>2. /\ a \in Seq(Greetable) /\ Len(a) = Len(s) + 1 /\ a[Len(s) + 1] = Connected
      /\ \A j \in 1..Len(s) : a[j] = s[j]
  BY <1>0, <1>a, AppendProperties
<1>w. PICK w : w = a \o t
  OBVIOUS
<1>3. /\ w \in Seq(Greetable) /\ Len(w) = Len(s) + 1 + Len(t)
      /\ \A j \in 1..(Len(s) + 1) : w[j] = a[j]
      /\ \A j \in (Len(s) + 2)..(Len(s) + 1 + Len(t)) : w[j] = t[j - (Len(s) + 1)]
  <2>1. w \in Seq(Greetable) /\ Len(w) = Len(a) + Len(t)
    BY <1>0, <1>2, <1>w, ConcatProperties
  <2>2. \A j \in 1..(Len(a) + Len(t)) : w[j] = IF j <= Len(a) THEN a[j] ELSE t[j - Len(a)]
    BY <1>0, <1>2, <1>w, ConcatProperties
  <2>3. \A j \in 1..(Len(s) + 1) : w[j] = a[j]
    BY <1>0, <1>2, <2>2
  <2>4. \A j \in (Len(s) + 2)..(Len(s) + 1 + Len(t)) : w[j] = t[j - (Len(s) + 1)]
    BY <1>0, <1>2, <2>2
  <2> QED BY <1>2, <2>1, <2>3, <2>4
<1>i. PICK i \in 1..(Len(d) + 1) : i = Len(s) + 1
  BY <1>0, <1>1
<1>v. PICK v : v = InsertAt(d, i, Connected)
  OBVIOUS
<1>4. /\ v \in Seq(Greetable) /\ Len(v) = Len(d) + 1
      /\ \A j \in 1..(i - 1) : v[j] = d[j]
      /\ v[i] = Connected
      /\ \A j \in (i + 1)..(Len(d) + 1) : v[j] = d[j - 1]
  BY <1>0, <1>1, <1>v, GreetingFacts
<1>5. ASSUME NEW j \in 1..Len(v) PROVE v[j] = w[j]
  <2>1. CASE j < i
    <3>0. j \in 1..Len(s) /\ j \in 1..(Len(s) + 1)
      BY <1>0, <1>1, <1>4, <1>i, <2>1
    <3>1. v[j] = d[j] /\ d[j] = s[j]
      BY <1>1, <1>4, <1>i, <2>1, <3>0
    <3>2. w[j] = a[j] /\ a[j] = s[j]
      BY <1>2, <1>3, <3>0
    <3> QED BY <3>1, <3>2
  <2>2. CASE j = i
    BY <1>0, <1>1, <1>2, <1>3, <1>4, <1>i, <2>2
  <2>3. CASE i < j
    <3>0. j \in Int /\ Len(s) + 1 < j /\ j <= Len(s) + Len(t) + 1
      BY <1>0, <1>1, <1>4, <1>i, <2>3
    <3>1. v[j] = d[j - 1] /\ d[j - 1] = t[(j - 1) - Len(s)]
      <4>1. j \in (i + 1)..(Len(d) + 1) /\ j - 1 \in (Len(s) + 1)..(Len(s) + Len(t))
        BY <1>0, <1>1, <1>i, <3>0
      <4> QED BY <1>1, <1>4, <4>1
    <3>2. w[j] = t[j - (Len(s) + 1)]
      BY <1>0, <1>3, <3>0
    <3>3. (j - 1) - Len(s) = j - (Len(s) + 1)
      BY <1>0, <3>0
    <3> QED BY <3>1, <3>2, <3>3
  <2>4. j < i \/ j = i \/ i < j
    BY <1>0, <1>1, <1>4, <1>i
  <2> QED BY <2>1, <2>2, <2>3, <2>4
<1>6. Len(v) = Len(w)
  BY <1>0, <1>1, <1>3, <1>4
<1>7. v = w
  BY <1>3, <1>4, <1>5, <1>6, SameSeq
<1> QED BY <1>7, <1>d, <1>a, <1>w, <1>v DEF Greeted

(* The elements of a sequence that gets one more, or loses its first. *)
LEMMA AppendedSet ==
  ASSUME NEW s \in Seq(Events), NEW e \in Events
  PROVE  ToSet(Append(s, e)) = ToSet(s) \cup {e}
<1>1. /\ DOMAIN s = 1..Len(s) /\ Len(s) \in Nat
      /\ DOMAIN Append(s, e) = 1..(Len(s) + 1)
      /\ Append(s, e)[Len(s) + 1] = e
      /\ \A i \in 1..Len(s) : Append(s, e)[i] = s[i]
  BY AppendProperties, LenProperties
<1>2. 1..(Len(s) + 1) = 1..Len(s) \cup {Len(s) + 1}
  BY <1>1
<1> QED BY <1>1, <1>2 DEF ToSet

LEMMA TakenSet ==
  ASSUME NEW s \in Seq(Events), s # <<>>
  PROVE  ToSet(s) \subseteq ToSet(Tail(s)) \cup {Head(s)}
<1> SUFFICES ASSUME NEW i \in 1..Len(s), s[i] # Head(s) PROVE s[i] \in ToSet(Tail(s))
  BY LenProperties DEF ToSet
<1>1. /\ Len(s) \in Nat /\ Tail(s) \in Seq(Events) /\ Len(Tail(s)) = Len(s) - 1
      /\ \A j \in 1..(Len(s) - 1) : Tail(s)[j] = s[j + 1]
      /\ Head(s) = s[1]
  BY HeadTailProperties, LenProperties
<1>2. i - 1 \in 1..(Len(s) - 1) /\ (i - 1) + 1 = i
  BY <1>1
<1>3. i - 1 \in DOMAIN Tail(s) /\ Tail(s)[i - 1] = s[i]
  BY <1>1, <1>2, LenProperties
<1> QED BY <1>3 DEF ToSet

-----------------------------------------------------------------------------
(* The inductive invariant                                                 *)

(* A connection's state as its reader and writer leave it: the greeting    *)
(* comes with the writer, a closed connection is owed nothing, and once an *)
(* event was written for a dead token the writer does not write again.     *)
StartOK(c) ==
  /\ reader[c] = "none" => c \notin open /\ send[c] = <<>>
  /\ reader[c] \in {"none", "handshake"} => c \notin clients
  /\ reader[c] \in {"none", "handshake", "greet"} =>
       writer[c] = "none" /\ send[c] \in Seq(Events)
  /\ reader[c] \in {"read", "leave", "gone"} => writer[c] # "none"
  /\ reader[c] \in {"leave", "gone"} => c \notin open

WriterOK(c) ==
  /\ hand[c] # Nothing <=> writer[c] \in {"validate", "write"}
  /\ c \in open => writer[c] # "gone"
  /\ late[c] # 0 => late[c] = 1 /\ c \in dead /\ writer[c] # "write"

OwedOK(c) ==
  IF c \in open THEN Greeted(OnTheWay(c), due[c])
                ELSE due[c] = <<>> /\ late[c] = 0

(* Nothing is broadcast for a connection outside the map, or closed, and   *)
(* what was is lost, in the queue, or taken for it.                        *)
LossOK(c) ==
  /\ owed[c] # {} => c \in clients \cap open
  /\ \A e \in owed[c] : To[e] \in {Everyone, User[c]}
  /\ owed[c] \subseteq lost[c] \cup ToSet(queue) \cup ToSet(due[c])

ConnOK(c) == StartOK(c) /\ WriterOK(c) /\ OwedOK(c) /\ LossOK(c)

HubIInv ==
  /\ TypeOK
  /\ current = Nothing => todo = {}
  /\ \A c \in Conns : ConnOK(c)

(* What is on the way is in the writer's hand, in the channel, or comes    *)
(* from the hub.                                                           *)
Held(c) == IF hand[c] = Nothing THEN <<>> ELSE <<hand[c]>>
Coming(c) == IF c \in todo THEN <<current>> ELSE <<>>

LEMMA Way == ASSUME NEW c PROVE OnTheWay(c) = (Held(c) \o send[c]) \o Coming(c)
BY DEF OnTheWay, Held, Coming

LEMMA WayTypes ==
  ASSUME TypeOK, current = Nothing => todo = {}, NEW c \in Conns
  PROVE  /\ Held(c) \in Seq(Greetable) /\ send[c] \in Seq(Greetable)
         /\ Coming(c) \in Seq(Events) /\ Coming(c) \in Seq(Greetable)
         /\ due[c] \in Seq(Events)
         /\ OnTheWay(c) \in Seq(Greetable)
<1>1. Held(c) \in Seq(Greetable)
  <2>1. CASE hand[c] = Nothing
    BY <2>1 DEF Held
  <2>2. CASE hand[c] # Nothing
    BY <2>2 DEF Held, TypeOK, Greetable
  <2> QED BY <2>1, <2>2
<1>2. send[c] \in Seq(Greetable) /\ due[c] \in Seq(Events)
  BY DEF TypeOK, Greetable
<1>3. Coming(c) \in Seq(Events)
  <2>1. CASE c \in todo
    <3>1. current \in Events
      BY <2>1 DEF TypeOK
    <3> QED BY <2>1, <3>1 DEF Coming
  <2>2. CASE c \notin todo
    BY <2>2 DEF Coming
  <2> QED BY <2>1, <2>2
<1>4. Coming(c) \in Seq(Greetable)
  BY <1>3, EventSeqs
<1>5. OnTheWay(c) \in Seq(Greetable)
  <2>1. Held(c) \o send[c] \in Seq(Greetable)
    BY <1>1, <1>2, ConcatProperties
  <2> QED BY <1>4, <2>1, ConcatProperties, Way
<1> QED BY <1>1, <1>2, <1>3, <1>4, <1>5

(* Nothing of this connection changes.                                     *)
Same(c) ==
  /\ hand'[c] = hand[c] /\ send'[c] = send[c]
  /\ reader'[c] = reader[c] /\ writer'[c] = writer[c]
  /\ due'[c] = due[c] /\ owed'[c] = owed[c] /\ lost'[c] = lost[c] /\ late'[c] = late[c]
  /\ c \in open' <=> c \in open
  /\ c \in clients' <=> c \in clients
  /\ c \in dead => c \in dead'
  /\ c \in todo' <=> c \in todo
  /\ c \in todo => current' = current

LEMMA ConnSame ==
  ASSUME NEW c \in Conns, ConnOK(c), Same(c), queue' = queue
  PROVE  ConnOK(c)'
<1>1. StartOK(c)'
  BY DEF ConnOK, StartOK, Same
<1>2. WriterOK(c)'
  BY DEF ConnOK, WriterOK, Same
<1>3. OnTheWay(c)' = OnTheWay(c)
  BY DEF OnTheWay, Same
<1>4. OwedOK(c)'
  BY <1>3 DEF ConnOK, OwedOK, Same
<1>5. LossOK(c)'
  BY DEF ConnOK, LossOK, Same
<1> QED BY <1>1, <1>2, <1>4, <1>5 DEF ConnOK

(* A connection is closed. *)
LEMMA CloseFacts ==
  ASSUME TypeOK, NEW c \in Conns, Close(c)
  PROVE  /\ open' \subseteq Conns
         /\ due' \in [Conns -> Seq(Events)] /\ late' \in [Conns -> Nat]
         /\ owed' \in [Conns -> SUBSET Events] /\ lost' \in [Conns -> SUBSET Events]
         /\ c \notin open' /\ due'[c] = <<>> /\ owed'[c] = {} /\ late'[c] = 0
         /\ \A d \in Conns \ {c} :
              /\ due'[d] = due[d] /\ owed'[d] = owed[d]
              /\ lost'[d] = lost[d] /\ late'[d] = late[d]
              /\ d \in open' <=> d \in open
<1>1. <<>> \in Seq(Events)
  OBVIOUS
<1>2. due' \in [Conns -> Seq(Events)]
  BY <1>1 DEF TypeOK, Close
<1>3. due'[c] = <<>> /\ \A d \in Conns \ {c} : due'[d] = due[d]
  BY DEF TypeOK, Close
<1>4. owed' \in [Conns -> SUBSET Events] /\ owed'[c] = {}
  BY DEF TypeOK, Close
<1> QED BY <1>2, <1>3, <1>4 DEF TypeOK, Close

(* The writer has gone, and with it what it held. *)
LEMMA GoneStep ==
  ASSUME HubIInv, NEW c \in Conns, writer[c] \in {"select", "validate", "write"},
         WriterGone(c), UNCHANGED <<hubVars, clients, reader, dead>>
  PROVE  HubIInv'
<1>0. TypeOK /\ (current = Nothing => todo = {}) /\ \A d \in Conns : ConnOK(d)
  BY DEF HubIInv
<1>1. /\ Close(c)
      /\ writer' = [writer EXCEPT ![c] = "gone"]
      /\ hand' = [hand EXCEPT ![c] = Nothing]
      /\ send' = [send EXCEPT ![c] = <<>>]
      /\ UNCHANGED <<queue, waiting, current, todo, clients, reader, dead>>
  BY DEF WriterGone, hubVars
<1>2. /\ send' \in [Conns -> Seq(Events \cup {Connected})]
      /\ send'[c] = <<>> /\ \A d \in Conns \ {c} : send'[d] = send[d]
  <2>1. <<>> \in Seq(Events \cup {Connected})
    OBVIOUS
  <2> QED BY <1>0, <1>1, <2>1 DEF TypeOK
<1>3. \A d \in Conns : Len(send'[d]) <= SendCap
  <2> TAKE d \in Conns
  <2>1. CASE d = c
    BY <1>2, <2>1, HubAssumption
  <2>2. CASE d # c
    BY <1>0, <1>2, <2>2 DEF TypeOK
  <2> QED BY <2>1, <2>2
<1>4. /\ hand' \in [Conns -> Events \cup {Connected, Nothing}] /\ hand'[c] = Nothing
      /\ writer' \in [Conns -> {"none", "select", "validate", "write", "gone"}]
      /\ writer'[c] = "gone"
      /\ \A d \in Conns \ {c} : hand'[d] = hand[d] /\ writer'[d] = writer[d]
  BY <1>0, <1>1 DEF TypeOK
<1>5. TypeOK'
  BY <1>0, <1>1, <1>2, <1>3, <1>4, CloseFacts DEF TypeOK
<1>6. \A d \in Conns \ {c} : Same(d)
  BY <1>0, <1>1, <1>2, <1>4, CloseFacts DEF Same
<1>7. ConnOK(c)'
  <2>1. reader[c] \notin {"none", "handshake", "greet"}
    BY <1>0 DEF ConnOK, StartOK
  <2>2. StartOK(c)'
    BY <1>0, <1>1, <1>4, <2>1, CloseFacts DEF StartOK
  <2>3. WriterOK(c)' /\ OwedOK(c)' /\ LossOK(c)'
    BY <1>0, <1>1, <1>4, CloseFacts DEF WriterOK, OwedOK, LossOK
  <2> QED BY <2>2, <2>3 DEF ConnOK
<1> QED BY <1>0, <1>1, <1>5, <1>6, <1>7, ConnSame DEF HubIInv

-----------------------------------------------------------------------------
(* The hub                                                                 *)

LEMMA EnqueueStep ==
  ASSUME HubIInv, NEW e \in Events, Enqueue(e)
  PROVE  HubIInv'
<1>0. TypeOK /\ (current = Nothing => todo = {}) /\ \A d \in Conns : ConnOK(d)
  BY DEF HubIInv
<1>1. /\ waiting' = waiting \ {e}
      /\ queue' = IF Len(queue) < QueueCap THEN Append(queue, e) ELSE queue
      /\ owed' = [d \in Conns |-> IF Entitled(e, d) THEN owed[d] \cup {e} ELSE owed[d]]
      /\ lost' = [d \in Conns |-> IF Entitled(e, d) /\ Len(queue) = QueueCap
                                  THEN lost[d] \cup {e} ELSE lost[d]]
      /\ UNCHANGED <<current, todo, clients, send, reader, writer, hand, open, dead, due, late>>
  BY DEF Enqueue
<1>2. /\ queue' \in Seq(Events) /\ Len(queue') <= QueueCap
      /\ ToSet(queue) \subseteq ToSet(queue')
      /\ Len(queue) # QueueCap => e \in ToSet(queue')
  <2>0. queue \in Seq(Events) /\ Len(queue) \in Nat /\ Len(queue) <= QueueCap
    BY <1>0 DEF TypeOK
  <2>1. CASE Len(queue) < QueueCap
    BY <1>1, <2>0, <2>1, AppendedSet, HubAssumption
  <2>2. CASE ~(Len(queue) < QueueCap)
    BY <1>1, <2>0, <2>2, HubAssumption
  <2> QED BY <2>1, <2>2
<1>3. owed' \in [Conns -> SUBSET Events] /\ lost' \in [Conns -> SUBSET Events]
  <2>1. \A d \in Conns : /\ owed[d] \subseteq Events /\ lost[d] \subseteq Events
                         /\ owed[d] \cup {e} \in SUBSET Events
                         /\ lost[d] \cup {e} \in SUBSET Events
    BY <1>0 DEF TypeOK
  <2> QED BY <1>1, <2>1
<1>4. TypeOK'
  BY <1>0, <1>1, <1>2, <1>3 DEF TypeOK
<1>5. ASSUME NEW d \in Conns PROVE ConnOK(d)'
  <2>0. ConnOK(d)
    BY <1>0
  <2>1. StartOK(d)' /\ WriterOK(d)'
    BY <1>1, <2>0 DEF ConnOK, StartOK, WriterOK
  <2>2. OnTheWay(d)' = OnTheWay(d)
    BY <1>1 DEF OnTheWay
  <2>3. OwedOK(d)'
    BY <1>1, <2>0, <2>2 DEF ConnOK, OwedOK
  <2>4. CASE Entitled(e, d)
    <3>1. /\ owed'[d] = owed[d] \cup {e} /\ lost[d] \subseteq lost'[d]
          /\ Len(queue) = QueueCap => e \in lost'[d]
      BY <1>1, <2>4
    <3>2. owed'[d] \subseteq lost'[d] \cup ToSet(queue') \cup ToSet(due[d])
      BY <1>2, <2>0, <3>1 DEF ConnOK, LossOK
    <3> QED BY <1>1, <2>0, <2>1, <2>3, <2>4, <3>1, <3>2 DEF ConnOK, LossOK, Entitled
  <2>5. CASE ~Entitled(e, d)
    <3>1. owed'[d] = owed[d] /\ lost'[d] = lost[d]
      BY <1>1, <2>5
    <3>2. owed'[d] \subseteq lost'[d] \cup ToSet(queue') \cup ToSet(due[d])
      BY <1>2, <2>0, <3>1 DEF ConnOK, LossOK
    <3> QED BY <1>1, <2>0, <2>1, <2>3, <3>1, <3>2 DEF ConnOK, LossOK
  <2> QED BY <2>4, <2>5
<1> QED BY <1>0, <1>1, <1>4, <1>5 DEF HubIInv

(* What an open connection is owed comes its way. *)
LEMMA TakeEventStep ==
  ASSUME HubIInv, TakeEvent
  PROVE  HubIInv'
<1>0. TypeOK /\ (current = Nothing => todo = {}) /\ \A d \in Conns : ConnOK(d)
  BY DEF HubIInv
<1>e. PICK e : e = Head(queue)
  OBVIOUS
<1>1. /\ current = Nothing /\ queue # <<>>
      /\ current' = e /\ queue' = Tail(queue)
      /\ todo' = {d \in clients : IsFor(e, d)}
      /\ due' = [d \in Conns |-> IF Entitled(e, d) THEN Append(due[d], e) ELSE due[d]]
      /\ UNCHANGED <<waiting, clients, send, reader, writer, hand, open, dead, owed, lost, late>>
  BY <1>e DEF TakeEvent
<1>2. e \in Events /\ queue' \in Seq(Events) /\ Len(queue') <= QueueCap
  BY <1>0, <1>1, <1>e, HubAssumption, HeadTailProperties DEF TypeOK
<1>3. due' \in [Conns -> Seq(Events)]
  <2>1. \A d \in Conns : due[d] \in Seq(Events) /\ Append(due[d], e) \in Seq(Events)
    BY <1>0, <1>2, AppendProperties DEF TypeOK
  <2> QED BY <1>1, <2>1
<1>4. TypeOK'
  BY <1>0, <1>1, <1>2, <1>3 DEF TypeOK
<1>l. ASSUME NEW c \in Conns PROVE LossOK(c)'
  <2>0. /\ LossOK(c) /\ owed'[c] = owed[c] /\ lost'[c] = lost[c]
        /\ due[c] \in Seq(Events)
    BY <1>0, <1>1 DEF ConnOK, TypeOK
  <2>1. ToSet(queue) \subseteq ToSet(queue') \cup {e}
    BY <1>0, <1>1, <1>e, TakenSet DEF TypeOK
  <2>2. ToSet(due[c]) \subseteq ToSet(due'[c])
    <3>1. CASE Entitled(e, c)
      BY <1>1, <1>2, <2>0, <3>1, AppendedSet
    <3>2. CASE ~Entitled(e, c)
      BY <1>1, <3>2
    <3> QED BY <3>1, <3>2
  <2>3. e \in owed[c] => e \in ToSet(due'[c])
    <3> SUFFICES ASSUME e \in owed[c] PROVE e \in ToSet(due'[c])
      OBVIOUS
    <3>1. Entitled(e, c)
      BY <2>0 DEF LossOK, Entitled
    <3> QED BY <1>1, <1>2, <2>0, <3>1, AppendedSet
  <2> QED BY <1>1, <2>0, <2>1, <2>2, <2>3 DEF LossOK
<1>5. current' # Nothing
  BY <1>1, <1>2, EventsAreNot
<1>6. ASSUME NEW c \in Conns PROVE ConnOK(c)'
  <2>0. ConnOK(c)
    BY <1>0
  <2>1. StartOK(c)' /\ WriterOK(c)'
    BY <1>1, <2>0 DEF ConnOK, StartOK, WriterOK
  <2>2. c \notin todo
    BY <1>0, <1>1
  <2>3. CASE c \notin open
    <3>1. due'[c] = due[c]
      BY <1>1, <2>3 DEF Entitled
    <3>2. OwedOK(c)'
      BY <1>1, <2>0, <2>3, <3>1 DEF ConnOK, OwedOK
    <3> QED BY <1>l, <2>1, <3>2 DEF ConnOK
  <2>4. CASE c \in open /\ c \in todo'
    <3>1. due'[c] = Append(due[c], e)
      BY <1>1, <2>4 DEF Entitled, IsFor
    <3>2. OnTheWay(c)' = Append(OnTheWay(c), e)
      <4>1. Coming(c) = <<>> /\ Coming(c)' = <<e>> /\ Held(c)' = Held(c) /\ send'[c] = send[c]
        BY <1>1, <2>2, <2>4 DEF Coming, Held
      <4>2. OnTheWay(c)' = (Held(c) \o send[c]) \o <<e>>
        BY <4>1, Way DEF OnTheWay, Held, Coming
      <4>3. OnTheWay(c) = (Held(c) \o send[c]) \o <<>>
        BY <4>1, Way
      <4>4. Held(c) \o send[c] \in Seq(Greetable)
        BY <1>0, WayTypes, ConcatProperties
      <4>5. e \in Greetable
        BY <1>2, EventsAreNot
      <4> QED BY <4>2, <4>3, <4>4, <4>5, AppendIsConcat, ConcatEmptySeq
    <3>3. Greeted(OnTheWay(c), due[c]) /\ due[c] \in Seq(Events)
      BY <1>0, <2>0, <2>4 DEF ConnOK, OwedOK, TypeOK
    <3>4. Greeted(OnTheWay(c)', due'[c])
      BY <1>2, <3>1, <3>2, <3>3, GreetedAppend
    <3>5. OwedOK(c)'
      BY <1>1, <2>4, <3>4 DEF OwedOK
    <3> QED BY <1>l, <2>1, <3>5 DEF ConnOK
  <2>5. CASE c \in open /\ c \notin todo'
    <3>1. due'[c] = due[c]
      BY <1>1, <2>5 DEF Entitled, IsFor
    <3>2. OnTheWay(c)' = OnTheWay(c)
      BY <1>1, <2>2, <2>5 DEF OnTheWay
    <3>3. OwedOK(c)'
      BY <1>1, <2>0, <2>5, <3>1, <3>2 DEF ConnOK, OwedOK
    <3> QED BY <1>l, <2>1, <3>3 DEF ConnOK
  <2> QED BY <2>3, <2>4, <2>5
<1> QED BY <1>4, <1>5, <1>6 DEF HubIInv

(* From the hub into the channel, or the connection is closed. *)
LEMMA HandOverStep ==
  ASSUME HubIInv, NEW c \in Conns, HandOver(c)
  PROVE  HubIInv'
<1>0. TypeOK /\ (current = Nothing => todo = {}) /\ \A d \in Conns : ConnOK(d)
  BY DEF HubIInv
<1>1. /\ c \in todo /\ todo' = todo \ {c}
      /\ UNCHANGED <<queue, waiting, current, clients, reader, writer, hand, dead>>
  BY DEF HandOver
<1>2. current \in Events /\ current' # Nothing
  BY <1>0, <1>1 DEF TypeOK
<1>3. CASE writer[c] = "gone" /\ UNCHANGED <<send, open, due, owed, lost, late>>
  <2>1. TypeOK'
    BY <1>0, <1>1, <1>3 DEF TypeOK
  <2>2. \A d \in Conns \ {c} : Same(d)
    BY <1>1, <1>3 DEF Same
  <2>3. c \notin open
    BY <1>0, <1>3 DEF ConnOK, WriterOK
  <2>4. ConnOK(c)'
    BY <1>0, <1>1, <1>3, <2>3 DEF ConnOK, StartOK, WriterOK, OwedOK, LossOK
  <2> QED BY <1>0, <1>1, <1>2, <2>1, <2>2, <2>4, ConnSame DEF HubIInv
<1>4. CASE /\ writer[c] # "gone" /\ Len(send[c]) < SendCap
           /\ send' = [send EXCEPT ![c] = Append(@, current)]
           /\ UNCHANGED <<open, due, owed, lost, late>>
  <2>a. send[c] \in Seq(Events \cup {Connected}) /\ send[c] \in Seq(Greetable)
    BY <1>0 DEF TypeOK, Greetable
  <2>b. PICK s : s = Append(send[c], current)
    OBVIOUS
  <2>1. s \in Seq(Events \cup {Connected}) /\ Len(s) = Len(send[c]) + 1
    BY <1>2, <2>a, <2>b
  <2>2. /\ send' \in [Conns -> Seq(Events \cup {Connected})]
        /\ send'[c] = s /\ \A d \in Conns \ {c} : send'[d] = send[d]
    BY <1>0, <1>4, <2>1, <2>b DEF TypeOK
  <2>3. Len(s) <= SendCap
    BY <1>4, <2>1, <2>a, HubAssumption
  <2>4. TypeOK'
    BY <1>0, <1>1, <1>4, <2>2, <2>3 DEF TypeOK
  <2>5. \A d \in Conns \ {c} : Same(d)
    BY <1>1, <1>4, <2>2 DEF Same
  <2>6. OnTheWay(c)' = OnTheWay(c)
    <3>1. Coming(c) = <<current>> /\ Coming(c)' = <<>> /\ Held(c)' = Held(c)
      BY <1>1 DEF Coming, Held
    <3>2. OnTheWay(c)' = (Held(c) \o Append(send[c], current)) \o <<>>
      BY <2>2, <2>b, <3>1 DEF OnTheWay, Held, Coming
    <3>3. OnTheWay(c) = (Held(c) \o send[c]) \o <<current>>
      BY <3>1, Way
    <3>4. Held(c) \in Seq(Greetable) /\ current \in Greetable /\ <<current>> \in Seq(Greetable)
      BY <1>0, <1>2, WayTypes, EventsAreNot
    <3>5. Append(send[c], current) = send[c] \o <<current>>
      BY <2>a, <3>4, AppendIsConcat
    <3>6. Held(c) \o (send[c] \o <<current>>) = (Held(c) \o send[c]) \o <<current>>
      BY <2>a, <3>4, Assoc
    <3>7. Held(c) \o (send[c] \o <<current>>) \in Seq(Greetable)
      BY <2>a, <3>4, ConcatProperties
    <3> QED BY <3>2, <3>3, <3>5, <3>6, <3>7, ConcatEmptySeq
  <2>7. ConnOK(c)
    BY <1>0
  <2>8. StartOK(c)'
    <3>1. reader[c] \notin {"none", "handshake"}
      BY <1>0, <1>1, <2>7 DEF TypeOK, ConnOK, StartOK
    <3>2. reader[c] = "greet" => s \in Seq(Events)
      BY <1>2, <2>7, <2>b, AppendProperties DEF ConnOK, StartOK
    <3> QED BY <1>1, <1>4, <2>2, <2>7, <3>1, <3>2 DEF ConnOK, StartOK
  <2>9. WriterOK(c)' /\ OwedOK(c)' /\ LossOK(c)'
    BY <1>1, <1>4, <2>6, <2>7 DEF ConnOK, WriterOK, OwedOK, LossOK
  <2> QED BY <1>0, <1>1, <1>2, <2>4, <2>5, <2>8, <2>9, ConnSame DEF HubIInv, ConnOK
<1>5. CASE Close(c) /\ UNCHANGED send
  <2>1. TypeOK'
    BY <1>0, <1>1, <1>5, CloseFacts DEF TypeOK
  <2>2. \A d \in Conns \ {c} : Same(d)
    BY <1>0, <1>1, <1>5, CloseFacts DEF Same
  <2>3. ConnOK(c)'
    BY <1>0, <1>1, <1>5, CloseFacts DEF ConnOK, StartOK, WriterOK, OwedOK, LossOK
  <2> QED BY <1>0, <1>1, <1>2, <2>1, <2>2, <2>3, ConnSame DEF HubIInv
<1> QED BY <1>3, <1>4, <1>5 DEF HandOver, CloseSlow, history

LEMMA NextEventStep ==
  ASSUME HubIInv, NextEvent
  PROVE  HubIInv'
<1>0. TypeOK /\ (current = Nothing => todo = {}) /\ \A d \in Conns : ConnOK(d)
  BY DEF HubIInv
<1>1. /\ todo = {} /\ current' = Nothing
      /\ UNCHANGED <<queue, waiting, todo, clients, send, reader, writer, hand, open, dead,
                     due, owed, lost, late>>
  BY DEF NextEvent, clientVars, history
<1>2. TypeOK'
  BY <1>0, <1>1 DEF TypeOK
<1>3. \A d \in Conns : Same(d)
  BY <1>1 DEF Same
<1> QED BY <1>0, <1>1, <1>2, <1>3, ConnSame DEF HubIInv

-----------------------------------------------------------------------------
(* The reader                                                              *)

LEMMA WsHandlerStep ==
  ASSUME HubIInv, NEW c \in Conns, WsHandler(c)
  PROVE  HubIInv'
<1>0. TypeOK /\ (current = Nothing => todo = {}) /\ \A d \in Conns : ConnOK(d)
  BY DEF HubIInv
<1>1. /\ reader[c] = "none" /\ open' = open \cup {c}
      /\ reader' = [reader EXCEPT ![c] = "handshake"]
      /\ UNCHANGED <<queue, waiting, current, todo, clients, send, writer, hand, dead, due, owed, lost, late>>
  BY DEF WsHandler, hubVars, history
<1>2. /\ reader' \in [Conns -> {"none", "handshake", "greet", "read", "leave", "gone"}]
      /\ reader'[c] = "handshake" /\ \A d \in Conns \ {c} : reader'[d] = reader[d]
  BY <1>0, <1>1 DEF TypeOK
<1>3. TypeOK'
  BY <1>0, <1>1, <1>2 DEF TypeOK
<1>4. \A d \in Conns \ {c} : Same(d)
  BY <1>1, <1>2 DEF Same
<1>5. /\ c \notin open /\ c \notin clients /\ send[c] = <<>> /\ writer[c] = "none"
      /\ hand[c] = Nothing /\ due[c] = <<>> /\ late[c] = 0 /\ c \notin todo
  BY <1>0, <1>1 DEF ConnOK, StartOK, WriterOK, OwedOK, TypeOK
<1>6. StartOK(c)' /\ WriterOK(c)'
  BY <1>1, <1>2, <1>5 DEF StartOK, WriterOK
<1>l. LossOK(c)'
  BY <1>0, <1>1, <1>5 DEF ConnOK, LossOK
<1>7. OwedOK(c)'
  <2>1. OnTheWay(c)' = <<>>
    <3>1. Held(c)' = <<>> /\ Coming(c)' = <<>> /\ send'[c] = <<>>
      BY <1>1, <1>5 DEF Held, Coming
    <3>2. OnTheWay(c)' = (Held(c)' \o send'[c]) \o Coming(c)'
      BY DEF OnTheWay, Held, Coming
    <3> QED BY <3>1, <3>2, ConcatEmptySeq, EmptySeq
  <2> QED BY <1>1, <1>5, <2>1 DEF OwedOK, Greeted
<1> QED BY <1>0, <1>1, <1>3, <1>4, <1>6, <1>7, <1>l, ConnSame DEF HubIInv, ConnOK

LEMMA RegisterStep ==
  ASSUME HubIInv, NEW c \in Conns, Register(c)
  PROVE  HubIInv'
<1>0. TypeOK /\ (current = Nothing => todo = {}) /\ \A d \in Conns : ConnOK(d)
  BY DEF HubIInv
<1>1. /\ reader[c] = "handshake" /\ clients' = clients \cup {c}
      /\ reader' = [reader EXCEPT ![c] = "greet"]
      /\ UNCHANGED <<queue, waiting, current, todo, send, writer, hand, open, dead, due, owed, lost, late>>
  BY DEF Register, hubVars, history
<1>2. /\ reader' \in [Conns -> {"none", "handshake", "greet", "read", "leave", "gone"}]
      /\ reader'[c] = "greet" /\ \A d \in Conns \ {c} : reader'[d] = reader[d]
  BY <1>0, <1>1 DEF TypeOK
<1>3. TypeOK'
  BY <1>0, <1>1, <1>2 DEF TypeOK
<1>4. \A d \in Conns \ {c} : Same(d)
  BY <1>1, <1>2 DEF Same
<1>5. StartOK(c)' /\ WriterOK(c)'
  BY <1>0, <1>1, <1>2 DEF ConnOK, StartOK, WriterOK
<1>6. OnTheWay(c)' = OnTheWay(c)
  BY <1>1 DEF OnTheWay
<1>7. OwedOK(c)'
  BY <1>0, <1>1, <1>6 DEF ConnOK, OwedOK
<1>8. LossOK(c)'
  BY <1>0, <1>1 DEF ConnOK, StartOK, LossOK
<1> QED BY <1>0, <1>1, <1>3, <1>4, <1>5, <1>7, <1>8, ConnSame DEF HubIInv, ConnOK

(* The greeting: nothing went out before it, for there was no writer. *)
LEMMA GreetStep ==
  ASSUME HubIInv, NEW c \in Conns, Greet(c)
  PROVE  HubIInv'
<1>0. TypeOK /\ (current = Nothing => todo = {}) /\ \A d \in Conns : ConnOK(d)
  BY DEF HubIInv
<1>1. /\ reader[c] = "greet" /\ Len(send[c]) < SendCap
      /\ send' = [send EXCEPT ![c] = Append(@, Connected)]
      /\ writer' = [writer EXCEPT ![c] = "select"]
      /\ reader' = [reader EXCEPT ![c] = "read"]
      /\ UNCHANGED <<queue, waiting, current, todo, clients, hand, open, dead, due, owed, lost, late>>
  BY DEF Greet, hubVars, history
<1>2. /\ reader' \in [Conns -> {"none", "handshake", "greet", "read", "leave", "gone"}]
      /\ reader'[c] = "read" /\ \A d \in Conns \ {c} : reader'[d] = reader[d]
      /\ writer' \in [Conns -> {"none", "select", "validate", "write", "gone"}]
      /\ writer'[c] = "select" /\ \A d \in Conns \ {c} : writer'[d] = writer[d]
  BY <1>0, <1>1 DEF TypeOK
<1>a. send[c] \in Seq(Events) /\ send[c] \in Seq(Events \cup {Connected})
  BY <1>0, <1>1 DEF ConnOK, StartOK, TypeOK
<1>b. PICK s : s = Append(send[c], Connected)
  OBVIOUS
<1>3. s \in Seq(Events \cup {Connected}) /\ Len(s) = Len(send[c]) + 1
  BY <1>a, <1>b
<1>4. /\ send' \in [Conns -> Seq(Events \cup {Connected})]
      /\ send'[c] = s /\ \A d \in Conns \ {c} : send'[d] = send[d]
  BY <1>0, <1>1, <1>3, <1>b DEF TypeOK
<1>5. Len(s) <= SendCap
  BY <1>1, <1>3, <1>a, HubAssumption
<1>6. TypeOK'
  BY <1>0, <1>1, <1>2, <1>4, <1>5 DEF TypeOK
<1>7. \A d \in Conns \ {c} : Same(d)
  BY <1>1, <1>2, <1>4 DEF Same
<1>8. hand[c] = Nothing
  BY <1>0, <1>1 DEF ConnOK, StartOK, WriterOK
<1>9. StartOK(c)' /\ WriterOK(c)'
  BY <1>0, <1>1, <1>2, <1>8 DEF ConnOK, StartOK, WriterOK
<1>10. OwedOK(c)'
  <2>1. CASE c \notin open
    BY <1>0, <1>1, <2>1 DEF ConnOK, OwedOK
  <2>2. CASE c \in open
    <3>0. /\ Coming(c) \in Seq(Events) /\ due[c] \in Seq(Events)
          /\ Greeted(OnTheWay(c), due[c])
      BY <1>0, <2>2, WayTypes DEF ConnOK, OwedOK
    <3>1. Held(c) = <<>> /\ Held(c)' = <<>> /\ Coming(c)' = Coming(c)
      BY <1>1, <1>8 DEF Held, Coming
    <3>2. OnTheWay(c) = send[c] \o Coming(c)
      BY <1>a, <3>1, Way, ConcatEmptySeq
    <3>3. OnTheWay(c) \in Seq(Events)
      BY <1>a, <3>0, <3>2, ConcatProperties
    <3>4. OnTheWay(c) = due[c]
      BY <3>0, <3>3, Ungreeted
    <3>5. OnTheWay(c)' = s \o Coming(c)
      <4>1. OnTheWay(c)' = (Held(c)' \o send'[c]) \o Coming(c)'
        BY DEF OnTheWay, Held, Coming
      <4>2. Held(c)' \o send'[c] = s
        BY <1>3, <1>4, <3>1, ConcatEmptySeq
      <4> QED BY <3>1, <4>1, <4>2
    <3>6. Greeted(s \o Coming(c), send[c] \o Coming(c))
      BY <1>a, <1>b, <3>0, GreetingPlaced
    <3>7. Greeted(OnTheWay(c)', due'[c])
      BY <1>1, <3>2, <3>4, <3>5, <3>6
    <3> QED BY <1>1, <2>2, <3>7 DEF OwedOK
  <2> QED BY <2>1, <2>2
<1>11. LossOK(c)'
  BY <1>0, <1>1 DEF ConnOK, LossOK
<1> QED BY <1>0, <1>1, <1>6, <1>7, <1>9, <1>10, <1>11, ConnSame DEF HubIInv, ConnOK

LEMMA LeaveStep ==
  ASSUME HubIInv, NEW c \in Conns, ReadFails(c) \/ Leave(c)
  PROVE  HubIInv'
<1>0. TypeOK /\ (current = Nothing => todo = {}) /\ \A d \in Conns : ConnOK(d)
  BY DEF HubIInv
<1>1. /\ reader[c] \in {"read", "leave"}
      /\ reader[c] = "read" => c \notin open
      /\ \/ clients' = clients /\ reader' = [reader EXCEPT ![c] = "leave"]
         \/ clients' = clients \ {c} /\ reader' = [reader EXCEPT ![c] = "gone"] /\ current = Nothing
      /\ UNCHANGED <<queue, waiting, current, todo, send, writer, hand, open, dead, due, owed, lost, late>>
  BY DEF ReadFails, Leave, MutexFree, hubVars, history
<1>2. /\ reader' \in [Conns -> {"none", "handshake", "greet", "read", "leave", "gone"}]
      /\ reader'[c] \in {"leave", "gone"} /\ \A d \in Conns \ {c} : reader'[d] = reader[d]
  BY <1>0, <1>1 DEF TypeOK
<1>3. TypeOK'
  BY <1>0, <1>1, <1>2 DEF TypeOK
<1>4. \A d \in Conns \ {c} : Same(d)
  BY <1>1, <1>2 DEF Same
<1>5. StartOK(c)' /\ WriterOK(c)'
  BY <1>0, <1>1, <1>2 DEF ConnOK, StartOK, WriterOK
<1>6. OnTheWay(c)' = OnTheWay(c)
  BY <1>1 DEF OnTheWay
<1>7. OwedOK(c)'
  BY <1>0, <1>1, <1>6 DEF ConnOK, OwedOK
<1>8. LossOK(c)'
  BY <1>0, <1>1 DEF ConnOK, StartOK, LossOK
<1> QED BY <1>0, <1>1, <1>3, <1>4, <1>5, <1>7, <1>8, ConnSame DEF HubIInv, ConnOK

-----------------------------------------------------------------------------
(* The writer                                                              *)

(* From the channel into the writer's hand. *)
LEMMA SelectEventStep ==
  ASSUME HubIInv, NEW c \in Conns, SelectEvent(c)
  PROVE  HubIInv'
<1>0. TypeOK /\ (current = Nothing => todo = {}) /\ \A d \in Conns : ConnOK(d)
  BY DEF HubIInv
<1>1. /\ writer[c] = "select" /\ send[c] # <<>>
      /\ hand' = [hand EXCEPT ![c] = Head(send[c])]
      /\ send' = [send EXCEPT ![c] = Tail(@)]
      /\ writer' = [writer EXCEPT ![c] = "validate"]
      /\ UNCHANGED <<queue, waiting, current, todo, clients, reader, open, dead, due, owed, lost, late>>
  BY DEF SelectEvent, hubVars, history
<1>a. PICK h : h = Head(send[c])
  OBVIOUS
<1>b. PICK s : s = Tail(send[c])
  OBVIOUS
<1>2. /\ send[c] \in Seq(Greetable) /\ h \in Greetable /\ s \in Seq(Greetable)
      /\ Len(s) = Len(send[c]) - 1 /\ send[c] = <<h>> \o s
  <2>1. send[c] \in Seq(Greetable)
    BY <1>0 DEF TypeOK, Greetable
  <2>2. h \in Greetable /\ s \in Seq(Greetable) /\ Len(s) = Len(send[c]) - 1
    BY <1>1, <1>a, <1>b, <2>1, HeadTailProperties
  <2>3. send[c] = <<h>> \o s
    BY <1>1, <1>a, <1>b, <2>1
  <2> QED BY <2>1, <2>2, <2>3
<1>3. Len(s) <= SendCap
  <2>1. Len(send[c]) <= SendCap /\ Len(send[c]) \in Nat
    BY <1>0, <1>2 DEF TypeOK
  <2> QED BY <1>2, <2>1, HubAssumption
<1>4. /\ send' \in [Conns -> Seq(Events \cup {Connected})]
      /\ send'[c] = s /\ \A d \in Conns \ {c} : send'[d] = send[d]
  BY <1>0, <1>1, <1>2, <1>b DEF TypeOK, Greetable
<1>5. /\ hand' \in [Conns -> Events \cup {Connected, Nothing}]
      /\ hand'[c] = h /\ \A d \in Conns \ {c} : hand'[d] = hand[d]
      /\ writer' \in [Conns -> {"none", "select", "validate", "write", "gone"}]
      /\ writer'[c] = "validate" /\ \A d \in Conns \ {c} : writer'[d] = writer[d]
  BY <1>0, <1>1, <1>2, <1>a DEF TypeOK, Greetable
<1>6. TypeOK'
  BY <1>0, <1>1, <1>3, <1>4, <1>5 DEF TypeOK
<1>7. \A d \in Conns \ {c} : Same(d)
  BY <1>1, <1>4, <1>5 DEF Same
<1>8. h # Nothing
  BY <1>2, EventsAreNot DEF Greetable
<1>9. reader[c] \notin {"none", "handshake", "greet"}
  BY <1>0, <1>1 DEF ConnOK, StartOK
<1>10. StartOK(c)' /\ WriterOK(c)'
  BY <1>0, <1>1, <1>5, <1>8, <1>9 DEF ConnOK, StartOK, WriterOK
<1>11. OnTheWay(c)' = OnTheWay(c)
  <2>1. Held(c) = <<>>
    BY <1>0, <1>1 DEF ConnOK, WriterOK, Held
  <2>2. Held(c)' = <<h>> /\ Coming(c)' = Coming(c)
    BY <1>1, <1>5, <1>8 DEF Held, Coming
  <2>3. OnTheWay(c)' = (Held(c)' \o send'[c]) \o Coming(c)'
    BY DEF OnTheWay, Held, Coming
  <2>4. <<>> \o send[c] = send[c]
    BY <1>2, ConcatEmptySeq
  <2>5. OnTheWay(c) = send[c] \o Coming(c)
    BY <2>1, <2>4, Way
  <2> QED BY <1>2, <1>4, <2>2, <2>3, <2>5
<1>12. OwedOK(c)'
  BY <1>0, <1>1, <1>11 DEF ConnOK, OwedOK
<1>13. LossOK(c)'
  BY <1>0, <1>1 DEF ConnOK, LossOK
<1> QED BY <1>0, <1>1, <1>6, <1>7, <1>10, <1>12, <1>13, ConnSame DEF HubIInv, ConnOK

LEMMA ValidateStep ==
  ASSUME HubIInv, NEW c \in Conns, Validate(c)
  PROVE  HubIInv'
<1>0. TypeOK /\ (current = Nothing => todo = {}) /\ \A d \in Conns : ConnOK(d)
  BY DEF HubIInv
<1>1. writer[c] = "validate"
  BY DEF Validate
<1>2. CASE ~TokenValid(c)
  BY <1>1, <1>2, GoneStep DEF Validate
<1>3. CASE TokenValid(c)
  <2>1. /\ writer' = [writer EXCEPT ![c] = "write"] /\ c \notin dead
        /\ UNCHANGED <<queue, waiting, current, todo, clients, send, reader, hand, open, dead,
                       due, owed, lost, late>>
    BY <1>3 DEF Validate, TokenValid, hubVars, history
  <2>2. /\ writer' \in [Conns -> {"none", "select", "validate", "write", "gone"}]
        /\ writer'[c] = "write" /\ \A d \in Conns \ {c} : writer'[d] = writer[d]
    BY <1>0, <2>1 DEF TypeOK
  <2>3. TypeOK'
    BY <1>0, <2>1, <2>2 DEF TypeOK
  <2>4. \A d \in Conns \ {c} : Same(d)
    BY <2>1, <2>2 DEF Same
  <2>5. StartOK(c)' /\ WriterOK(c)'
    BY <1>0, <1>1, <2>1, <2>2 DEF ConnOK, StartOK, WriterOK
  <2>6. OnTheWay(c)' = OnTheWay(c)
    BY <2>1 DEF OnTheWay
  <2>7. OwedOK(c)'
    BY <1>0, <2>1, <2>6 DEF ConnOK, OwedOK
  <2>8. LossOK(c)'
    BY <1>0, <2>1 DEF ConnOK, LossOK
  <2> QED BY <1>0, <2>1, <2>3, <2>4, <2>5, <2>7, <2>8, ConnSame DEF HubIInv, ConnOK
<1> QED BY <1>2, <1>3

(* The first of what is on the way is written: a dead token's last event,  *)
(* for it was in the hand when the token died.                             *)
LEMMA WriteStep ==
  ASSUME HubIInv, NEW c \in Conns, Write(c)
  PROVE  HubIInv'
<1>0. TypeOK /\ (current = Nothing => todo = {}) /\ \A d \in Conns : ConnOK(d)
  BY DEF HubIInv
<1>1. writer[c] = "write" /\ hand[c] # Nothing /\ hand[c] \in Greetable
  BY <1>0 DEF Write, ConnOK, WriterOK, TypeOK, Greetable
<1>2. CASE WriterGone(c) /\ UNCHANGED <<hubVars, clients, reader, dead>>
  BY <1>1, <1>2, GoneStep
<1>3. CASE Written(c) /\ UNCHANGED <<hubVars, clients, reader, dead>>
  <2>1. /\ hand' = [hand EXCEPT ![c] = Nothing]
        /\ writer' = [writer EXCEPT ![c] = "select"]
        /\ UNCHANGED <<queue, waiting, current, todo, clients, send, reader, open, dead>>
    BY <1>3 DEF Written, hubVars
  <2>2. /\ hand' \in [Conns -> Events \cup {Connected, Nothing}]
        /\ hand'[c] = Nothing /\ \A d \in Conns \ {c} : hand'[d] = hand[d]
        /\ writer' \in [Conns -> {"none", "select", "validate", "write", "gone"}]
        /\ writer'[c] = "select" /\ \A d \in Conns \ {c} : writer'[d] = writer[d]
    BY <1>0, <2>1 DEF TypeOK
  <2>3. reader[c] \notin {"none", "handshake", "greet"}
    BY <1>0, <1>1 DEF ConnOK, StartOK
  <2>4. StartOK(c)'
    BY <1>0, <1>1, <2>1, <2>2, <2>3 DEF ConnOK, StartOK
  <2>5. CASE c \notin open /\ UNCHANGED <<due, owed, lost, late>>
    <3>1. TypeOK'
      BY <1>0, <2>1, <2>2, <2>5 DEF TypeOK
    <3>2. \A d \in Conns \ {c} : Same(d)
      BY <2>1, <2>2, <2>5 DEF Same
    <3>3. WriterOK(c)' /\ OwedOK(c)' /\ LossOK(c)'
      BY <1>0, <2>1, <2>2, <2>5 DEF ConnOK, WriterOK, OwedOK, LossOK
    <3> QED BY <1>0, <2>1, <2>4, <3>1, <3>2, <3>3, ConnSame DEF HubIInv, ConnOK
  <2>6. CASE /\ c \in open
             /\ due' = IF hand[c] = Connected THEN due ELSE [due EXCEPT ![c] = Tail(@)]
             /\ owed' = [owed EXCEPT ![c] = @ \ {hand[c]}] /\ lost' = lost
             /\ late' = IF c \in dead THEN [late EXCEPT ![c] = @ + 1] ELSE late
    <3>0. /\ Held(c) = <<hand[c]>> /\ Held(c)' = <<>> /\ Coming(c)' = Coming(c)
          /\ send[c] \in Seq(Greetable) /\ Coming(c) \in Seq(Greetable) /\ due[c] \in Seq(Events)
          /\ OnTheWay(c) \in Seq(Greetable)
          /\ Greeted(OnTheWay(c), due[c])
      BY <1>0, <1>1, <2>1, <2>2, <2>6, WayTypes DEF Held, Coming, ConnOK, OwedOK
    <3>1. PICK rest \in Seq(Greetable) : rest = send[c] \o Coming(c)
      BY <3>0, ConcatProperties
    <3>2. OnTheWay(c)' = rest
      <4>1. OnTheWay(c)' = (Held(c)' \o send'[c]) \o Coming(c)'
        BY DEF OnTheWay, Held, Coming
      <4>2. <<>> \o send[c] = send[c]
        BY <3>0, ConcatEmptySeq
      <4> QED BY <2>1, <3>0, <3>1, <4>1, <4>2
    <3>3. OnTheWay(c) = <<hand[c]>> \o rest
      <4>1. <<hand[c]>> \in Seq(Greetable)
        BY <1>1
      <4>2. (<<hand[c]>> \o send[c]) \o Coming(c) = <<hand[c]>> \o (send[c] \o Coming(c))
        BY <3>0, <4>1, Assoc
      <4> QED BY <3>0, <3>1, <4>2, Way
    <3>4. OnTheWay(c) # <<>> /\ OnTheWay(c)[1] = hand[c] /\ Tail(OnTheWay(c)) = rest
      <4>1. PICK x \in Greetable : x = hand[c]
        BY <1>1
      <4>2. <<x>> \o rest # <<>> /\ (<<x>> \o rest)[1] = x /\ Tail(<<x>> \o rest) = rest
        OBVIOUS
      <4> QED BY <3>3, <4>1, <4>2
    <3>5. /\ due' \in [Conns -> Seq(Events)]
          /\ \A d \in Conns \ {c} : due'[d] = due[d]
          /\ Greeted(rest, due'[c])
          /\ ToSet(due[c]) \subseteq ToSet(due'[c]) \cup {hand[c]}
      <4>1. CASE hand[c] = Connected
        <5>1. rest = due[c]
          BY <3>0, <3>4, <4>1, GreetingSent
        <5> QED BY <1>0, <2>6, <4>1, <5>1 DEF TypeOK, Greeted
      <4>2. CASE hand[c] # Connected
        <5>1. hand[c] \in Events
          BY <1>1, <4>2 DEF Greetable
        <5>2. PICK t : t = Tail(due[c])
          OBVIOUS
        <5>3. /\ t \in Seq(Events) /\ Greeted(rest, t)
              /\ due[c] # <<>> /\ Head(due[c]) = hand[c]
          BY <3>0, <3>4, <5>1, <5>2, GreetedTail
        <5>5. ToSet(due[c]) \subseteq ToSet(t) \cup {hand[c]}
          BY <3>0, <5>2, <5>3, TakenSet
        <5>4. due' = [due EXCEPT ![c] = t]
          BY <2>6, <4>2, <5>2
        <5> QED BY <1>0, <5>3, <5>4, <5>5 DEF TypeOK
      <4> QED BY <4>1, <4>2
    <3>6. /\ late' \in [Conns -> Nat]
          /\ \A d \in Conns \ {c} : late'[d] = late[d]
          /\ late[c] = 0 /\ late'[c] = IF c \in dead THEN 1 ELSE 0
      <4>1. late[c] = 0
        BY <1>0, <1>1 DEF ConnOK, WriterOK
      <4> QED BY <1>0, <2>6, <4>1 DEF TypeOK
    <3>a. /\ owed' \in [Conns -> SUBSET Events] /\ lost' \in [Conns -> SUBSET Events]
          /\ owed'[c] = owed[c] \ {hand[c]} /\ \A d \in Conns \ {c} : owed'[d] = owed[d]
      BY <1>0, <2>6 DEF TypeOK
    <3>7. TypeOK'
      BY <1>0, <2>1, <2>2, <3>5, <3>6, <3>a DEF TypeOK
    <3>8. \A d \in Conns \ {c} : Same(d)
      BY <2>1, <2>2, <2>6, <3>5, <3>6, <3>a DEF Same
    <3>b. LossOK(c)'
      <4>1. LossOK(c) /\ lost'[c] = lost[c] /\ queue' = queue
        BY <1>0, <2>1, <2>6 DEF ConnOK
      <4> QED BY <2>1, <2>6, <3>5, <3>a, <4>1 DEF LossOK
    <3>9. WriterOK(c)' /\ OwedOK(c)'
      BY <2>1, <2>2, <2>6, <3>2, <3>5, <3>6 DEF WriterOK, OwedOK
    <3> QED BY <1>0, <2>1, <2>4, <3>7, <3>8, <3>9, <3>b, ConnSame DEF HubIInv, ConnOK
  <2> QED BY <1>2, <2>5, <2>6 DEF Write, history
<1> QED BY <1>2, <1>3 DEF Write

-----------------------------------------------------------------------------
(* Outside                                                                 *)

LEMMA PeerLeavesStep ==
  ASSUME HubIInv, NEW c \in Conns, PeerLeaves(c)
  PROVE  HubIInv'
<1>0. TypeOK /\ (current = Nothing => todo = {}) /\ \A d \in Conns : ConnOK(d)
  BY DEF HubIInv
<1>1. /\ Close(c)
      /\ UNCHANGED <<queue, waiting, current, todo, clients, send, reader, writer, hand, dead>>
  BY DEF PeerLeaves, hubVars
<1>2. TypeOK'
  BY <1>0, <1>1, CloseFacts DEF TypeOK
<1>3. \A d \in Conns \ {c} : Same(d)
  BY <1>0, <1>1, CloseFacts DEF Same
<1>4. ConnOK(c)'
  BY <1>0, <1>1, CloseFacts DEF ConnOK, StartOK, WriterOK, OwedOK, LossOK
<1> QED BY <1>0, <1>1, <1>2, <1>3, <1>4, ConnSame DEF HubIInv

LEMMA TokenDiesStep ==
  ASSUME HubIInv, NEW c \in Conns, TokenDies(c)
  PROVE  HubIInv'
<1>0. TypeOK /\ (current = Nothing => todo = {}) /\ \A d \in Conns : ConnOK(d)
  BY DEF HubIInv
<1>1. /\ dead' = dead \cup {c}
      /\ UNCHANGED <<queue, waiting, current, todo, clients, send, reader, writer, hand, open,
                     due, owed, lost, late>>
  BY DEF TokenDies, hubVars, history
<1>2. TypeOK'
  BY <1>0, <1>1 DEF TypeOK
<1>3. \A d \in Conns : Same(d)
  BY <1>1 DEF Same
<1> QED BY <1>0, <1>1, <1>2, <1>3, ConnSame DEF HubIInv

-----------------------------------------------------------------------------
LEMMA HubIInvInit == Init => HubIInv
<1> SUFFICES ASSUME Init PROVE HubIInv
  OBVIOUS
<1>1. TypeOK
  BY HubAssumption, EmptySeq DEF Init, TypeOK
<1>2. ASSUME NEW c \in Conns PROVE ConnOK(c)
  BY EmptySeq DEF Init, ConnOK, StartOK, WriterOK, OwedOK, LossOK
<1> QED BY <1>1, <1>2 DEF Init, HubIInv

LEMMA HubIInvStep == HubIInv /\ [Next]_vars => HubIInv'
<1> SUFFICES ASSUME HubIInv, [Next]_vars PROVE HubIInv'
  OBVIOUS
<1>1. CASE UNCHANGED vars
  <2>1. UNCHANGED <<queue, waiting, current, todo, clients, send, reader, writer, hand, open,
                    dead, due, owed, lost, late>>
    BY <1>1 DEF vars, hubVars, clientVars, history
  <2>2. \A c \in Conns : Same(c)
    BY <2>1 DEF Same
  <2>3. TypeOK'
    BY <2>1 DEF HubIInv, TypeOK
  <2> QED BY <2>1, <2>2, <2>3, ConnSame DEF HubIInv
<1>2. CASE TakeEvent \/ NextEvent
  BY <1>2, TakeEventStep, NextEventStep
<1>3. CASE \E e \in Events : Enqueue(e)
  BY <1>3, EnqueueStep
<1>4. ASSUME NEW c \in Conns,
             HandOver(c) \/ WsHandler(c) \/ ReaderStep(c) \/ WriterStep(c)
               \/ PeerLeaves(c) \/ TokenDies(c)
      PROVE  HubIInv'
  <2>1. CASE HandOver(c)
    BY <2>1, HandOverStep
  <2>2. CASE WsHandler(c)
    BY <2>2, WsHandlerStep
  <2>3. CASE ReaderStep(c)
    BY <2>3, RegisterStep, GreetStep, LeaveStep DEF ReaderStep
  <2>4. CASE SelectDone(c) \/ SelectPing(c)
    BY <2>4, GoneStep DEF SelectDone, SelectPing
  <2>5. CASE SelectEvent(c) \/ Validate(c) \/ Write(c)
    BY <2>5, SelectEventStep, ValidateStep, WriteStep
  <2>6. CASE PeerLeaves(c) \/ TokenDies(c)
    BY <2>6, PeerLeavesStep, TokenDiesStep
  <2> QED BY <1>4, <2>1, <2>2, <2>3, <2>4, <2>5, <2>6 DEF WriterStep
<1> QED BY <1>1, <1>2, <1>3, <1>4 DEF Next, HubStep

(* For any number of connections and events and channels of any size, and  *)
(* whatever order the hub, the readers and the writers run in: what the    *)
(* hub took for an open connection and it did not yet receive is on its    *)
(* way, in order; of what was broadcast for it nothing else is lost than   *)
(* what found the queue full; and a dead token gets at most the event that *)
(* was in the writer's hand.  (That what is on its way arrives is HubLive, *)
(* which is model-checked.)                                                *)
THEOREM HubInvariant == Spec => []HubInv
<1>1. HubIInv /\ [Next]_vars => HubIInv'
  BY HubIInvStep
<1>2. HubIInv => HubInv
  <2> SUFFICES ASSUME HubIInv PROVE HubInv
    OBVIOUS
  <2>1. TypeOK /\ \A c \in Conns : ConnOK(c)
    BY DEF HubIInv
  <2>2. NoGaps
    BY <2>1 DEF NoGaps, TypeOK, ConnOK, OwedOK
  <2>3. OneLateEvent
    BY <2>1 DEF OneLateEvent, ConnOK, WriterOK
  <2>4. NothingElseLost
    BY <2>1 DEF NothingElseLost, TypeOK, ConnOK, LossOK
  <2> QED BY <2>1, <2>2, <2>3, <2>4 DEF HubInv
<1> QED BY <1>1, <1>2, HubIInvInit, PTL DEF Spec
=============================================================================
