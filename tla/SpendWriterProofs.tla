-------------------------- MODULE SpendWriterProofs --------------------------
(***************************************************************************)
(* The spend writer, for any pods, requests, tables and bounds: its types, *)
(* OneCommitter, ChargedOnce, NothingVanishes, and that it implements      *)
(* SpendLedger.                                                            *)
(*                                                                         *)
(* The argument: an increment is in one place at a time (a task, a list,   *)
(* the hand of a job), every step leaves it there, takes it to one other   *)
(* place or drops it, and only what is in the hand of a job is charged.    *)
(***************************************************************************)
EXTENDS SpendWriter, SequenceTheorems, FiniteSetTheorems, TLAPS

----------------------------------------------------------------------------
(* Lists of sets of increments.                                            *)

\* The increments that a list of channel c may hold.
Of(c) == {u \in Updates : ChannelOf(u) = c}

\* No increment is in two items of a list.
Distinct(s) == \A i, j \in 1..Len(s) : i # j => s[i] \cap s[j] = {}

\* An increment belongs to one channel.
LEMMA ChannelType == \A u \in Updates : ChannelOf(u) \in Channels /\ u[1] \in Tables
<1>1. ASSUME NEW u \in Updates PROVE ChannelOf(u) \in Channels /\ u[1] \in Tables
  <2>1. PICK r \in Requests : u \in Charges[r]  BY DEF Updates
  <2>2. u[1] \in Tables  BY <2>1, WriterAssumption
  <2>. QED  BY <2>2, WriterAssumption DEF ChannelOf, Tables, Channels
<1>. QED  BY <1>1

\* What is held is in some item.
LEMMA HeldIn ==
  ASSUME NEW S, NEW s \in Seq(SUBSET S)
  PROVE  /\ \A u : u \in Held(s) <=> \E i \in 1..Len(s) : u \in s[i]
         /\ Held(s) \subseteq S
<1>1. /\ DOMAIN s = 1..Len(s)
      /\ \A i \in 1..Len(s) : s[i] \in SUBSET S
  BY LenProperties, ElementOfSeq
<1>. QED  BY <1>1 DEF Held, Range

\* The empty list holds nothing.
LEMMA HeldEmpty == Held(<<>>) = {} /\ Distinct(<<>>) /\ \A S : <<>> \in Seq(SUBSET S)
<1>1. PICK e : e = <<>>  OBVIOUS
<1>2. ASSUME NEW S PROVE e \in Seq(SUBSET S) /\ Len(e) = 0  BY <1>1, EmptySeq
<1>3. e \in Seq(SUBSET Nat) /\ Len(e) = 0  BY <1>2
<1>4. \A u : u \in Held(e) <=> \E i \in 1..Len(e) : u \in e[i]  BY <1>3, HeldIn
<1>5. Held(e) = {}  BY <1>3, <1>4
<1>6. Distinct(e)  BY <1>3 DEF Distinct
<1>. QED  BY <1>1, <1>2, <1>5, <1>6

\* Appending an item that is apart from the list.
LEMMA HeldAppend ==
  ASSUME NEW S, NEW s \in Seq(SUBSET S), NEW e \in SUBSET S
  PROVE  /\ Append(s, e) \in Seq(SUBSET S)
         /\ Held(Append(s, e)) = Held(s) \cup e
         /\ Distinct(s) /\ e \cap Held(s) = {} => Distinct(Append(s, e))
<1>. DEFINE t == Append(s, e)
<1>1. /\ t \in Seq(SUBSET S) /\ Len(s) \in Nat /\ Len(t) = Len(s) + 1
      /\ \A i \in 1..Len(s) : t[i] = s[i]
      /\ t[Len(s) + 1] = e
  BY AppendProperties, LenProperties
<1>. HIDE DEF t
<1>2. \A u : u \in Held(s) <=> \E i \in 1..Len(s) : u \in s[i]  BY HeldIn
<1>3. \A u : u \in Held(t) <=> \E i \in 1..Len(t) : u \in t[i]  BY <1>1, HeldIn
<1>4. Held(t) = Held(s) \cup e
  <2>1. ASSUME NEW u \in Held(t) PROVE u \in Held(s) \cup e
    <3>1. PICK i \in 1..(Len(s) + 1) : u \in t[i]  BY <1>1, <1>3, <2>1
    <3>2. CASE i = Len(s) + 1  BY <1>1, <3>1, <3>2
    <3>3. CASE i \in 1..Len(s)  BY <1>1, <1>2, <3>1, <3>3
    <3>. QED  BY <1>1, <3>2, <3>3
  <2>2. ASSUME NEW u \in Held(s) PROVE u \in Held(t)
    <3>1. PICK i \in 1..Len(s) : u \in s[i]  BY <1>2, <2>2
    <3>. QED  BY <1>1, <1>3, <3>1
  <2>3. ASSUME NEW u \in e PROVE u \in Held(t)
    BY <1>1, <1>3, <2>3
  <2>. QED  BY <2>1, <2>2, <2>3
<1>5. ASSUME Distinct(s), e \cap Held(s) = {} PROVE Distinct(t)
  <2>. SUFFICES ASSUME NEW i \in 1..Len(t), NEW j \in 1..Len(t), i < j
                PROVE  t[i] \cap t[j] = {}
    BY <1>1 DEF Distinct
  <2>1. i \in 1..Len(s) /\ t[i] = s[i] /\ s[i] \subseteq Held(s)  BY <1>1, <1>2
  <2>2. CASE j = Len(s) + 1  BY <1>1, <1>5, <2>1, <2>2
  <2>3. CASE j \in 1..Len(s)  BY <1>1, <1>5, <2>1, <2>3 DEF Distinct
  <2>. QED  BY <1>1, <2>2, <2>3
<1>. QED  BY <1>1, <1>4, <1>5 DEF t

\* Concatenating lists that are apart.
LEMMA HeldConcat ==
  ASSUME NEW S, NEW s \in Seq(SUBSET S), NEW e \in Seq(SUBSET S)
  PROVE  /\ s \o e \in Seq(SUBSET S)
         /\ Held(s \o e) = Held(s) \cup Held(e)
         /\ Distinct(s) /\ Distinct(e) /\ Held(e) \cap Held(s) = {} => Distinct(s \o e)
<1>. DEFINE t == s \o e
<1>1. /\ t \in Seq(SUBSET S) /\ Len(s) \in Nat /\ Len(e) \in Nat
      /\ Len(t) = Len(s) + Len(e)
      /\ \A i \in 1..(Len(s) + Len(e)) :
           t[i] = IF i <= Len(s) THEN s[i] ELSE e[i - Len(s)]
  BY ConcatProperties, LenProperties
<1>. HIDE DEF t
<1>2. \A u : u \in Held(s) <=> \E i \in 1..Len(s) : u \in s[i]  BY HeldIn
<1>3. \A u : u \in Held(e) <=> \E i \in 1..Len(e) : u \in e[i]  BY HeldIn
<1>4. \A u : u \in Held(t) <=> \E i \in 1..Len(t) : u \in t[i]  BY <1>1, HeldIn
<1>5. \A i \in 1..Len(s) : i \in 1..Len(t) /\ t[i] = s[i]  BY <1>1
<1>6. \A i \in 1..Len(e) : Len(s) + i \in 1..Len(t) /\ t[Len(s) + i] = e[i]  BY <1>1
<1>7. \A i \in 1..Len(t) : \/ i \in 1..Len(s)
                           \/ i - Len(s) \in 1..Len(e) /\ t[i] = e[i - Len(s)]
  BY <1>1
<1>8. Held(t) = Held(s) \cup Held(e)
  <2>1. ASSUME NEW u \in Held(t) PROVE u \in Held(s) \cup Held(e)
    BY <1>2, <1>3, <1>4, <1>5, <1>7, <2>1
  <2>2. ASSUME NEW u \in Held(s) \cup Held(e) PROVE u \in Held(t)
    BY <1>2, <1>3, <1>4, <1>5, <1>6, <2>2
  <2>. QED  BY <2>1, <2>2
<1>9. ASSUME Distinct(s), Distinct(e), Held(e) \cap Held(s) = {} PROVE Distinct(t)
  <2>. SUFFICES ASSUME NEW i \in 1..Len(t), NEW j \in 1..Len(t), i < j
                PROVE  t[i] \cap t[j] = {}
    BY <1>1 DEF Distinct
  <2>1. CASE j \in 1..Len(s)  BY <1>1, <1>5, <1>9, <2>1 DEF Distinct
  <2>2. CASE i \in 1..Len(s) /\ j \notin 1..Len(s)
    <3>1. t[i] \subseteq Held(s) /\ t[j] \subseteq Held(e)
      BY <1>2, <1>3, <1>5, <1>7, <2>2
    <3>. QED  BY <1>9, <3>1
  <2>3. CASE i \notin 1..Len(s)
    <3>1. /\ i - Len(s) \in 1..Len(e) /\ t[i] = e[i - Len(s)]
          /\ j - Len(s) \in 1..Len(e) /\ t[j] = e[j - Len(s)]
      BY <1>1, <1>7, <2>3
    <3>2. i - Len(s) # j - Len(s)  BY <1>1
    <3>. QED  BY <1>9, <3>1, <3>2 DEF Distinct
  <2>. QED  BY <1>1, <2>1, <2>2, <2>3
<1>. QED  BY <1>1, <1>8, <1>9 DEF t

\* Taking the first items splits what a list holds in two.
LEMMA TakenLeft ==
  ASSUME NEW S, NEW s \in Seq(SUBSET S), NEW n \in Nat
  PROVE  /\ Left(s, n) \in Seq(SUBSET S)
         /\ Taken(s, n) \cup Held(Left(s, n)) = Held(s)
         /\ Distinct(s) => /\ Distinct(Left(s, n))
                           /\ Taken(s, n) \cap Held(Left(s, n)) = {}
<1>. DEFINE m == Least(n, Len(s))
            t == Left(s, n)
<1>1. Len(s) \in Nat /\ m \in 0..Len(s)  BY LenProperties DEF Least
<1>2. /\ t = SubSeq(s, m + 1, Len(s))
      /\ Taken(s, n) = UNION {s[i] : i \in 1..m}
  BY DEF Left, Taken
<1>. HIDE DEF m, t
<1>3. \A i \in (m + 1)..Len(s) : s[i] \in SUBSET S  BY <1>1, ElementOfSeq
<1>4. /\ t \in Seq(SUBSET S)
      /\ Len(t) = Len(s) - m
      /\ \A i \in 1..Len(t) : t[i] = s[m + i]
  <2>1. /\ SubSeq(s, m + 1, Len(s)) \in Seq(SUBSET S)
        /\ Len(SubSeq(s, m + 1, Len(s))) =
             IF m + 1 <= Len(s) THEN Len(s) - (m + 1) + 1 ELSE 0
        /\ \A i \in 1 .. Len(s) - (m + 1) + 1 :
             SubSeq(s, m + 1, Len(s))[i] = s[(m + 1) + i - 1]
    BY <1>1, <1>3, SubSeqProperties
  <2>. QED  BY <1>1, <1>2, <2>1
<1>5. \A u : u \in Held(s) <=> \E i \in 1..Len(s) : u \in s[i]  BY HeldIn
<1>6. \A u : u \in Held(t) <=> \E i \in 1..Len(t) : u \in t[i]  BY <1>4, HeldIn
<1>7. \A u : u \in Taken(s, n) <=> \E i \in 1..m : u \in s[i]  BY <1>2
<1>8. Taken(s, n) \cup Held(t) = Held(s)
  <2>1. ASSUME NEW u \in Held(s) PROVE u \in Taken(s, n) \cup Held(t)
    <3>1. PICK i \in 1..Len(s) : u \in s[i]  BY <1>5, <2>1
    <3>2. CASE i \in 1..m  BY <1>7, <3>1, <3>2
    <3>3. CASE i \notin 1..m
      <4>1. i - m \in 1..Len(t) /\ m + (i - m) = i  BY <1>1, <1>4, <3>3
      <4>2. u \in t[i - m]  BY <1>4, <3>1, <4>1
      <4>. QED  BY <1>6, <4>1, <4>2
    <3>. QED  BY <3>2, <3>3
  <2>2. ASSUME NEW u \in Taken(s, n) \cup Held(t) PROVE u \in Held(s)
    BY <1>1, <1>4, <1>5, <1>6, <1>7, <2>2
  <2>. QED  BY <2>1, <2>2
<1>9. ASSUME Distinct(s) PROVE Distinct(t) /\ Taken(s, n) \cap Held(t) = {}
  <2>1. Distinct(t)
    <3>. SUFFICES ASSUME NEW i \in 1..Len(t), NEW j \in 1..Len(t), i # j
                  PROVE  t[i] \cap t[j] = {}
      BY DEF Distinct
    <3>1. m + i \in 1..Len(s) /\ m + j \in 1..Len(s) /\ m + i # m + j  BY <1>1, <1>4
    <3>. QED  BY <1>4, <1>9, <3>1 DEF Distinct
  <2>2. ASSUME NEW u \in Taken(s, n), u \in Held(t) PROVE FALSE
    <3>1. PICK i \in 1..m : u \in s[i]  BY <1>7, <2>2
    <3>2. PICK j \in 1..Len(t) : u \in t[j]  BY <1>6, <2>2
    <3>3. i \in 1..Len(s) /\ m + j \in 1..Len(s) /\ i # m + j  BY <1>1, <1>4
    <3>4. s[i] \cap s[m + j] = {}  BY <1>9, <3>3 DEF Distinct
    <3>. QED  BY <1>4, <3>1, <3>2, <3>4
  <2>. QED  BY <2>1, <2>2
<1>. QED  BY <1>4, <1>8, <1>9 DEF t

\* There are finitely many increments.
LEMMA UpdatesFinite == IsFiniteSet(Updates)
BY WriterAssumption

\* Aggregation keeps every increment, once.
LEMMA Aggregated ==
  ASSUME NEW T \in SUBSET Updates, NEW c, NEW S \in SUBSET T, NEW s \in Aggregates(c, S)
  PROVE  s \in Seq(SUBSET T) /\ Held(s) = S /\ Distinct(s)
<1>1. CASE c = 0
  <2>. DEFINE G == Groups(S)  n == Cardinality(G)
  <2>1. s \in Bijection(1..n, G)  BY <1>1 DEF Aggregates
  <2>2. n \in Nat
    <3>1. IsFiniteSet(S)  BY UpdatesFinite, FS_Subset
    <3>2. IsFiniteSet(SUBSET S)  BY <3>1, FS_SUBSET
    <3>3. G \subseteq SUBSET S  BY DEF Groups
    <3>4. IsFiniteSet(G)  BY <3>2, <3>3, FS_Subset
    <3>. QED  BY <3>4, FS_CardinalityType
  <2>3. G \subseteq SUBSET S  BY DEF Groups
  <2>. HIDE DEF n
  <2>4. /\ s \in [1..n -> G]
        /\ \A i, j \in 1..n : s[i] = s[j] => i = j
        /\ \A g \in G : \E i \in 1..n : s[i] = g
    BY <2>1 DEF Bijection, Injection, Surjection, IsInjective
  <2>5. s \in Seq(SUBSET T) /\ Len(s) = n
    <3>1. s \in [1..n -> SUBSET T]  BY <2>3, <2>4
    <3>2. s \in Seq(SUBSET T)  BY <2>2, <3>1, SeqDef
    <3>3. DOMAIN s = 1..Len(s) /\ Len(s) \in Nat  BY <3>2, LenProperties
    <3>. QED  BY <2>2, <3>1, <3>2, <3>3
  <2>6. \A u : u \in Held(s) <=> \E i \in 1..n : u \in s[i]  BY <2>5, HeldIn
  <2>7. ASSUME NEW v \in S PROVE \E g \in G : v \in g
    <3>1. {u \in S : u[1] = v[1] /\ u[3] = v[3]} \in G  BY DEF Groups
    <3>. QED  BY <3>1
  <2>8. Held(s) = S
    <3>1. Held(s) \subseteq S  BY <2>3, <2>4, <2>6
    <3>2. ASSUME NEW v \in S PROVE v \in Held(s)
      <4>1. PICK g \in G : v \in g  BY <2>7
      <4>. QED  BY <2>4, <2>6, <4>1
    <3>. QED  BY <3>1, <3>2
  <2>9. \A g, h \in G : g # h => g \cap h = {}  BY Zenon DEF Groups
  <2>10. Distinct(s)  BY <2>4, <2>5, <2>9 DEF Distinct
  <2>. QED  BY <2>5, <2>8, <2>10
<1>2. CASE c # 0
  <2>1. s = <<S>>  BY <1>2 DEF Aggregates
  <2>2. PICK e : e = <<>>  OBVIOUS
  <2>3. e \in Seq(SUBSET T) /\ Held(e) = {} /\ Distinct(e)  BY <2>2, HeldEmpty
  <2>4. /\ Append(e, S) \in Seq(SUBSET T)
        /\ Held(Append(e, S)) = S
        /\ Distinct(Append(e, S))
    <3>1. \A x \in SUBSET T :
            /\ Append(e, x) \in Seq(SUBSET T)
            /\ Held(Append(e, x)) = Held(e) \cup x
            /\ Distinct(e) /\ x \cap Held(e) = {} => Distinct(Append(e, x))
      BY <2>3, HeldAppend
    <3>. QED  BY <2>3, <3>1
  <2>5. Append(e, S) = <<S>>  BY <2>2
  <2>. QED  BY <2>1, <2>4, <2>5
<1>. QED  BY <1>1, <1>2

----------------------------------------------------------------------------
(* Types.                                                                  *)

\* A list of one channel is a list.
LEMMA ListType ==
  ASSUME NEW c \in Channels
  PROVE  /\ Lists(c) = Seq(SUBSET Of(c))
         /\ Of(c) \subseteq Updates
         /\ \A s \in Lists(c) : s \in Seq(SUBSET Updates)
<1>1. Lists(c) = Seq(SUBSET Of(c)) /\ Of(c) \subseteq Updates  BY DEF Lists, Of
<1>2. ASSUME NEW s \in Lists(c) PROVE s \in Seq(SUBSET Updates)
  <2>1. s \in Seq(SUBSET Of(c)) /\ SUBSET Of(c) \subseteq SUBSET Updates  BY <1>1, <1>2
  <2>. QED  BY <2>1, SeqMonotonic
<1>. QED  BY <1>1, <1>2

\* Taking items from a list of a channel.
LEMMA Split ==
  ASSUME NEW c \in Channels, NEW s \in Lists(c), NEW n \in Nat
  PROVE  /\ Left(s, n) \in Lists(c) /\ Taken(s, n) \subseteq Of(c)
         /\ Held(s) \subseteq Of(c) /\ Held(Left(s, n)) \subseteq Of(c)
         /\ Taken(s, n) \cup Held(Left(s, n)) = Held(s)
         /\ Distinct(s) => /\ Distinct(Left(s, n))
                           /\ Taken(s, n) \cap Held(Left(s, n)) = {}
<1>1. s \in Seq(SUBSET Of(c))  BY ListType
<1>2. /\ Left(s, n) \in Seq(SUBSET Of(c))
      /\ Taken(s, n) \cup Held(Left(s, n)) = Held(s)
      /\ Distinct(s) => /\ Distinct(Left(s, n))
                        /\ Taken(s, n) \cap Held(Left(s, n)) = {}
  BY <1>1, TakenLeft
<1>3. Held(s) \subseteq Of(c) /\ Held(Left(s, n)) \subseteq Of(c)  BY <1>1, <1>2, HeldIn
<1>. QED  BY <1>2, <1>3, ListType

\* A queue after an increment of its channel was added, aggregated or not.
LEMMA Added ==
  ASSUME NEW u \in Updates, NEW s \in Lists(ChannelOf(u)),
         NEW t, \/ t = Append(s, {u})
                \/ \E a \in Aggregates(ChannelOf(u), Taken(Append(s, {u}), FlushCount)) :
                     t = Left(Append(s, {u}), FlushCount) \o a
  PROVE  /\ t \in Lists(ChannelOf(u))
         /\ Held(t) = Held(s) \cup {u}
         /\ Distinct(s) /\ u \notin Held(s) => Distinct(t)
<1>. DEFINE c == ChannelOf(u)
            full == Append(s, {u})
            L == Left(full, FlushCount)
            T == Taken(full, FlushCount)
<1>1. c \in Channels /\ {u} \in SUBSET Of(c) /\ FlushCount \in Nat
  BY ChannelType, WriterAssumption DEF Of
<1>2. s \in Seq(SUBSET Of(c))  BY <1>1, ListType
<1>3. /\ full \in Seq(SUBSET Of(c))
      /\ Held(full) = Held(s) \cup {u}
      /\ Distinct(s) /\ {u} \cap Held(s) = {} => Distinct(full)
  BY <1>1, <1>2, HeldAppend
<1>4. full \in Lists(c)  BY <1>1, <1>3, ListType
<1>5. CASE t = full  BY <1>3, <1>4, <1>5
<1>6. ASSUME NEW a \in Aggregates(c, T), t = L \o a
      PROVE  /\ t \in Lists(c)
             /\ Held(t) = Held(s) \cup {u}
             /\ Distinct(s) /\ u \notin Held(s) => Distinct(t)
  <2>. HIDE DEF c, full
  <2>1. /\ L \in Lists(c) /\ T \subseteq Of(c)
        /\ T \cup Held(L) = Held(full)
        /\ Distinct(full) => Distinct(L) /\ T \cap Held(L) = {}
    BY <1>1, <1>4, Split
  <2>2. L \in Seq(SUBSET Of(c)) /\ Of(c) \in SUBSET Updates  BY <1>1, <2>1, ListType
  <2>. HIDE DEF L, T
  <2>3. a \in Seq(SUBSET Of(c)) /\ Held(a) = T /\ Distinct(a)
    <3>1. \A S \in SUBSET Of(c) : \A x \in Aggregates(c, S) :
            x \in Seq(SUBSET Of(c)) /\ Held(x) = S /\ Distinct(x)
      BY <2>2, Aggregated
    <3>. QED  BY <1>6, <2>1, <3>1
  <2>4. /\ L \o a \in Seq(SUBSET Of(c))
        /\ Held(L \o a) = Held(L) \cup Held(a)
        /\ Distinct(L) /\ Distinct(a) /\ Held(a) \cap Held(L) = {} => Distinct(L \o a)
    BY <2>2, <2>3, HeldConcat
  <2>5. t \in Lists(c)  BY <1>1, <1>6, <2>4, ListType
  <2>. QED  BY <1>3, <1>6, <2>1, <2>3, <2>4, <2>5
<1>. QED  BY <1>5, <1>6

\* The program counter and the channel after NextChannel.
LEMMA NextChannelType ==
  ASSUME TypeOK, NEW p \in Pods, NextChannel(p)
  PROVE  /\ pc' \in [Pods -> Labels] /\ chan' \in [Pods -> Channels]
         /\ \A q \in Pods \ {p} : pc'[q] = pc[q]
         /\ pc'[p] \in {"fetch", "release", "idle"}
         /\ useRedis => pc'[p] # "idle"
<1>. pc \in [Pods -> Labels] /\ chan \in [Pods -> 0..NumDaily] /\ NumDaily \in Nat
  BY WriterAssumption DEF TypeOK, Channels
<1>1. CASE chan[p] < NumDaily
  <2>1. /\ pc' = [pc EXCEPT ![p] = "fetch"]
        /\ chan' = [chan EXCEPT ![p] = @ + 1]
    BY <1>1 DEF NextChannel, Goto
  <2>. QED  BY <1>1, <2>1 DEF Labels, Channels
<1>2. CASE ~(chan[p] < NumDaily)
  <2>1. /\ pc' = [pc EXCEPT ![p] = IF useRedis THEN "release" ELSE "idle"]
        /\ chan' = [chan EXCEPT ![p] = 0]
    BY <1>2 DEF NextChannel, Goto, Finish
  <2>. QED  BY <1>2, <2>1 DEF Labels, Channels
<1>. QED  BY <1>1, <1>2

LEMMA RaiseType ==
  ASSUME TypeOK, NEW p \in Pods, Raise(p)
  PROVE  /\ pc' \in [Pods -> Labels] /\ chan' \in [Pods -> Channels]
         /\ hand' = [hand EXCEPT ![p] = {}] /\ tries' = [tries EXCEPT ![p] = 0]
         /\ \A q \in Pods \ {p} : pc'[q] = pc[q]
         /\ pc'[p] = IF useRedis THEN "release" ELSE "idle"
<1>1. 0 \in Channels  BY WriterAssumption DEF Channels
<1>2. 0 \in 0..Retries  BY WriterAssumption
<1>. QED  BY <1>1, <1>2 DEF TypeOK, Raise, Finish, Goto, Labels

\* What a flush of a queue or an LPOP takes are increments.
LEMMA TakenType ==
  ASSUME TypeOK
  PROVE  \A c \in Channels, n \in Nat :
           /\ Taken(redis[c], n) \subseteq Updates /\ Left(redis[c], n) \in Lists(c)
           /\ \A p \in Pods : /\ Taken(queue[p][c], n) \subseteq Updates
                              /\ Left(queue[p][c], n) \in Lists(c)
<1>. SUFFICES ASSUME NEW c \in Channels, NEW n \in Nat
              PROVE  /\ Taken(redis[c], n) \subseteq Updates /\ Left(redis[c], n) \in Lists(c)
                     /\ \A p \in Pods : /\ Taken(queue[p][c], n) \subseteq Updates
                                        /\ Left(queue[p][c], n) \in Lists(c)
  OBVIOUS
<1>1. redis[c] \in Lists(c) /\ \A p \in Pods : queue[p][c] \in Lists(c)  BY DEF TypeOK
<1>2. \A s \in Lists(c) : Left(s, n) \in Lists(c) /\ Taken(s, n) \subseteq Of(c)  BY Split
<1>. QED  BY <1>1, <1>2, ListType

\* The part of TypeOK about the lists.
QueueType(q) == q \in [Pods -> [Channels -> Seq(SUBSET Updates)]]
                /\ \A p \in Pods, c \in Channels : q[p][c] \in Lists(c)
RedisType(r) == r \in [Channels -> Seq(SUBSET Updates)]
                /\ \A c \in Channels : r[c] \in Lists(c)

\* Replacing one list, or all lists of a pod, by lists of their channels.
LEMMA QueueUpdate ==
  ASSUME NEW q, QueueType(q), NEW p \in Pods
  PROVE  /\ \A c \in Channels : \A t \in Lists(c) : QueueType([q EXCEPT ![p][c] = t])
         /\ \A f \in [Channels -> UNION {Lists(c) : c \in Channels}] :
              (\A c \in Channels : f[c] \in Lists(c)) => QueueType([q EXCEPT ![p] = f])
<1>1. ASSUME NEW c \in Channels, NEW t \in Lists(c) PROVE QueueType([q EXCEPT ![p][c] = t])
  BY <1>1, ListType DEF QueueType
<1>2. ASSUME NEW f \in [Channels -> UNION {Lists(c) : c \in Channels}],
             \A c \in Channels : f[c] \in Lists(c)
      PROVE  QueueType([q EXCEPT ![p] = f])
  <2>1. \A c \in Channels : f[c] \in Seq(SUBSET Updates)  BY <1>2, ListType
  <2>2. f \in [Channels -> Seq(SUBSET Updates)]  BY <2>1
  <2>. QED  BY <1>2, <2>2 DEF QueueType
<1>. QED  BY <1>1, <1>2

LEMMA RedisUpdate ==
  ASSUME NEW r, RedisType(r), NEW c \in Channels, NEW t \in Lists(c)
  PROVE  RedisType([r EXCEPT ![c] = t])
BY ListType DEF RedisType

\* What a pod pushes to a list.
LEMMA Pushed ==
  ASSUME TypeOK, NEW p \in Pods, NEW c \in Channels
  PROVE  /\ Part(p, c) \subseteq hand[p] \cap Of(c)
         /\ Append(redis[c], Part(p, c)) \in Lists(c)
         /\ Held(Append(redis[c], Part(p, c))) = Held(redis[c]) \cup Part(p, c)
         /\ Distinct(redis[c]) /\ Part(p, c) \cap Held(redis[c]) = {}
              => Distinct(Append(redis[c], Part(p, c)))
<1>1. Part(p, c) \subseteq hand[p] \cap Of(c)  BY DEF Part, TypeOK, Of
<1>2. redis[c] \in Seq(SUBSET Of(c))  BY ListType DEF TypeOK
<1>. HIDE DEF Part
<1>3. \A x \in SUBSET Of(c) :
        /\ Append(redis[c], x) \in Seq(SUBSET Of(c))
        /\ Held(Append(redis[c], x)) = Held(redis[c]) \cup x
        /\ Distinct(redis[c]) /\ x \cap Held(redis[c]) = {} => Distinct(Append(redis[c], x))
  BY <1>2, HeldAppend
<1>4. Part(p, c) \in SUBSET Of(c)  BY <1>1
<1>. QED  BY <1>1, <1>3, <1>4, ListType

\* Every state has the types of TypeOK.
LEMMA TypeInit == Init => TypeOK
<1>. SUFFICES ASSUME Init PROVE TypeOK
  OBVIOUS
<1>1. \A c \in Channels : <<>> \in Lists(c) /\ <<>> \in Seq(SUBSET Updates)
  BY HeldEmpty DEF Lists
<1>2. QueueType(queue) /\ RedisType(redis)  BY <1>1 DEF Init, QueueType, RedisType
<1>3. 0 \in Channels  BY WriterAssumption DEF Channels
<1>. QED  BY <1>2, <1>3, WriterAssumption DEF Init, TypeOK, QueueType, RedisType, Labels

\* All of TypeOK but the lists.
PlainType ==
  /\ useRedis \in BOOLEAN
  /\ arrived \subseteq Requests
  /\ tasks \in [Pods -> SUBSET Updates]
  /\ db \in [Updates -> Nat]
  /\ lock \in Pods \cup {None, Stale}
  /\ pc \in [Pods -> Labels]
  /\ chan \in [Pods -> Channels]
  /\ hand \in [Pods -> SUBSET Updates]
  /\ tries \in [Pods -> 0..Retries]
  /\ popped \in [Pods -> 0..(PopCount - 1)]
  /\ doubtful \subseteq Updates
  /\ faults \in 0..MaxFaults /\ expiries \in 0..MaxExpiries

LEMMA TypeParts == TypeOK <=> PlainType /\ QueueType(queue) /\ RedisType(redis)
BY DEF TypeOK, PlainType, QueueType, RedisType

\* What the next batch is taken from.
LEMMA BatchType ==
  ASSUME NEW p, NEW t
  PROVE  Batch(p, t) \subseteq {u \in hand[p] : u[1] = t}
BY DEF Batch, FirstRows

LEMMA TypeStep == TypeOK /\ [Next]_vars => TypeOK'
<1>. SUFFICES ASSUME TypeOK, [Next]_vars PROVE PlainType' /\ QueueType(queue') /\ RedisType(redis')
  BY TypeParts DEF TypeOK, PlainType, QueueType, RedisType
<1>. PlainType /\ QueueType(queue) /\ RedisType(redis)  BY TypeParts
<1>. /\ FlushCount \in Nat /\ PopCount \in Nat \ {0} /\ Retries \in Nat
     /\ MaxFaults \in Nat /\ MaxExpiries \in Nat /\ None \notin Pods /\ Stale \notin Pods
     /\ 0 \in Channels
  BY WriterAssumption DEF Channels
<1>1. ASSUME NEW p \in Pods, NEW r \in Requests, UpdateDatabase(p, r)
      PROVE  PlainType' /\ QueueType(queue') /\ RedisType(redis')
  <2>1. Charges[r] \subseteq Updates  BY DEF Updates
  <2>. QED  BY <1>1, <2>1 DEF UpdateDatabase, PlainType, stores, job, bounds
<1>2. ASSUME NEW p \in Pods, NEW u \in Updates, AddUpdate(p, u)
      PROVE  PlainType' /\ QueueType(queue') /\ RedisType(redis')
  <2>. DEFINE c == ChannelOf(u)
  <2>1. c \in Channels /\ queue[p][c] \in Lists(c)  BY ChannelType DEF QueueType
  <2>2. PICK t : /\ queue' = [queue EXCEPT ![p][c] = t]
                 /\ \/ t = Append(queue[p][c], {u})
                    \/ \E a \in Aggregates(c, Taken(Append(queue[p][c], {u}), FlushCount)) :
                         t = Left(Append(queue[p][c], {u}), FlushCount) \o a
    BY <1>2, Zenon DEF AddUpdate
  <2>3. t \in Lists(c)  BY <2>1, <2>2, Added
  <2>4. QueueType(queue')  BY <2>1, <2>2, <2>3, QueueUpdate
  <2>. QED  BY <1>2, <2>4 DEF AddUpdate, PlainType, stores, job, bounds
<1>3. ASSUME NEW p \in Pods, StartJob(p)
      PROVE  PlainType' /\ QueueType(queue') /\ RedisType(redis')
  <2>1. CASE useRedis
    <3>. DEFINE f == [c \in Channels |-> Left(queue[p][c], FlushCount)]
                S == UNION {Taken(queue[p][c], FlushCount) : c \in Channels}
    <3>1. S \subseteq Updates /\ \A c \in Channels : f[c] \in Lists(c)  BY TakenType
    <3>2. f \in [Channels -> UNION {Lists(c) : c \in Channels}]  BY <3>1
    <3>3. QueueType([queue EXCEPT ![p] = f])  BY <3>1, <3>2, QueueUpdate
    <3>4. /\ queue' = [queue EXCEPT ![p] = f] /\ hand' = [hand EXCEPT ![p] = S]
          /\ pc' = [pc EXCEPT ![p] = IF S = {} THEN "acquire" ELSE "push"]
      BY <1>3, <2>1 DEF StartJob, Goto
    <3>. HIDE DEF S, f
    <3>. QED  BY <1>3, <3>1, <3>3, <3>4 DEF StartJob, PlainType, Labels, stores, bounds
  <2>2. CASE ~useRedis
    BY <1>3, <2>2 DEF StartJob, Goto, PlainType, Labels, stores, bounds
  <2>. QED  BY <2>1, <2>2
<1>4. ASSUME NEW p \in Pods, Push(p)
      PROVE  PlainType' /\ QueueType(queue') /\ RedisType(redis')
  <2>1. PICK c \in Channels :
               /\ redis' = [redis EXCEPT ![c] = Append(@, Part(p, c))]
               /\ hand' = [hand EXCEPT ![p] = @ \ Part(p, c)]
               /\ Goto(p, IF hand[p] = Part(p, c) THEN "acquire" ELSE "push")
    BY <1>4 DEF Push
  <2>2. RedisType(redis')  BY <2>1, Pushed, RedisUpdate
  <2>. QED  BY <1>4, <2>1, <2>2 DEF Push, PlainType, Goto, Labels, memory, bounds
<1>5. ASSUME NEW p \in Pods, Acquire(p) \/ CheckOwner(p) \/ Release(p) \/ Delete(p)
      PROVE  PlainType' /\ QueueType(queue') /\ RedisType(redis')
  BY <1>5 DEF Acquire, CheckOwner, Release, Delete, PlainType, Goto, Labels,
              memory, stores, bounds
<1>6. ASSUME NEW p \in Pods, Fetch(p) \/ Pop(p)
      PROVE  PlainType' /\ QueueType(queue') /\ RedisType(redis')
  <2>. DEFINE c == chan[p]
  <2>1. c \in Channels  BY DEF PlainType
  <2>2. PICK S \in SUBSET Updates :
          /\ hand' = [hand EXCEPT ![p] = S]
          /\ Proceed(p, S) \/ UNCHANGED <<pc, chan>>
    <3>1. CASE Fetch(p)
      <4>1. Taken(queue[p][c], FlushCount) \in SUBSET Updates  BY <2>1, TakenType
      <4>. QED  BY <3>1, <4>1 DEF Fetch
    <3>2. CASE Pop(p)
      <4>1. Taken(redis[c], 1) \in SUBSET Updates  BY <2>1, TakenType
      <4>2. hand[p] \cup Taken(redis[c], 1) \in SUBSET Updates  BY <4>1 DEF PlainType
      <4>. QED  BY <3>2, <4>2 DEF Pop
    <3>. QED  BY <1>6, <3>1, <3>2
  <2>3. \/ redis' = [redis EXCEPT ![c] = Left(@, 1)] /\ queue' = queue
        \/ queue' = [queue EXCEPT ![p][c] = Left(@, FlushCount)] /\ redis' = redis
    BY <1>6 DEF Fetch, Pop, memory, stores
  <2>4. QueueType(queue')  BY <2>1, <2>3, TakenType, QueueUpdate
  <2>5. RedisType(redis')
    <3>1. Left(redis[c], 1) \in Lists(c)  BY <2>1, TakenType
    <3>. QED  BY <2>1, <2>3, <3>1, RedisUpdate
  <2>6. pc' \in [Pods -> Labels] /\ chan' \in [Pods -> Channels]
    BY <2>2, NextChannelType DEF Proceed, Goto, PlainType, Labels
  <2>7. popped' \in [Pods -> 0..(PopCount - 1)]
    BY <1>6 DEF Fetch, Pop, PlainType
  <2>8. UNCHANGED <<useRedis, arrived, tasks, db, lock, doubtful, tries, faults, expiries>>
    BY <1>6 DEF Fetch, Pop, memory, stores, bounds
  <2>. QED  BY <2>2, <2>4, <2>5, <2>6, <2>7, <2>8 DEF PlainType
<1>7. ASSUME NEW p \in Pods, Commit(p)
      PROVE  PlainType' /\ QueueType(queue') /\ RedisType(redis')
  <2>1. PICK t \in Tables : /\ NextTable(p, t) /\ AddToTable(Batch(p, t))
                            /\ \E rest \in {hand[p] \ Batch(p, t), {}} :
                                 /\ hand' = [hand EXCEPT ![p] = rest]
                                 /\ NextChannel(p) \/ (pc' = pc /\ chan' = chan)
    BY <1>7 DEF Commit
  <2>2. pc' \in [Pods -> Labels] /\ chan' \in [Pods -> Channels]
    BY <2>1, NextChannelType DEF PlainType
  <2>3. db' \in [Updates -> Nat]  BY <2>1 DEF AddToTable, PlainType
  <2>4. hand' \in [Pods -> SUBSET Updates]  BY <2>1, BatchType DEF PlainType
  <2>5. /\ UNCHANGED <<useRedis, arrived, tasks, queue, redis, lock, doubtful, popped,
                       faults, expiries>>
        /\ tries' = [tries EXCEPT ![p] = 0]
    BY <1>7 DEF Commit, memory, bounds
  <2>. QED  BY <2>2, <2>3, <2>4, <2>5 DEF PlainType
<1>8. ASSUME NEW p \in Pods, PushFails(p)
      PROVE  PlainType' /\ QueueType(queue') /\ RedisType(redis')
  <2>1. PICK c \in Channels : redis' \in {redis, [redis EXCEPT ![c] = Append(@, Part(p, c))]}
    BY <1>8 DEF PushFails
  <2>2. RedisType([redis EXCEPT ![c] = Append(@, Part(p, c))])  BY Pushed, RedisUpdate
  <2>3. RedisType(redis')  BY <2>1, <2>2
  <2>. QED  BY <1>8, <2>3 DEF PushFails, PlainType, Goto, Labels, memory, Fault
<1>9. ASSUME NEW p \in Pods, LockFails(p)
      PROVE  PlainType' /\ QueueType(queue') /\ RedisType(redis')
  BY <1>9 DEF LockFails, PlainType, Goto, Labels, memory, Fault
<1>10. ASSUME NEW p \in Pods, PopFails(p)
       PROVE  PlainType' /\ QueueType(queue') /\ RedisType(redis')
  <2>1. chan[p] \in Channels  BY DEF PlainType
  <2>2. redis' \in {redis, [redis EXCEPT ![chan[p]] = Left(@, 1)]}
    BY <1>10 DEF PopFails
  <2>3. RedisType(redis')  BY <2>1, <2>2, TakenType, RedisUpdate
  <2>. QED  BY <1>10, <2>3 DEF PopFails, PlainType, Goto, Labels, memory, Fault
<1>11. ASSUME NEW p \in Pods, ConnectionFails(p)
       PROVE  PlainType' /\ QueueType(queue') /\ RedisType(redis')
  <2>1. PICK t \in Tables : \/ db' = db /\ doubtful' = doubtful
                            \/ /\ AddToTable(Batch(p, t))
                               /\ doubtful' = doubtful \cup Batch(p, t)
    BY <1>11 DEF ConnectionFails
  <2>2. db' \in [Updates -> Nat] /\ doubtful' \subseteq Updates
    BY <2>1, BatchType DEF AddToTable, PlainType
  <2>3. /\ pc' \in [Pods -> Labels] /\ chan' \in [Pods -> Channels]
        /\ hand' \in [Pods -> SUBSET Updates] /\ tries' \in [Pods -> 0..Retries]
    <3>1. CASE tries[p] < Retries
      BY <1>11, <3>1 DEF ConnectionFails, PlainType
    <3>2. CASE ~(tries[p] < Retries)
      <4>1. Raise(p)  BY <1>11, <3>2 DEF ConnectionFails
      <4>. QED  BY <4>1, RaiseType DEF PlainType
    <3>. QED  BY <3>1, <3>2
  <2>. QED  BY <1>11, <2>2, <2>3 DEF ConnectionFails, PlainType, memory, Fault
<1>12. ASSUME NEW p \in Pods, DatabaseFails(p)
       PROVE  PlainType' /\ QueueType(queue') /\ RedisType(redis')
  <2>1. Raise(p)  BY <1>12 DEF DatabaseFails
  <2>. QED  BY <1>12, <2>1, RaiseType DEF DatabaseFails, PlainType, memory, stores, Fault
<1>13. ASSUME NEW p \in Pods, Crash(p)
       PROVE  PlainType' /\ QueueType(queue') /\ RedisType(redis')
  <2>. DEFINE f == [c \in Channels |-> <<>>]
  <2>1. \A c \in Channels : f[c] \in Lists(c)  BY HeldEmpty DEF Lists
  <2>2. f \in [Channels -> UNION {Lists(c) : c \in Channels}]  BY <2>1
  <2>3. QueueType([queue EXCEPT ![p] = f])  BY <2>1, <2>2, QueueUpdate
  <2>4. QueueType(queue')  BY <1>13, <2>3 DEF Crash
  <2>. HIDE DEF f
  <2>. QED  BY <1>13, <2>4 DEF Crash, PlainType, Goto, Labels, Fault
<1>14. ASSUME ExpireAbandoned \/ ExpireEarly
       PROVE  PlainType' /\ QueueType(queue') /\ RedisType(redis')
  BY <1>14 DEF ExpireAbandoned, ExpireEarly, PlainType, memory, job, bounds
<1>15. CASE UNCHANGED vars
  BY <1>15 DEF vars, memory, stores, job, bounds, PlainType
<1>16. ASSUME NEW p \in Pods, JobStep(p)
       PROVE  PlainType' /\ QueueType(queue') /\ RedisType(redis')
  BY <1>3, <1>4, <1>5, <1>6, <1>7, <1>16 DEF JobStep
<1>17. ASSUME NEW p \in Pods, JobFails(p)
       PROVE  PlainType' /\ QueueType(queue') /\ RedisType(redis')
  BY <1>8, <1>9, <1>10, <1>11, <1>12, <1>13, <1>17 DEF JobFails
<1>. QED  BY <1>1, <1>2, <1>14, <1>15, <1>16, <1>17 DEF Next

\* Every state of the writer has its types.
THEOREM Types == Spec => []TypeOK
BY TypeInit, TypeStep, PTL DEF Spec

----------------------------------------------------------------------------
(* The lock.                                                               *)

\* Until a lock expires early, a pod that works has the lock.
LockHeld == expiries = 0 => \A p \in Working : lock = p

AtWork == {"fetch", "commit", "release", "delete"}

\* Whether the buffer is used is a setting.
LEMMA RedisConstant == [Next]_vars => useRedis' = useRedis
BY DEF Next, JobStep, JobFails, vars, UpdateDatabase, AddUpdate, StartJob, Push,
       Acquire, CheckOwner, Fetch, Pop, Commit, Release, Delete, PushFails,
       LockFails, PopFails, ConnectionFails, DatabaseFails, Crash, ExpireAbandoned,
       ExpireEarly

LEMMA LockStep == TypeOK /\ LockHeld /\ [Next]_vars => LockHeld'
<1>. SUFFICES ASSUME TypeOK, LockHeld, [Next]_vars, expiries' = 0,
                     NEW q \in Pods, useRedis', pc'[q] \in AtWork
              PROVE  lock' = q
  BY DEF LockHeld, Working, AtWork
<1>. /\ useRedis' = useRedis /\ expiries = 0
  <2>1. useRedis' = useRedis  BY RedisConstant
  <2>2. expiries' = expiries \/ expiries' = expiries + 1
    BY DEF Next, JobStep, JobFails, vars, UpdateDatabase, AddUpdate, StartJob, Push, Acquire,
           CheckOwner, Fetch, Pop, Commit, Release, Delete, PushFails, LockFails, PopFails,
           ConnectionFails, DatabaseFails, Crash, ExpireAbandoned, ExpireEarly, Fault, bounds
  <2>3. expiries \in Nat  BY WriterAssumption DEF TypeOK
  <2>4. expiries = 0  BY <2>2, <2>3
  <2>. QED  BY <2>1, <2>4, Zenon
<1>. /\ pc \in [Pods -> Labels] /\ None \notin Pods /\ Stale \notin Pods
     /\ \A p \in Pods : pc[p] \in AtWork => lock = p
  BY WriterAssumption DEF TypeOK, LockHeld, Working, AtWork
<1>1. CASE lock' = lock /\ (pc'[q] = pc[q] \/ pc[q] \in AtWork)
  BY <1>1
<1>2. ASSUME NEW p \in Pods,
             \/ \E r \in Requests : UpdateDatabase(p, r)
             \/ \E u \in Updates : AddUpdate(p, u)
      PROVE  lock' = q
  <2>1. lock' = lock /\ pc' = pc  BY <1>2 DEF UpdateDatabase, AddUpdate, stores, job
  <2>. QED  BY <2>1, <1>1
<1>3. ASSUME NEW p \in Pods, StartJob(p) \/ Push(p) \/ PushFails(p) PROVE lock' = q
  <2>1. /\ lock' = lock
        /\ \E l \in {"push", "acquire", "idle"} : pc' = [pc EXCEPT ![p] = l]
    BY <1>3 DEF StartJob, Push, PushFails, stores, Goto
  <2>. QED  BY <1>1, <2>1 DEF AtWork
<1>4. ASSUME NEW p \in Pods, Acquire(p) PROVE lock' = q
  BY <1>4 DEF Acquire, Goto, AtWork
<1>5. ASSUME NEW p \in Pods, CheckOwner(p) PROVE lock' = q
  BY <1>5 DEF CheckOwner, Goto, AtWork, stores
<1>6. ASSUME NEW p \in Pods,
             \/ Fetch(p) \/ Pop(p) \/ Commit(p)
             \/ PopFails(p) \/ ConnectionFails(p) \/ DatabaseFails(p)
      PROVE  lock' = q
  <2>1. lock' = lock /\ pc[p] \in AtWork
    BY <1>6 DEF Fetch, Pop, Commit, PopFails, ConnectionFails, DatabaseFails, stores, AtWork
  <2>2. \A o \in Pods \ {p} : pc'[o] = pc[o]
    BY <1>6, NextChannelType, RaiseType
       DEF Fetch, Pop, Proceed, Commit, PopFails, ConnectionFails, DatabaseFails, Goto
  <2>. QED  BY <1>1, <2>1, <2>2
<1>7. ASSUME NEW p \in Pods, Release(p) \/ Delete(p) PROVE lock' = q
  BY <1>7 DEF Release, Delete, Goto, AtWork, stores
<1>8. ASSUME NEW p \in Pods, LockFails(p) PROVE lock' = q
  BY <1>8 DEF LockFails, Goto, AtWork
<1>9. ASSUME NEW p \in Pods, Crash(p) PROVE lock' = q
  BY <1>9 DEF Crash, Goto, AtWork
<1>10. CASE ExpireAbandoned
  BY <1>10 DEF ExpireAbandoned, Working, AtWork, job
<1>11. CASE ExpireEarly
  BY <1>11 DEF ExpireEarly
<1>12. CASE UNCHANGED vars
  BY <1>1, <1>12 DEF vars, stores, job
<1>. QED
  BY <1>2, <1>3, <1>4, <1>5, <1>6, <1>7, <1>8, <1>9, <1>10, <1>11, <1>12
     DEF Next, JobStep, JobFails

\* Until a lock expires under the pod that works, one pod at a time takes from
\* the buffer, however many crash, fail or find the lock left behind.
THEOREM Committer == Spec => []OneCommitter
<1>1. Init => LockHeld
  BY DEF Init, LockHeld, Working
<1>2. LockHeld => OneCommitter
  BY DEF LockHeld, OneCommitter
<1>. QED  BY <1>1, <1>2, LockStep, Types, PTL DEF Spec

----------------------------------------------------------------------------
(* Where an increment is.                                                  *)

Kinds  == {"task", "queue", "hand", "redis"}
Owners == Pods \cup {None}

\* u is in a task, in the queue, in the hand of a pod, or in the buffer.
Where(u, k, p) ==
  \/ k = "task"  /\ p \in Pods /\ u \in tasks[p]
  \/ k = "queue" /\ p \in Pods /\ u \in Held(queue[p][ChannelOf(u)])
  \/ k = "hand"  /\ p \in Pods /\ u \in hand[p]
  \/ k = "redis" /\ p = None   /\ u \in Held(redis[ChannelOf(u)])

Somewhere(u) == \E k \in Kinds, p \in Owners : Where(u, k, p)

\* It is in one place, and in one item there.
OnePlace ==
  \A u \in Updates : \A k, l \in Kinds, p, q \in Owners :
    Where(u, k, p) /\ Where(u, l, q) => k = l /\ p = q

DistinctLists ==
  \A c \in Channels : Distinct(redis[c]) /\ \A p \in Pods : Distinct(queue[p][c])

\* What a step does to u: it stays where it is or is dropped; it goes to one
\* other place; or its request has just ended.
Stays(u) == \A k \in Kinds, p \in Owners : Where(u, k, p)' => Where(u, k, p)
Goes(u)  == /\ Somewhere(u)
            /\ \E k \in Kinds, p \in Owners :
                 \A l \in Kinds, q \in Owners : Where(u, l, q)' => l = k /\ q = p

\* The ledger's view of the requests that ended.
Known == UNION {Charges[r] : r \in arrived}

Enters(u) == /\ ~Somewhere(u) /\ u \notin Known /\ u \in Known'
             /\ \E p \in Pods : \A l \in Kinds, q \in Owners :
                  Where(u, l, q)' => l = "task" /\ q = p

Moves == \A u \in Updates : Stays(u) \/ Goes(u) \/ Enters(u)

\* Increments in flight are those in some place.
LEMMA InFlightIs == TypeOK => \A u : u \in InFlight <=> u \in Updates /\ Somewhere(u)
<1>. SUFFICES ASSUME TypeOK, NEW u PROVE u \in InFlight <=> u \in Updates /\ Somewhere(u)
  OBVIOUS
<1>1. \A p \in Pods : tasks[p] \subseteq Updates /\ hand[p] \subseteq Updates  BY DEF TypeOK
<1>2. \A c \in Channels : \A s \in Lists(c) : Held(s) \subseteq Of(c)
  BY Split
<1>3. \A c \in Channels : /\ Held(redis[c]) \subseteq Of(c)
                          /\ \A p \in Pods : Held(queue[p][c]) \subseteq Of(c)
  BY <1>2 DEF TypeOK
<1>4. ASSUME u \in InFlight PROVE u \in Updates /\ Somewhere(u)
  <2>1. CASE \E p \in Pods : u \in tasks[p] \cup hand[p]
    BY <1>1, <2>1 DEF Somewhere, Where, Kinds, Owners
  <2>2. CASE \E p \in Pods, c \in Channels : u \in Held(queue[p][c])
    BY <1>3, <2>2 DEF Somewhere, Where, Kinds, Owners, Of
  <2>3. CASE \E c \in Channels : u \in Held(redis[c])
    BY <1>3, <2>3 DEF Somewhere, Where, Kinds, Owners, Of
  <2>4. \/ u \in UNION {tasks[p] \cup hand[p] : p \in Pods}
        \/ u \in UNION {Held(queue[p][c]) : p \in Pods, c \in Channels}
        \/ u \in UNION {Held(redis[c]) : c \in Channels}
    BY <1>4 DEF InFlight
  <2>. QED  BY <2>1, <2>2, <2>3, <2>4
<1>5. ASSUME u \in Updates, Somewhere(u) PROVE u \in InFlight
  <2>1. ChannelOf(u) \in Channels  BY <1>5, ChannelType
  <2>2. \/ \E p \in Pods : u \in tasks[p] \cup hand[p]
        \/ \E p \in Pods : u \in Held(queue[p][ChannelOf(u)])
        \/ u \in Held(redis[ChannelOf(u)])
    BY <1>5 DEF Somewhere, Where
  <2>3. \/ u \in UNION {tasks[p] \cup hand[p] : p \in Pods}
        \/ u \in UNION {Held(queue[p][c]) : p \in Pods, c \in Channels}
        \/ u \in UNION {Held(redis[c]) : c \in Channels}
    BY <2>1, <2>2
  <2>. QED  BY <2>3 DEF InFlight
<1>. QED  BY <1>4, <1>5

\* A step that moves increments leaves each in one place.
LEMMA OnePlaceStep == OnePlace /\ Moves => OnePlace'
<1>. SUFFICES ASSUME OnePlace, Moves, NEW u \in Updates, NEW k \in Kinds, NEW l \in Kinds,
                     NEW p \in Owners, NEW q \in Owners, Where(u, k, p)', Where(u, l, q)'
              PROVE  k = l /\ p = q
  BY DEF OnePlace
<1>1. CASE Stays(u)  BY <1>1 DEF OnePlace, Stays
<1>2. CASE Goes(u)  BY <1>2 DEF Goes
<1>3. CASE Enters(u)  BY <1>3 DEF Enters
<1>. QED  BY <1>1, <1>2, <1>3 DEF Moves

\* The place of an increment, for steps that say what they do to the lists.
LEMMA SamePlace ==
  ASSUME NEW u, \A p \in Pods : u \in tasks'[p] => u \in tasks[p],
         \A p \in Pods : u \in hand'[p] => u \in hand[p],
         \A p \in Pods : u \in Held(queue'[p][ChannelOf(u)]) => u \in Held(queue[p][ChannelOf(u)]),
         u \in Held(redis'[ChannelOf(u)]) => u \in Held(redis[ChannelOf(u)])
  PROVE  Stays(u)
BY DEF Stays, Where

\* Nothing that is somewhere is dropped, and what enters is somewhere.
Keeps ==
  \A u \in Updates : (Somewhere(u) \/ u \in Known' \ Known) => Somewhere(u)'

\* A job holds increments only between the step that takes them and the last
\* that settles them; those that it pops or commits are of the channel it is at.
HandFree ==
  \A p \in Pods :
    /\ pc[p] \notin {"push", "fetch", "commit"} => hand[p] = {}
    /\ pc[p] \in {"fetch", "commit"} => hand[p] \subseteq Of(chan[p])
    /\ pc[p] = "fetch" /\ ~useRedis => hand[p] = {}

\* What was charged, or is somewhere, was tracked.
Tracked == \A u \in Updates : Somewhere(u) \/ db[u] > 0 => u \in Known

Places == TypeOK /\ OnePlace /\ DistinctLists /\ Tracked /\ HandFree

\* An increment is known when its request has arrived.
LEMMA KnownIs ==
  ASSUME TypeOK
  PROVE  /\ Known \subseteq Updates
         /\ \A r \in Requests : \A u \in Charges[r] : u \in Known <=> r \in arrived
<1>1. \A r \in Requests : \A u \in Charges[r] : u[2] = r  BY WriterAssumption
<1>2. arrived \subseteq Requests  BY DEF TypeOK
<1>3. Known \subseteq Updates  BY <1>2 DEF Known, Updates
<1>4. ASSUME NEW r \in Requests, NEW u \in Charges[r], u \in Known PROVE r \in arrived
  <2>1. PICK q \in arrived : u \in Charges[q]  BY <1>4 DEF Known
  <2>. QED  BY <1>1, <1>2, <2>1
<1>. QED  BY <1>3, <1>4 DEF Known

LEMMA UpdateDatabaseMoves ==
  ASSUME Places, NEW p \in Pods, NEW r \in Requests, UpdateDatabase(p, r)
  PROVE  Moves /\ Keeps /\ DistinctLists'
<1>1. /\ r \notin arrived /\ arrived' = arrived \cup {r}
      /\ tasks' = [tasks EXCEPT ![p] = @ \cup Charges[r]]
      /\ queue' = queue /\ redis' = redis /\ hand' = hand
  BY DEF UpdateDatabase, stores, job
<1>2. Known' = Known \cup Charges[r]  BY <1>1 DEF Known
<1>3. tasks \in [Pods -> SUBSET Updates] /\ Charges[r] \subseteq Updates
  BY DEF Places, TypeOK, Updates
<1>4. ASSUME NEW u \in Charges[r] PROVE Enters(u) /\ Somewhere(u)'
  <2>1. u \notin Known /\ u \in Known' /\ u \in Updates
    BY <1>1, <1>2, <1>3, KnownIs DEF Places
  <2>2. ~Somewhere(u)  BY <2>1 DEF Places, Tracked
  <2>3. \A l \in Kinds, q \in Owners : Where(u, l, q)' => l = "task" /\ q = p
    BY <1>1, <1>3, <2>2 DEF Where, Somewhere, Kinds, Owners
  <2>4. Somewhere(u)'  BY <1>1, <1>3 DEF Somewhere, Where, Kinds, Owners
  <2>. QED  BY <2>1, <2>2, <2>3, <2>4 DEF Enters
<1>5. ASSUME NEW u \in Updates, u \notin Charges[r]
      PROVE  Stays(u) /\ (Somewhere(u) => Somewhere(u)')
  <2>1. \A k \in Kinds, q \in Owners : Where(u, k, q)' <=> Where(u, k, q)
    BY <1>1, <1>3, <1>5 DEF Where
  <2>. QED  BY <2>1 DEF Stays, Somewhere
<1>6. Moves  BY <1>4, <1>5 DEF Moves
<1>7. Keeps  BY <1>2, <1>4, <1>5 DEF Keeps
<1>. QED  BY <1>1, <1>6, <1>7 DEF Places, DistinctLists

LEMMA AddUpdateMoves ==
  ASSUME Places, NEW p \in Pods, NEW v \in Updates, AddUpdate(p, v)
  PROVE  Moves /\ Keeps /\ DistinctLists'
<1>. DEFINE c == ChannelOf(v)
<1>1. PICK t : /\ queue' = [queue EXCEPT ![p][c] = t]
               /\ \/ t = Append(queue[p][c], {v})
                  \/ \E a \in Aggregates(c, Taken(Append(queue[p][c], {v}), FlushCount)) :
                       t = Left(Append(queue[p][c], {v}), FlushCount) \o a
  BY Zenon DEF AddUpdate
<1>2. /\ v \in tasks[p] /\ tasks' = [tasks EXCEPT ![p] = @ \ {v}]
      /\ arrived' = arrived /\ redis' = redis /\ hand' = hand
  BY DEF AddUpdate, stores, job
<1>3. /\ tasks \in [Pods -> SUBSET Updates] /\ c \in Channels /\ queue[p][c] \in Lists(c)
      /\ queue \in [Pods -> [Channels -> Seq(SUBSET Updates)]]
  BY ChannelType DEF Places, TypeOK
<1>4. Where(v, "task", p)  BY <1>2 DEF Where
<1>5. \A k \in Kinds, q \in Owners : Where(v, k, q) => k = "task" /\ q = p
  BY <1>4 DEF Places, OnePlace, Kinds, Owners
<1>6. v \notin Held(queue[p][c])
  <2>1. ~Where(v, "queue", p)  BY <1>5 DEF Kinds, Owners
  <2>. QED  BY <2>1 DEF Where
<1>7. Distinct(queue[p][c])  BY <1>3 DEF Places, DistinctLists
<1>8. Held(t) = Held(queue[p][c]) \cup {v} /\ Distinct(t)
  BY <1>1, <1>3, <1>6, <1>7, Added
<1>9. \A q \in Pods, d \in Channels :
        queue'[q][d] = IF q = p /\ d = c THEN t ELSE queue[q][d]
  BY <1>1, <1>3
<1>10. Goes(v) /\ Somewhere(v)'
  <2>1. \A k \in Kinds, q \in Owners : Where(v, k, q)' => k = "queue" /\ q = p
    <3>1. \A q \in Owners : ~Where(v, "task", q)'
      BY <1>2, <1>3, <1>5 DEF Where, Kinds
    <3>2. \A q \in Owners : ~Where(v, "hand", q)' /\ ~Where(v, "redis", q)'
      BY <1>2, <1>5 DEF Where, Kinds
    <3>3. \A q \in Owners : Where(v, "queue", q)' => q = p
      BY <1>3, <1>5, <1>9 DEF Where, Kinds
    <3>. QED  BY <3>1, <3>2, <3>3 DEF Kinds
  <2>2. Somewhere(v)'  BY <1>3, <1>8, <1>9 DEF Somewhere, Where, Kinds, Owners
  <2>. QED  BY <1>4, <2>1, <2>2 DEF Goes, Somewhere, Kinds, Owners
<1>11. ASSUME NEW u \in Updates, u # v
       PROVE  Stays(u) /\ (Somewhere(u) => Somewhere(u)')
  <2>1. ChannelOf(u) \in Channels  BY ChannelType
  <2>2. \A q \in Pods : u \in Held(queue'[q][ChannelOf(u)]) <=> u \in Held(queue[q][ChannelOf(u)])
    BY <1>8, <1>9, <1>11, <2>1
  <2>3. \A q \in Pods : u \in tasks'[q] <=> u \in tasks[q]  BY <1>2, <1>3, <1>11
  <2>4. \A k \in Kinds, q \in Owners : Where(u, k, q)' <=> Where(u, k, q)
    BY <1>2, <2>2, <2>3 DEF Where
  <2>. QED  BY <2>4 DEF Stays, Somewhere
<1>12. Moves  BY <1>10, <1>11 DEF Moves
<1>13. Keeps  BY <1>2, <1>10, <1>11 DEF Keeps, Known
<1>14. DistinctLists'  BY <1>2, <1>8, <1>9 DEF Places, DistinctLists
<1>. QED  BY <1>12, <1>13, <1>14

LEMMA StartJobMoves ==
  ASSUME Places, NEW p \in Pods, StartJob(p)
  PROVE  Moves /\ Keeps /\ DistinctLists'
<1>1. /\ hand[p] = {} /\ hand \in [Pods -> SUBSET Updates]
      /\ queue \in [Pods -> [Channels -> Seq(SUBSET Updates)]]
  BY DEF StartJob, Places, HandFree, TypeOK
<1>2. arrived' = arrived /\ tasks' = tasks /\ redis' = redis
  BY DEF StartJob, stores
<1>3. CASE useRedis
  <2>. DEFINE T(c) == Taken(queue[p][c], FlushCount)
              L(c) == Left(queue[p][c], FlushCount)
  <2>1. PICK S : S = UNION {T(c) : c \in Channels}  OBVIOUS
  <2>2. /\ hand' = [hand EXCEPT ![p] = S]
        /\ queue' = [queue EXCEPT ![p] = [c \in Channels |-> L(c)]]
    BY <1>3, <2>1 DEF StartJob
  <2>3. ASSUME NEW c \in Channels
        PROVE  /\ T(c) \subseteq Of(c) /\ Held(queue[p][c]) \subseteq Of(c)
               /\ T(c) \cup Held(L(c)) = Held(queue[p][c])
               /\ Distinct(L(c)) /\ T(c) \cap Held(L(c)) = {}
    <3>1. queue[p][c] \in Lists(c) /\ Distinct(queue[p][c]) /\ FlushCount \in Nat
      BY WriterAssumption DEF Places, TypeOK, DistinctLists
    <3>. QED  BY <3>1, Split
  <2>4. \A q \in Pods, d \in Channels : queue'[q][d] = IF q = p THEN L(d) ELSE queue[q][d]
    BY <1>1, <2>2
  <2>5. S \subseteq Updates /\ \A c \in Channels, u \in Updates : u \in Of(c) <=> ChannelOf(u) = c
    BY <2>1, <2>3, ListType DEF Of
  <2>. HIDE DEF T, L
  <2>6. ASSUME NEW u \in S PROVE Goes(u) /\ Somewhere(u)'
    <3>. DEFINE c == ChannelOf(u)
    <3>1. c \in Channels /\ u \in Updates  BY <2>5, ChannelType
    <3>2. u \in T(c)
      <4>1. PICK d \in Channels : u \in T(d)  BY <2>1
      <4>2. d = c  BY <2>3, <2>5, <3>1, <4>1
      <4>. QED  BY <4>1, <4>2
    <3>3. u \in Held(queue[p][c]) /\ u \notin Held(L(c))  BY <2>3, <3>1, <3>2
    <3>4. Where(u, "queue", p)  BY <3>3 DEF Where
    <3>5. \A k \in Kinds, q \in Owners : Where(u, k, q) => k = "queue" /\ q = p
      BY <3>1, <3>4 DEF Places, OnePlace, Kinds, Owners
    <3>6. \A k \in Kinds, q \in Owners : Where(u, k, q)' => k = "hand" /\ q = p
      <4>1. \A q \in Owners : ~Where(u, "task", q)' /\ ~Where(u, "redis", q)'
        BY <1>2, <3>5 DEF Where, Kinds
      <4>2. \A q \in Owners : Where(u, "hand", q)' => q = p
        BY <1>1, <2>2, <3>5 DEF Where, Kinds
      <4>3. \A q \in Owners : ~Where(u, "queue", q)'
        BY <2>4, <3>1, <3>3, <3>5 DEF Where, Kinds
      <4>. QED  BY <4>1, <4>2, <4>3 DEF Kinds
    <3>7. Somewhere(u)'  BY <1>1, <2>2 DEF Somewhere, Where, Kinds, Owners
    <3>. QED  BY <3>4, <3>6, <3>7 DEF Goes, Somewhere, Kinds, Owners
  <2>7. ASSUME NEW u \in Updates, u \notin S
        PROVE  Stays(u) /\ (Somewhere(u) => Somewhere(u)')
    <3>1. ChannelOf(u) \in Channels  BY ChannelType
    <3>2. u \notin T(ChannelOf(u))  BY <2>1, <2>7, <3>1
    <3>3. \A q \in Pods : u \in Held(queue'[q][ChannelOf(u)]) <=> u \in Held(queue[q][ChannelOf(u)])
      BY <2>3, <2>4, <3>1, <3>2
    <3>4. \A q \in Pods : u \in hand'[q] <=> u \in hand[q]  BY <1>1, <2>2, <2>7
    <3>5. \A k \in Kinds, q \in Owners : Where(u, k, q)' <=> Where(u, k, q)
      BY <1>2, <3>3, <3>4 DEF Where
    <3>. QED  BY <3>5 DEF Stays, Somewhere
  <2>8. Moves  BY <2>6, <2>7 DEF Moves
  <2>9. Keeps  BY <1>2, <2>6, <2>7 DEF Keeps, Known
  <2>10. DistinctLists'  BY <1>2, <2>3, <2>4 DEF Places, DistinctLists
  <2>. QED  BY <2>8, <2>9, <2>10
<1>4. CASE ~useRedis
  <2>1. queue' = queue /\ hand' = hand  BY <1>4 DEF StartJob
  <2>2. \A u \in Updates, k \in Kinds, q \in Owners : Where(u, k, q)' <=> Where(u, k, q)
    BY <1>2, <2>1 DEF Where
  <2>3. Moves /\ Keeps  BY <1>2, <2>2 DEF Moves, Stays, Keeps, Somewhere, Known
  <2>. QED  BY <1>2, <2>1, <2>3 DEF Places, DistinctLists
<1>. QED  BY <1>3, <1>4

\* An RPUSH that Redis carries out, whether or not the job hears of it, while
\* the pod keeps keeps[] of what it had.
LEMMA PushMoves ==
  ASSUME Places, NEW p \in Pods, NEW c \in Channels, NEW keeps \in SUBSET (hand[p] \ Part(p, c)),
         redis' = [redis EXCEPT ![c] = Append(@, Part(p, c))],
         hand' = [hand EXCEPT ![p] = keeps],
         arrived' = arrived, tasks' = tasks, queue' = queue
  PROVE  /\ Moves /\ DistinctLists'
         /\ keeps = hand[p] \ Part(p, c) => Keeps
<1>1. /\ hand \in [Pods -> SUBSET Updates]
      /\ redis \in [Channels -> Seq(SUBSET Updates)]
      /\ None \notin Pods
  BY WriterAssumption DEF Places, TypeOK
<1>2. PICK S : S = Part(p, c)  OBVIOUS
<1>3. PICK t : t = Append(redis[c], S)  OBVIOUS
<1>4. \A d \in Channels : redis'[d] = IF d = c THEN t ELSE redis[d]  BY <1>1, <1>2, <1>3
<1>5. /\ S \subseteq hand[p] /\ S \subseteq Of(c)
      /\ Held(t) = Held(redis[c]) \cup S
      /\ Distinct(redis[c]) /\ S \cap Held(redis[c]) = {} => Distinct(t)
  BY <1>2, <1>3, Pushed DEF Places
<1>6. \A u \in Updates : u \in Of(c) <=> ChannelOf(u) = c  BY DEF Of
<1>7. ASSUME NEW u \in S PROVE Goes(u) /\ Somewhere(u)' /\ u \notin Held(redis[c])
  <2>1. u \in Updates /\ ChannelOf(u) = c  BY <1>5, <1>6, ListType
  <2>2. Where(u, "hand", p)  BY <1>5 DEF Where
  <2>3. \A k \in Kinds, q \in Owners : Where(u, k, q) => k = "hand" /\ q = p
    BY <2>1, <2>2 DEF Places, OnePlace, Kinds, Owners
  <2>4. \A k \in Kinds, q \in Owners : Where(u, k, q)' => k = "redis" /\ q = None
    <3>1. \A q \in Owners : ~Where(u, "task", q)' /\ ~Where(u, "queue", q)'
      BY <2>3 DEF Where, Kinds
    <3>2. \A q \in Owners : ~Where(u, "hand", q)'
      BY <1>1, <1>2, <2>3 DEF Where, Kinds
    <3>3. \A q \in Owners : Where(u, "redis", q)' => q = None
      BY DEF Where
    <3>. QED  BY <3>1, <3>2, <3>3 DEF Kinds
  <2>5. Somewhere(u)'  BY <1>4, <1>5, <2>1 DEF Somewhere, Where, Kinds, Owners
  <2>6. ~Where(u, "redis", None)  BY <2>3 DEF Kinds, Owners
  <2>. QED  BY <2>1, <2>2, <2>4, <2>5, <2>6 DEF Goes, Somewhere, Where, Kinds, Owners
<1>8. ASSUME NEW u \in Updates, u \notin S
      PROVE  /\ Stays(u)
             /\ keeps = hand[p] \ Part(p, c) /\ Somewhere(u) => Somewhere(u)'
  <2>1. ChannelOf(u) \in Channels  BY ChannelType
  <2>2. u \in Held(redis'[ChannelOf(u)]) <=> u \in Held(redis[ChannelOf(u)])
    BY <1>4, <1>5, <1>8, <2>1
  <2>3. \A q \in Pods : u \in hand'[q] => u \in hand[q]  BY <1>1
  <2>4. Stays(u)  BY <2>2, <2>3, SamePlace
  <2>5. ASSUME keeps = hand[p] \ Part(p, c) PROVE Somewhere(u) => Somewhere(u)'
    <3>1. \A q \in Pods : u \in hand'[q] <=> u \in hand[q]  BY <1>1, <1>2, <1>8, <2>5
    <3>2. \A k \in Kinds, q \in Owners : Where(u, k, q)' <=> Where(u, k, q)
      BY <2>2, <3>1 DEF Where
    <3>. QED  BY <3>2 DEF Somewhere
  <2>. QED  BY <2>4, <2>5
<1>9. Moves  BY <1>7, <1>8 DEF Moves
<1>10. keeps = hand[p] \ Part(p, c) => Keeps  BY <1>7, <1>8 DEF Keeps, Known
<1>11. DistinctLists'  BY <1>4, <1>5, <1>7 DEF Places, DistinctLists
<1>. QED  BY <1>9, <1>10, <1>11

\* LPOP, or the flush of one queue, into the hand of a job.
LEMMA FetchMoves ==
  ASSUME Places, NEW p \in Pods, Fetch(p) \/ Pop(p)
  PROVE  Moves /\ Keeps /\ DistinctLists'
<1>. DEFINE c == chan[p]
<1>1. /\ hand \in [Pods -> SUBSET Updates] /\ c \in Channels
      /\ ~useRedis => hand[p] = {}
      /\ queue \in [Pods -> [Channels -> Seq(SUBSET Updates)]]
      /\ redis \in [Channels -> Seq(SUBSET Updates)]
      /\ None \notin Pods
  BY WriterAssumption DEF Fetch, Pop, Places, HandFree, TypeOK
<1>2. arrived' = arrived /\ tasks' = tasks  BY DEF Fetch, Pop, memory
<1>3. PICK s : s = IF useRedis THEN redis[c] ELSE queue[p][c]  OBVIOUS
<1>4. PICK n \in Nat : n = IF useRedis THEN 1 ELSE FlushCount
  BY WriterAssumption
<1>5. PICK S, t : S = Taken(s, n) /\ t = Left(s, n)  OBVIOUS
<1>6. /\ hand' = [hand EXCEPT ![p] = @ \cup S]
      /\ \A d \in Channels : redis'[d] = IF useRedis /\ d = c THEN t ELSE redis[d]
      /\ \A q \in Pods, d \in Channels :
           queue'[q][d] = IF ~useRedis /\ q = p /\ d = c THEN t ELSE queue[q][d]
  <2>1. CASE useRedis
    <3>1. /\ redis' = [redis EXCEPT ![c] = Left(@, 1)] /\ queue' = queue
          /\ hand' = [hand EXCEPT ![p] = hand[p] \cup Taken(redis[c], 1)]
      BY <2>1 DEF Fetch, Pop, memory
    <3>2. S = Taken(redis[c], 1) /\ t = Left(redis[c], 1)
      BY <1>3, <1>4, <1>5, <2>1
    <3>. QED  BY <1>1, <2>1, <3>1, <3>2
  <2>2. CASE ~useRedis
    <3>1. /\ queue' = [queue EXCEPT ![p][c] = Left(@, FlushCount)] /\ redis' = redis
          /\ hand' = [hand EXCEPT ![p] = Taken(queue[p][c], FlushCount)]
      BY <2>2 DEF Fetch, Pop, stores
    <3>2. S = Taken(queue[p][c], FlushCount) /\ t = Left(queue[p][c], FlushCount)
      BY <1>3, <1>4, <1>5, <2>2
    <3>3. hand[p] \cup S = S  BY <1>1, <2>2
    <3>. QED  BY <1>1, <2>2, <3>1, <3>2, <3>3
  <2>. QED  BY <2>1, <2>2
<1>7. s \in Lists(c) /\ Distinct(s)
  BY <1>1, <1>3 DEF Places, TypeOK, DistinctLists
<1>8. /\ S \subseteq Of(c) /\ Held(s) \subseteq Of(c)
      /\ S \cup Held(t) = Held(s)
      /\ Distinct(t) /\ S \cap Held(t) = {}
  BY <1>1, <1>5, <1>7, Split
<1>9. PICK o \in Owners, k0 \in Kinds :
        IF useRedis THEN o = None /\ k0 = "redis" ELSE o = p /\ k0 = "queue"
  BY DEF Owners, Kinds
<1>10. \A u \in Updates : u \in Of(c) <=> ChannelOf(u) = c  BY DEF Of
<1>11. ASSUME NEW u \in S PROVE Goes(u) /\ Somewhere(u)'
  <2>1. u \in Updates /\ ChannelOf(u) = c  BY <1>1, <1>8, <1>10, ListType
  <2>2. u \in Held(s) /\ u \notin Held(t)  BY <1>8
  <2>3. Where(u, k0, o)  BY <1>3, <1>9, <2>1, <2>2 DEF Where
  <2>4. \A k \in Kinds, q \in Owners : Where(u, k, q) => k = k0 /\ q = o
    BY <2>1, <2>3 DEF Places, OnePlace
  <2>5. \A k \in Kinds, q \in Owners : Where(u, k, q)' => k = "hand" /\ q = p
    <3>1. \A q \in Owners : ~Where(u, "task", q)'
      BY <1>2, <1>9, <2>4 DEF Where, Kinds
    <3>2. \A q \in Owners : Where(u, "hand", q)' => q = p
      BY <1>1, <1>6, <1>9, <2>4 DEF Where, Kinds
    <3>3. \A q \in Owners : ~Where(u, "queue", q)'
      BY <1>1, <1>6, <1>9, <2>1, <2>2, <2>4 DEF Where, Kinds
    <3>4. \A q \in Owners : ~Where(u, "redis", q)'
      BY <1>1, <1>6, <1>9, <2>1, <2>2, <2>4 DEF Where, Kinds
    <3>. QED  BY <3>1, <3>2, <3>3, <3>4 DEF Kinds
  <2>6. Somewhere(u)'  BY <1>1, <1>6 DEF Somewhere, Where, Kinds, Owners
  <2>7. p \in Owners /\ "hand" \in Kinds  BY DEF Owners, Kinds
  <2>. QED  BY <2>3, <2>5, <2>6, <2>7 DEF Goes, Somewhere
<1>12. ASSUME NEW u \in Updates, u \notin S
       PROVE  Stays(u) /\ (Somewhere(u) => Somewhere(u)')
  <2>1. ChannelOf(u) \in Channels  BY ChannelType
  <2>2. /\ \A q \in Pods : u \in Held(queue'[q][ChannelOf(u)]) <=> u \in Held(queue[q][ChannelOf(u)])
        /\ u \in Held(redis'[ChannelOf(u)]) <=> u \in Held(redis[ChannelOf(u)])
    BY <1>3, <1>6, <1>8, <1>12, <2>1
  <2>3. \A q \in Pods : u \in hand'[q] <=> u \in hand[q]  BY <1>1, <1>6, <1>12
  <2>4. \A k \in Kinds, q \in Owners : Where(u, k, q)' <=> Where(u, k, q)
    BY <1>2, <2>2, <2>3 DEF Where
  <2>. QED  BY <2>4 DEF Stays, Somewhere
<1>13. Moves  BY <1>11, <1>12 DEF Moves
<1>14. Keeps  BY <1>2, <1>11, <1>12 DEF Keeps, Known
<1>15. DistinctLists'  BY <1>6, <1>8 DEF Places, DistinctLists
<1>. QED  BY <1>13, <1>14, <1>15

\* Steps that put nothing anywhere: lists lose a prefix or all they have, hands
\* lose increments.
LEMMA DropMoves ==
  ASSUME Places,
         \A p \in Pods : tasks'[p] \subseteq tasks[p] /\ hand'[p] \subseteq hand[p],
         \A p \in Pods : queue'[p] = queue[p] \/ queue'[p] = [c \in Channels |-> <<>>],
         \A c \in Channels : redis'[c] = redis[c] \/ redis'[c] = Left(redis[c], 1),
         arrived' = arrived
  PROVE  (\A u \in Updates : Stays(u)) /\ Moves /\ DistinctLists'
<1>1. ASSUME NEW c \in Channels
      PROVE  /\ Held(redis'[c]) \subseteq Held(redis[c]) /\ Distinct(redis'[c])
             /\ \A p \in Pods : Held(queue'[p][c]) \subseteq Held(queue[p][c]) /\ Distinct(queue'[p][c])
  <2>1. redis[c] \in Lists(c) /\ Distinct(redis[c])
    BY DEF Places, TypeOK, DistinctLists
  <2>2. /\ Held(Left(redis[c], 1)) \subseteq Held(redis[c])
        /\ Distinct(Left(redis[c], 1))
    BY <2>1, Split
  <2>3. Held(redis'[c]) \subseteq Held(redis[c]) /\ Distinct(redis'[c])
    BY <2>1, <2>2
  <2>4. ASSUME NEW p \in Pods
        PROVE  Held(queue'[p][c]) \subseteq Held(queue[p][c]) /\ Distinct(queue'[p][c])
    <3>1. queue'[p][c] = queue[p][c] \/ queue'[p][c] = <<>>  OBVIOUS
    <3>2. Distinct(queue[p][c])  BY DEF Places, DistinctLists
    <3>. QED  BY <3>1, <3>2, HeldEmpty
  <2>. QED  BY <2>3, <2>4
<1>2. ASSUME NEW u \in Updates PROVE Stays(u)
  <2>1. ChannelOf(u) \in Channels  BY ChannelType
  <2>. QED  BY <1>1, <2>1, SamePlace
<1>3. Moves  BY <1>2 DEF Moves
<1>. QED  BY <1>1, <1>2, <1>3 DEF DistinctLists

LEMMA NothingMoves ==
  ASSUME Places, tasks' = tasks, queue' = queue, hand' = hand, redis' = redis, arrived' = arrived
  PROVE  Moves /\ Keeps /\ DistinctLists'
<1>1. \A u \in Updates, k \in Kinds, q \in Owners : Where(u, k, q)' <=> Where(u, k, q)
  BY DEF Where
<1>. QED  BY <1>1 DEF Moves, Stays, Keeps, Somewhere, Known, Places, DistinctLists

\* A transaction that commits settles what it is the last to hold.
LEMMA CommitMoves ==
  ASSUME Places, NEW p \in Pods, Commit(p)
  PROVE  /\ Moves /\ DistinctLists'
         /\ \A u \in Updates : Somewhere(u) => Somewhere(u)' \/ db'[u] > 0 \/ LeftOut(u)'
<1>1. PICK t \in Tables :
        /\ NextTable(p, t) /\ AddToTable(Batch(p, t))
        /\ hand' = [hand EXCEPT ![p] = IF t <= NumEntity THEN hand[p] \ Batch(p, t) ELSE {}]
  BY DEF Commit
<1>2. /\ arrived' = arrived /\ tasks' = tasks /\ queue' = queue /\ redis' = redis
      /\ pc[p] = "commit"
  BY DEF Commit, memory
<1>3. /\ hand \in [Pods -> SUBSET Updates] /\ hand[p] \subseteq Of(chan[p])
      /\ db \in [Updates -> Nat]
  BY <1>2 DEF Places, TypeOK, HandFree
<1>4. Moves /\ DistinctLists'  BY <1>1, <1>2, <1>3, DropMoves
<1>5. \A u \in Updates : db'[u] = IF u \in Batch(p, t) THEN db[u] + 1 ELSE db[u]
  BY <1>1 DEF AddToTable
<1>6. ASSUME NEW u \in hand[p], u \notin hand'[p] PROVE db'[u] > 0 \/ LeftOut(u)'
  <2>1. u \in Updates /\ ChannelOf(u) = chan[p]  BY <1>3 DEF Of
  <2>2. CASE u \in Batch(p, t)  BY <1>3, <1>5, <2>1, <2>2
  <2>3. CASE u \notin Batch(p, t)
    <3>1. t > NumEntity  BY <1>1, <1>3, <1>6, <2>3, WriterAssumption DEF Tables
    <3>2. PICK v \in hand[p] : v[1] = t  BY <1>1 DEF NextTable
    <3>3. v \in Updates /\ ChannelOf(v) = chan[p]  BY <1>3 DEF Of
    <3>4. u[1] = t
      BY <2>1, <3>1, <3>2, <3>3, ChannelType, WriterAssumption DEF ChannelOf, Tables
    <3>5. PICK S : S = {w \in hand[p] : w[1] = t}  OBVIOUS
    <3>6. Batch(p, t) = FirstRows(S)  BY <3>1, <3>5, WriterAssumption DEF Batch, Tables
    <3>7. u \in S \ FirstRows(S)  BY <2>3, <3>4, <3>5, <3>6
    <3>8. S \in SUBSET {w \in Updates : w[1] = u[1]}  BY <1>3, <3>4, <3>5
    <3>9. ASSUME NEW w \in FirstRows(S) PROVE db'[w] > 0
      <4>1. w \in Updates  BY <1>3, <3>6, <3>9, BatchType
      <4>. QED  BY <1>3, <1>5, <3>6, <3>9, <4>1
    <3>. QED  BY <3>1, <3>4, <3>7, <3>8, <3>9 DEF LeftOut
  <2>. QED  BY <2>2, <2>3
<1>7. ASSUME NEW u \in Updates, Somewhere(u)
      PROVE  Somewhere(u)' \/ db'[u] > 0 \/ LeftOut(u)'
  <2>1. PICK k \in Kinds, q \in Owners : Where(u, k, q)  BY <1>7 DEF Somewhere
  <2>2. CASE k = "hand" /\ q = p /\ u \notin hand'[p]
    BY <1>6, <2>1, <2>2 DEF Where
  <2>3. CASE ~(k = "hand" /\ q = p /\ u \notin hand'[p])
    <3>1. Where(u, k, q)'  BY <1>1, <1>2, <1>3, <2>1, <2>3 DEF Where
    <3>. QED  BY <3>1 DEF Somewhere
  <2>. QED  BY <2>2, <2>3
<1>. QED  BY <1>4, <1>7

\* Without a fault, what is somewhere or enters is somewhere, charged, or was
\* left out of a full batch.
Settles ==
  faults' = 0 =>
    \A u \in Updates : (Somewhere(u) \/ u \in Known' \ Known)
                         => Somewhere(u)' \/ db'[u] > 0 \/ LeftOut(u)'

LEMMA KeepsSettles == Keeps => Settles
BY DEF Keeps, Settles

\* The effect of every step on the places of the increments.
LEMMA MovesStep ==
  ASSUME Places, [Next]_vars
  PROVE  Moves /\ DistinctLists' /\ Settles
<1>. TypeOK /\ TypeOK'  BY TypeStep DEF Places
<1>1. ASSUME NEW p \in Pods, NEW r \in Requests, UpdateDatabase(p, r)
      PROVE  Moves /\ DistinctLists' /\ Settles
  BY <1>1, UpdateDatabaseMoves, KeepsSettles
<1>2. ASSUME NEW p \in Pods, NEW u \in Updates, AddUpdate(p, u)
      PROVE  Moves /\ DistinctLists' /\ Settles
  BY <1>2, AddUpdateMoves, KeepsSettles
<1>3. ASSUME NEW p \in Pods, StartJob(p)
      PROVE  Moves /\ DistinctLists' /\ Settles
  BY <1>3, StartJobMoves, KeepsSettles
<1>4. ASSUME NEW p \in Pods, Push(p)
      PROVE  Moves /\ DistinctLists' /\ Settles
  <2>1. PICK c \in Channels :
          /\ redis' = [redis EXCEPT ![c] = Append(@, Part(p, c))]
          /\ hand' = [hand EXCEPT ![p] = @ \ Part(p, c)]
          /\ arrived' = arrived /\ tasks' = tasks /\ queue' = queue
    BY <1>4 DEF Push, memory
  <2>2. PICK keeps \in SUBSET (hand[p] \ Part(p, c)) : keeps = hand[p] \ Part(p, c)
    OBVIOUS
  <2>. QED  BY <2>1, <2>2, PushMoves, KeepsSettles
<1>5. ASSUME NEW p \in Pods,
             Acquire(p) \/ CheckOwner(p) \/ Release(p) \/ Delete(p) \/ LockFails(p)
      PROVE  Moves /\ DistinctLists' /\ Settles
  <2>1. UNCHANGED <<tasks, queue, hand, redis, arrived>>
    BY <1>5 DEF Acquire, CheckOwner, Release, Delete, LockFails, memory, stores
  <2>. QED  BY <2>1, NothingMoves, KeepsSettles
<1>6. ASSUME NEW p \in Pods, Fetch(p) \/ Pop(p)
      PROVE  Moves /\ DistinctLists' /\ Settles
  BY <1>6, FetchMoves, KeepsSettles
<1>7. ASSUME NEW p \in Pods, Commit(p)
      PROVE  Moves /\ DistinctLists' /\ Settles
  <2>1. Known' = Known  BY <1>7 DEF Commit, Known
  <2>. QED  BY <1>7, <2>1, CommitMoves DEF Settles
<1>8. ASSUME Fault PROVE Settles
  <2>1. faults' # 0  BY <1>8, WriterAssumption DEF Fault, TypeOK
  <2>. QED  BY <2>1 DEF Settles
<1>9. ASSUME NEW p \in Pods, PushFails(p)
      PROVE  Moves /\ DistinctLists' /\ Settles
  <2>1. PICK c \in Channels :
          redis' \in {redis, [redis EXCEPT ![c] = Append(@, Part(p, c))]}
    BY <1>9 DEF PushFails
  <2>2. /\ hand' = [hand EXCEPT ![p] = {}] /\ hand \in [Pods -> SUBSET Updates]
        /\ arrived' = arrived /\ tasks' = tasks /\ queue' = queue
    BY <1>9 DEF PushFails, memory, TypeOK
  <2>3. CASE redis' = redis
    BY <1>8, <1>9, <2>2, <2>3, DropMoves DEF PushFails
  <2>4. CASE redis' = [redis EXCEPT ![c] = Append(@, Part(p, c))]
    <3>1. PICK keeps \in SUBSET (hand[p] \ Part(p, c)) : keeps = {}  OBVIOUS
    <3>2. Moves /\ DistinctLists'  BY <2>2, <2>4, <3>1, PushMoves
    <3>. QED  BY <1>8, <1>9, <3>2 DEF PushFails
  <2>. QED  BY <2>1, <2>3, <2>4
<1>10. ASSUME NEW p \in Pods,
              PopFails(p) \/ ConnectionFails(p) \/ DatabaseFails(p) \/ Crash(p)
       PROVE  Moves /\ DistinctLists' /\ Settles
  <2>1. Fault /\ arrived' = arrived
    BY <1>10 DEF PopFails, ConnectionFails, DatabaseFails, Crash
  <2>2. \A q \in Pods : tasks'[q] \subseteq tasks[q] /\ hand'[q] \subseteq hand[q]
    BY <1>10 DEF PopFails, ConnectionFails, DatabaseFails, Crash, Raise, TypeOK, memory
  <2>3. \A q \in Pods : queue'[q] = queue[q] \/ queue'[q] = [c \in Channels |-> <<>>]
    BY <1>10 DEF PopFails, ConnectionFails, DatabaseFails, Crash, TypeOK, memory
  <2>4. \A c \in Channels : redis'[c] = redis[c] \/ redis'[c] = Left(redis[c], 1)
    <3>1. redis' = redis \/ redis' = [redis EXCEPT ![chan[p]] = Left(@, 1)]
      BY <1>10 DEF PopFails, ConnectionFails, DatabaseFails, Crash, stores
    <3>. QED  BY <3>1 DEF TypeOK
  <2>. QED  BY <1>8, <2>1, <2>2, <2>3, <2>4, DropMoves
<1>11. CASE ExpireAbandoned \/ ExpireEarly \/ UNCHANGED vars
  <2>1. UNCHANGED <<tasks, queue, hand, redis, arrived>>
    BY <1>11 DEF ExpireAbandoned, ExpireEarly, vars, memory, stores, job
  <2>. QED  BY <2>1, NothingMoves, KeepsSettles
<1>12. ASSUME NEW p \in Pods, JobStep(p)
       PROVE  Moves /\ DistinctLists' /\ Settles
  BY <1>3, <1>4, <1>5, <1>6, <1>7, <1>12 DEF JobStep
<1>13. ASSUME NEW p \in Pods, JobFails(p)
       PROVE  Moves /\ DistinctLists' /\ Settles
  BY <1>5, <1>9, <1>10, <1>13 DEF JobFails
<1>. QED  BY <1>1, <1>2, <1>11, <1>12, <1>13 DEF Next

----------------------------------------------------------------------------
(* What is charged.                                                        *)

\* An increment that is charged and not settled is in the batch that is tried
\* again, and was charged by an attempt that failed.
Counted ==
  \A u \in Updates :
    /\ db[u] <= IF u \in doubtful THEN Retries + 1 ELSE 1
    /\ Somewhere(u) /\ db[u] > 0 =>
         \E p \in Pods : /\ u \in hand[p] /\ pc[p] = "commit"
                         /\ \A v \in hand[p] : u[1] <= v[1]
                         /\ db[u] <= tries[p] /\ u \in doubtful

Inv == Places /\ Counted

\* Steps that leave what is being committed alone, or drop it.
LEMMA QuietCounts ==
  ASSUME Inv, Moves, db' = db, doubtful' = doubtful,
         \A p \in Pods : pc[p] = "commit" =>
           \/ /\ pc'[p] = "commit" /\ hand'[p] = hand[p]
              /\ tries'[p] \in {tries[p], tries[p] + 1}
           \/ hand'[p] = {} /\ \A u \in Updates : Stays(u)
  PROVE  Counted'
<1>. SUFFICES ASSUME NEW u \in Updates
              PROVE  /\ db[u] <= IF u \in doubtful THEN Retries + 1 ELSE 1
                     /\ Somewhere(u)' /\ db[u] > 0 =>
                          \E p \in Pods : /\ u \in hand'[p] /\ pc'[p] = "commit"
                                          /\ \A v \in hand'[p] : u[1] <= v[1]
                                          /\ db[u] <= tries'[p] /\ u \in doubtful
  BY DEF Counted
<1>1. db[u] <= IF u \in doubtful THEN Retries + 1 ELSE 1  BY DEF Inv, Counted
<1>2. ASSUME Somewhere(u)', db[u] > 0
      PROVE  \E p \in Pods : /\ u \in hand'[p] /\ pc'[p] = "commit"
                             /\ \A v \in hand'[p] : u[1] <= v[1]
                             /\ db[u] <= tries'[p] /\ u \in doubtful
  <2>1. u \in Known  BY <1>2 DEF Inv, Places, Tracked
  <2>2. Somewhere(u)
    BY <1>2, <2>1 DEF Moves, Stays, Goes, Enters, Somewhere
  <2>3. PICK p \in Pods : /\ u \in hand[p] /\ pc[p] = "commit"
                          /\ \A v \in hand[p] : u[1] <= v[1]
                          /\ db[u] <= tries[p] /\ u \in doubtful
    BY <1>2, <2>2 DEF Inv, Counted
  <2>4. CASE pc'[p] = "commit" /\ hand'[p] = hand[p] /\ tries'[p] \in {tries[p], tries[p] + 1}
    <3>1. db[u] \in Nat /\ tries[p] \in Nat  BY WriterAssumption DEF Inv, Places, TypeOK
    <3>2. db[u] <= tries'[p]  BY <2>3, <2>4, <3>1
    <3>. QED  BY <2>3, <2>4, <3>2
  <2>5. CASE hand'[p] = {} /\ Stays(u)
    <3>1. PICK k \in Kinds, q \in Owners : Where(u, k, q)'  BY <1>2 DEF Somewhere
    <3>2. Where(u, k, q)  BY <2>5, <3>1 DEF Stays
    <3>3. Where(u, "hand", p) /\ "hand" \in Kinds /\ p \in Owners
      BY <2>3 DEF Where, Kinds, Owners
    <3>4. k = "hand" /\ q = p  BY <3>2, <3>3 DEF Inv, Places, OnePlace
    <3>. QED  BY <2>5, <3>1, <3>4 DEF Where
  <2>. QED  BY <2>3, <2>4, <2>5
<1>. QED  BY <1>1, <1>2

\* A transaction of a batch that commits, heard of or not.
LEMMA BatchCounts ==
  ASSUME Inv, Moves, NEW p \in Pods, pc[p] = "commit", NEW t \in Tables, NextTable(p, t),
         AddToTable(Batch(p, t)),
         \A q \in Pods \ {p} : pc'[q] = pc[q] /\ hand'[q] = hand[q] /\ tries'[q] = tries[q],
         \/ /\ doubtful' = doubtful
            /\ hand'[p] \subseteq hand[p] \ Batch(p, t)
            /\ t > NumEntity => hand'[p] = {}
         \/ /\ doubtful' = doubtful \cup Batch(p, t)
            /\ \/ hand'[p] = {}
               \/ pc'[p] = "commit" /\ hand'[p] = hand[p] /\ tries'[p] = tries[p] + 1,
         \A u \in Updates : Stays(u)
  PROVE  Counted'
<1>1. /\ hand \in [Pods -> SUBSET Updates] /\ db \in [Updates -> Nat]
      /\ tries \in [Pods -> 0..Retries] /\ Retries \in Nat
  BY WriterAssumption DEF Inv, Places, TypeOK
<1>2. \A u \in Updates : db'[u] = IF u \in Batch(p, t) THEN db[u] + 1 ELSE db[u]
  BY DEF AddToTable
<1>3. Batch(p, t) \subseteq {u \in hand[p] : u[1] = t}  BY BatchType
<1>4. ASSUME NEW u \in Updates, u \in Batch(p, t)
      PROVE  /\ Somewhere(u) /\ db[u] <= tries[p] /\ (db[u] > 0 => u \in doubtful)
             /\ \A v \in hand[p] : u[1] <= v[1]
  <2>1. u \in hand[p] /\ u[1] = t  BY <1>3, <1>4
  <2>2. Where(u, "hand", p) /\ "hand" \in Kinds /\ p \in Owners
    BY <2>1 DEF Where, Kinds, Owners
  <2>3. Somewhere(u)  BY <2>2 DEF Somewhere
  <2>4. ASSUME db[u] > 0 PROVE db[u] <= tries[p] /\ u \in doubtful
    <3>1. PICK q \in Pods : u \in hand[q] /\ db[u] <= tries[q] /\ u \in doubtful
      BY <2>3, <2>4 DEF Inv, Counted
    <3>2. Where(u, "hand", q) /\ q \in Owners  BY <3>1 DEF Where, Owners
    <3>3. q = p  BY <2>2, <3>2 DEF Inv, Places, OnePlace
    <3>. QED  BY <3>1, <3>3
  <2>5. \A v \in hand[p] : u[1] <= v[1]  BY <2>1 DEF NextTable
  <2>6. db[u] <= tries[p]  BY <1>1, <2>4
  <2>. QED  BY <2>3, <2>4, <2>5, <2>6
<1>5. ASSUME NEW u \in Updates
      PROVE  db'[u] <= IF u \in doubtful' THEN Retries + 1 ELSE 1
  <2>1. db[u] <= IF u \in doubtful THEN Retries + 1 ELSE 1  BY DEF Inv, Counted
  <2>2. CASE u \notin Batch(p, t)  BY <1>1, <1>2, <2>1, <2>2
  <2>3. CASE u \in Batch(p, t)
    <3>1. db'[u] = db[u] + 1 /\ db[u] \in Nat /\ db[u] <= Retries
      BY <1>1, <1>2, <1>4, <2>3
    <3>2. u \notin doubtful' => db[u] = 0  BY <1>1, <1>4, <2>3
    <3>. QED  BY <1>1, <3>1, <3>2
  <2>. QED  BY <2>2, <2>3
<1>6. ASSUME NEW u \in Updates, Somewhere(u)', db'[u] > 0
      PROVE  \E q \in Pods : /\ u \in hand'[q] /\ pc'[q] = "commit"
                             /\ \A v \in hand'[q] : u[1] <= v[1]
                             /\ db'[u] <= tries'[q] /\ u \in doubtful'
  <2>1. PICK k \in Kinds, o \in Owners : Where(u, k, o)' /\ Where(u, k, o)
    BY <1>6 DEF Somewhere, Stays
  <2>2. Somewhere(u)  BY <2>1 DEF Somewhere
  <2>3. \A q \in Pods : u \in hand[q] => u \in hand'[q]
    <3>1. ASSUME NEW q \in Pods, u \in hand[q] PROVE u \in hand'[q]
      <4>1. Where(u, "hand", q) /\ "hand" \in Kinds /\ q \in Owners
        BY <3>1 DEF Where, Kinds, Owners
      <4>2. k = "hand" /\ o = q  BY <2>1, <4>1 DEF Inv, Places, OnePlace
      <4>. QED  BY <2>1, <4>2 DEF Where
    <3>. QED  BY <3>1
  <2>4. CASE u \in Batch(p, t)
    <3>1. u \in hand[p] /\ u \in hand'[p]  BY <1>3, <2>3, <2>4
    <3>2. /\ doubtful' = doubtful \cup Batch(p, t)
          /\ pc'[p] = "commit" /\ hand'[p] = hand[p] /\ tries'[p] = tries[p] + 1
      BY <2>4, <3>1
    <3>3. db'[u] <= tries'[p]  BY <1>1, <1>2, <1>4, <2>4, <3>2
    <3>. QED  BY <1>4, <2>4, <3>1, <3>2, <3>3
  <2>5. CASE u \notin Batch(p, t)
    <3>1. db'[u] = db[u] /\ db[u] > 0  BY <1>2, <1>6, <2>5
    <3>2. PICK q \in Pods : /\ u \in hand[q] /\ pc[q] = "commit"
                            /\ \A v \in hand[q] : u[1] <= v[1]
                            /\ db[u] <= tries[q] /\ u \in doubtful
      BY <2>2, <3>1 DEF Inv, Counted
    <3>3. u \in hand'[q] /\ u \in doubtful'  BY <2>3, <3>2
    <3>4. CASE q # p  BY <3>1, <3>2, <3>3, <3>4
    <3>5. CASE q = p /\ pc'[p] = "commit" /\ hand'[p] = hand[p] /\ tries'[p] = tries[p] + 1
      BY <1>1, <3>1, <3>2, <3>3, <3>5
    <3>6. CASE q = p /\ hand'[p] \subseteq hand[p] \ Batch(p, t) /\ (t > NumEntity => hand'[p] = {})
      <4>1. t <= NumEntity  BY <3>3, <3>6, WriterAssumption DEF Tables
      <4>2. Batch(p, t) = {v \in hand[p] : v[1] = t}  BY <4>1 DEF Batch
      <4>3. PICK v \in hand[p] : v[1] = t  BY DEF NextTable
      <4>4. u[1] <= t /\ t <= u[1]  BY <3>2, <3>6, <4>3 DEF NextTable
      <4>5. u[1] \in Tables  BY ChannelType
      <4>6. u[1] = t  BY <4>4, <4>5, WriterAssumption DEF Tables
      <4>. QED  BY <2>5, <3>2, <3>6, <4>2, <4>6
    <3>. QED  BY <3>3, <3>4, <3>5, <3>6
  <2>. QED  BY <2>4, <2>5
<1>. QED  BY <1>5, <1>6 DEF Counted

LEMMA CountStep ==
  ASSUME Inv, [Next]_vars
  PROVE  Counted'
<1>. TypeOK /\ TypeOK' /\ Moves
  BY TypeStep, MovesStep DEF Inv, Places
<1>1. ASSUME UNCHANGED <<db, doubtful>>,
             NEW p \in Pods, pc[p] # "commit",
             \A q \in Pods \ {p} : pc'[q] = pc[q] /\ hand'[q] = hand[q] /\ tries'[q] = tries[q]
      PROVE  Counted'
  BY <1>1, QuietCounts
<1>2. ASSUME UNCHANGED <<db, doubtful, pc, hand, tries>> PROVE Counted'
  BY <1>2, QuietCounts
<1>3. ASSUME NEW p \in Pods,
             \/ \E r \in Requests : UpdateDatabase(p, r)
             \/ \E u \in Updates : AddUpdate(p, u)
      PROVE  Counted'
  <2>1. UNCHANGED <<db, doubtful, pc, hand, tries>>
    BY <1>3 DEF UpdateDatabase, AddUpdate, stores, job
  <2>. QED  BY <1>2, <2>1
<1>4. ASSUME NEW p \in Pods,
             \/ StartJob(p) \/ Push(p) \/ Acquire(p) \/ CheckOwner(p) \/ Release(p) \/ Delete(p)
             \/ PushFails(p) \/ LockFails(p) \/ PopFails(p)
      PROVE  Counted'
  <2>1. UNCHANGED <<db, doubtful>> /\ pc[p] # "commit"
    BY <1>4 DEF StartJob, Push, Acquire, CheckOwner, Release, Delete, PushFails, LockFails,
                PopFails, stores
  <2>2. \A q \in Pods \ {p} : pc'[q] = pc[q] /\ hand'[q] = hand[q] /\ tries'[q] = tries[q]
    BY <1>4 DEF StartJob, Push, Acquire, CheckOwner, Release, Delete, PushFails, LockFails,
                PopFails, Goto, TypeOK
  <2>. QED  BY <1>1, <2>1, <2>2
<1>5. ASSUME NEW p \in Pods, Fetch(p) \/ Pop(p) PROVE Counted'
  <2>1. UNCHANGED <<db, doubtful>> /\ pc[p] # "commit"  BY <1>5 DEF Fetch, Pop, stores
  <2>2. \A q \in Pods \ {p} : hand'[q] = hand[q] /\ tries'[q] = tries[q]
    BY <1>5 DEF Fetch, Pop, TypeOK
  <2>3. NextChannel(p) \/ Goto(p, "commit") \/ UNCHANGED pc
    BY <1>5 DEF Fetch, Pop, Proceed
  <2>4. \A q \in Pods \ {p} : pc'[q] = pc[q]
    BY <2>3, NextChannelType DEF Goto, TypeOK
  <2>. QED  BY <1>1, <2>1, <2>2, <2>4
<1>6. ASSUME NEW p \in Pods, Commit(p) PROVE Counted'
  <2>1. PICK t \in Tables, rest \in SUBSET hand[p] :
          /\ NextTable(p, t) /\ AddToTable(Batch(p, t))
          /\ rest = IF t <= NumEntity THEN hand[p] \ Batch(p, t) ELSE {}
          /\ hand' = [hand EXCEPT ![p] = rest]
          /\ NextChannel(p) \/ pc' = pc
    BY <1>6 DEF Commit
  <2>2. /\ tries' = [tries EXCEPT ![p] = 0] /\ doubtful' = doubtful /\ pc[p] = "commit"
        /\ UNCHANGED <<arrived, tasks, queue, redis>>
    BY <1>6 DEF Commit, memory
  <2>3. \A q \in Pods \ {p} : pc'[q] = pc[q] /\ hand'[q] = hand[q] /\ tries'[q] = tries[q]
    BY <2>1, <2>2, NextChannelType DEF TypeOK
  <2>4. /\ hand'[p] = rest /\ rest \subseteq hand[p] \ Batch(p, t)
        /\ t > NumEntity => rest = {}
    BY <2>1, WriterAssumption DEF TypeOK, Tables
  <2>5. \A u \in Updates : Stays(u)
    <3>1. \A q \in Pods : hand'[q] \subseteq hand[q]  BY <2>3, <2>4
    <3>. QED  BY <2>2, <3>1, DropMoves DEF Inv
  <2>. QED  BY <2>1, <2>2, <2>3, <2>4, <2>5, BatchCounts
<1>7. ASSUME NEW p \in Pods, ConnectionFails(p) PROVE Counted'
  <2>1. PICK t \in Tables :
          /\ NextTable(p, t)
          /\ \/ db' = db /\ doubtful' = doubtful
             \/ AddToTable(Batch(p, t)) /\ doubtful' = doubtful \cup Batch(p, t)
    BY <1>7 DEF ConnectionFails
  <2>2. /\ pc[p] = "commit"
        /\ UNCHANGED <<arrived, tasks, queue, redis>>
    BY <1>7 DEF ConnectionFails, memory
  <2>3. \/ hand'[p] = {}
        \/ pc'[p] = "commit" /\ hand'[p] = hand[p] /\ tries'[p] = tries[p] + 1
    BY <1>7, <2>2 DEF ConnectionFails, Raise, TypeOK
  <2>4. \A q \in Pods \ {p} : pc'[q] = pc[q] /\ hand'[q] = hand[q] /\ tries'[q] = tries[q]
    BY <1>7, RaiseType DEF ConnectionFails, TypeOK
  <2>5. \A u \in Updates : Stays(u)
    <3>1. \A q \in Pods : hand'[q] \subseteq hand[q]  BY <2>3, <2>4
    <3>. QED  BY <2>2, <3>1, DropMoves DEF Inv
  <2>6. CASE db' = db /\ doubtful' = doubtful
    BY <2>3, <2>4, <2>5, <2>6, QuietCounts
  <2>7. CASE AddToTable(Batch(p, t)) /\ doubtful' = doubtful \cup Batch(p, t)
    BY <2>1, <2>2, <2>3, <2>4, <2>5, <2>7, BatchCounts
  <2>. QED  BY <2>1, <2>6, <2>7
<1>8. ASSUME NEW p \in Pods, DatabaseFails(p) \/ Crash(p) PROVE Counted'
  <2>1. /\ hand' = [hand EXCEPT ![p] = {}] /\ UNCHANGED <<arrived, redis, db, doubtful>>
        /\ \A q \in Pods \ {p} : pc'[q] = pc[q] /\ tries'[q] = tries[q]
    BY <1>8, RaiseType DEF DatabaseFails, Crash, Raise, stores, Goto, TypeOK
  <2>2. \A q \in Pods : hand'[q] \subseteq hand[q] /\ tasks'[q] \subseteq tasks[q]
    BY <1>8, <2>1 DEF DatabaseFails, Crash, memory, TypeOK
  <2>3. \A q \in Pods : queue'[q] = queue[q] \/ queue'[q] = [c \in Channels |-> <<>>]
    BY <1>8 DEF DatabaseFails, Crash, memory, TypeOK
  <2>4. \A u \in Updates : Stays(u)  BY <2>1, <2>2, <2>3, DropMoves DEF Inv
  <2>5. hand'[p] = {} /\ \A q \in Pods \ {p} : hand'[q] = hand[q]  BY <2>1 DEF TypeOK
  <2>. QED  BY <2>1, <2>4, <2>5, QuietCounts
<1>9. CASE ExpireAbandoned \/ ExpireEarly \/ UNCHANGED vars
  <2>1. UNCHANGED <<db, doubtful, pc, hand, tries>>
    BY <1>9 DEF ExpireAbandoned, ExpireEarly, vars, stores, job
  <2>. QED  BY <1>2, <2>1
<1>10. ASSUME NEW p \in Pods, JobStep(p) PROVE Counted'
  BY <1>4, <1>5, <1>6, <1>10 DEF JobStep
<1>11. ASSUME NEW p \in Pods, JobFails(p) PROVE Counted'
  BY <1>4, <1>7, <1>8, <1>11 DEF JobFails
<1>. QED  BY <1>3, <1>9, <1>10, <1>11 DEF Next

LEMMA HandStep ==
  ASSUME TypeOK, HandFree, [Next]_vars
  PROVE  HandFree'
<1>. TypeOK'  BY TypeStep
<1>. useRedis' = useRedis  BY RedisConstant
<1>1. ASSUME UNCHANGED <<pc, hand, chan>> PROVE HandFree'
  BY <1>1 DEF HandFree
<1>2. ASSUME NEW p \in Pods,
             \A q \in Pods \ {p} : pc'[q] = pc[q] /\ hand'[q] = hand[q] /\ chan'[q] = chan[q],
             \/ hand'[p] = {}
             \/ pc'[p] = "push"
             \/ pc'[p] = "commit" /\ hand'[p] \subseteq Of(chan'[p])
             \/ pc'[p] = "fetch" /\ useRedis /\ hand'[p] \subseteq Of(chan'[p])
      PROVE  HandFree'
  BY <1>2 DEF HandFree
<1>3. ASSUME NEW p \in Pods,
             \/ \E r \in Requests : UpdateDatabase(p, r)
             \/ \E u \in Updates : AddUpdate(p, u)
      PROVE  HandFree'
  BY <1>1, <1>3 DEF UpdateDatabase, AddUpdate, job
<1>4. ASSUME NEW p \in Pods, StartJob(p) PROVE HandFree'
  <2>1. hand[p] = {}  BY <1>4 DEF StartJob, HandFree
  <2>2. PICK S : S = IF useRedis THEN UNION {Taken(queue[p][c], FlushCount) : c \in Channels}
                     ELSE hand[p]
    OBVIOUS
  <2>3. /\ chan' = chan
        /\ hand' = [hand EXCEPT ![p] = S]
        /\ \E l \in Labels : pc' = [pc EXCEPT ![p] = l] /\ (S # {} => l = "push")
    <3>1. CASE useRedis
      BY <1>4, <2>2, <3>1 DEF StartJob, Goto, Labels
    <3>2. CASE ~useRedis
      BY <1>4, <2>1, <2>2, <3>2 DEF StartJob, Goto, Labels, TypeOK
    <3>. QED  BY <3>1, <3>2
  <2>. QED  BY <1>2, <2>3 DEF TypeOK
<1>5. ASSUME NEW p \in Pods, Push(p) PROVE HandFree'
  <2>1. PICK c \in Channels :
          /\ hand' = [hand EXCEPT ![p] = @ \ Part(p, c)]
          /\ pc' = [pc EXCEPT ![p] = IF hand[p] = Part(p, c) THEN "acquire" ELSE "push"]
          /\ chan' = chan
    BY <1>5 DEF Push, Goto
  <2>. QED  BY <1>2, <2>1 DEF TypeOK
<1>6. ASSUME NEW p \in Pods,
             Acquire(p) \/ CheckOwner(p) \/ Release(p) \/ Delete(p) \/ LockFails(p)
      PROVE  HandFree'
  <2>1. hand[p] = {} /\ hand' = hand
    BY <1>6 DEF Acquire, CheckOwner, Release, Delete, LockFails, HandFree
  <2>2. \A q \in Pods \ {p} : pc'[q] = pc[q] /\ chan'[q] = chan[q]
    BY <1>6 DEF Acquire, CheckOwner, Release, Delete, LockFails, Goto, TypeOK
  <2>. QED  BY <1>2, <2>1, <2>2
<1>7. ASSUME NEW p \in Pods, Fetch(p) \/ Pop(p) PROVE HandFree'
  <2>1. PICK S : /\ hand' = [hand EXCEPT ![p] = S]
                 /\ S \subseteq Of(chan[p])
                 /\ Proceed(p, S) \/ (UNCHANGED <<pc, chan>> /\ useRedis /\ pc[p] = "fetch")
    <3>1. CASE Fetch(p)
      <4>1. Taken(queue[p][chan[p]], FlushCount) \subseteq Of(chan[p])
        BY Split, WriterAssumption DEF TypeOK
      <4>. QED  BY <3>1, <4>1 DEF Fetch
    <3>2. CASE Pop(p)
      <4>1. Taken(redis[chan[p]], 1) \subseteq Of(chan[p])  BY Split DEF TypeOK
      <4>2. hand[p] \cup Taken(redis[chan[p]], 1) \subseteq Of(chan[p])
        BY <3>2, <4>1 DEF Pop, HandFree
      <4>. QED  BY <3>2, <4>2 DEF Pop
    <3>. QED  BY <1>7, <3>1, <3>2
  <2>2. CASE S = {} /\ NextChannel(p)
    <3>1. \A q \in Pods \ {p} : chan'[q] = chan[q]
      BY <2>2 DEF NextChannel, TypeOK
    <3>. QED  BY <1>2, <2>1, <2>2, <3>1, NextChannelType DEF TypeOK
  <2>3. CASE Goto(p, "commit") /\ UNCHANGED chan
    BY <1>2, <2>1, <2>3 DEF Goto, TypeOK
  <2>4. CASE UNCHANGED <<pc, chan>> /\ useRedis /\ pc[p] = "fetch"
    BY <1>2, <2>1, <2>4 DEF TypeOK
  <2>. QED  BY <2>1, <2>2, <2>3, <2>4 DEF Proceed
<1>8. ASSUME NEW p \in Pods, Commit(p) PROVE HandFree'
  <2>1. PICK rest \in SUBSET hand[p] :
          /\ hand' = [hand EXCEPT ![p] = rest]
          /\ IF rest = {} THEN NextChannel(p) ELSE UNCHANGED <<pc, chan>>
    <3>1. PICK t \in Tables :
            LET rest == IF t <= NumEntity THEN hand[p] \ Batch(p, t) ELSE {}
            IN /\ hand' = [hand EXCEPT ![p] = rest]
               /\ IF rest = {} THEN NextChannel(p) ELSE UNCHANGED <<pc, chan>>
      BY <1>8 DEF Commit
    <3>2. PICK rest \in SUBSET hand[p] :
            rest = IF t <= NumEntity THEN hand[p] \ Batch(p, t) ELSE {}
      OBVIOUS
    <3>. QED  BY <3>1, <3>2
  <2>2. pc[p] = "commit" /\ hand[p] \subseteq Of(chan[p])
    BY <1>8 DEF Commit, HandFree
  <2>3. CASE rest = {}
    <3>1. \A q \in Pods \ {p} : chan'[q] = chan[q]
      BY <2>1, <2>3 DEF NextChannel, TypeOK
    <3>. QED  BY <1>2, <2>1, <2>3, <3>1, NextChannelType DEF TypeOK
  <2>4. CASE rest # {}
    BY <1>2, <2>1, <2>2, <2>4 DEF TypeOK
  <2>. QED  BY <2>3, <2>4
<1>9. ASSUME NEW p \in Pods, PushFails(p) \/ PopFails(p) \/ DatabaseFails(p) \/ Crash(p)
      PROVE  HandFree'
  <2>1. hand' = [hand EXCEPT ![p] = {}]
    BY <1>9 DEF PushFails, PopFails, DatabaseFails, Crash, Raise
  <2>2. \A q \in Pods \ {p} : pc'[q] = pc[q] /\ chan'[q] = chan[q]
    BY <1>9, RaiseType DEF PushFails, PopFails, DatabaseFails, Crash, Raise, Goto, TypeOK
  <2>. QED  BY <1>2, <2>1, <2>2 DEF TypeOK
<1>10. ASSUME NEW p \in Pods, ConnectionFails(p) PROVE HandFree'
  <2>1. CASE tries[p] < Retries
    <3>1. UNCHANGED <<pc, hand, chan>>  BY <1>10, <2>1 DEF ConnectionFails
    <3>. QED  BY <1>1, <3>1
  <2>2. CASE ~(tries[p] < Retries)
    <3>1. Raise(p)  BY <1>10, <2>2 DEF ConnectionFails
    <3>2. /\ hand' = [hand EXCEPT ![p] = {}]
          /\ \A q \in Pods \ {p} : pc'[q] = pc[q] /\ chan'[q] = chan[q]
      BY <3>1, RaiseType DEF Raise, TypeOK
    <3>. QED  BY <1>2, <3>2 DEF TypeOK
  <2>. QED  BY <2>1, <2>2
<1>11. CASE ExpireAbandoned \/ ExpireEarly \/ UNCHANGED vars
  BY <1>1, <1>11 DEF ExpireAbandoned, ExpireEarly, vars, job
<1>12. ASSUME NEW p \in Pods, JobStep(p) PROVE HandFree'
  BY <1>4, <1>5, <1>6, <1>7, <1>8, <1>12 DEF JobStep
<1>13. ASSUME NEW p \in Pods, JobFails(p) PROVE HandFree'
  BY <1>6, <1>9, <1>10, <1>13 DEF JobFails
<1>. QED  BY <1>3, <1>11, <1>12, <1>13 DEF Next

\* A step charges only increments that are somewhere, and each by one.
LEMMA ChargeStep ==
  ASSUME TypeOK, [Next]_vars
  PROVE  \A u \in Updates : db'[u] = db[u] \/ (db'[u] = db[u] + 1 /\ Somewhere(u))
<1>1. ASSUME db' = db PROVE \A u \in Updates : db'[u] = db[u]  BY <1>1
<1>2. ASSUME NEW p \in Pods, NEW t, AddToTable(Batch(p, t))
      PROVE  \A u \in Updates : db'[u] = db[u] \/ (db'[u] = db[u] + 1 /\ Somewhere(u))
  <2>1. \A u \in Updates : db'[u] = IF u \in Batch(p, t) THEN db[u] + 1 ELSE db[u]
    BY <1>2 DEF AddToTable
  <2>2. \A u \in Batch(p, t) : Somewhere(u)
    BY BatchType DEF Somewhere, Where, Kinds, Owners
  <2>. QED  BY <2>1, <2>2
<1>3. \/ db' = db
      \/ \E p \in Pods : Commit(p) \/ ConnectionFails(p)
  BY DEF Next, JobStep, JobFails, vars, UpdateDatabase, AddUpdate, StartJob, Push, Acquire,
         CheckOwner, Fetch, Pop, Release, Delete, PushFails, LockFails, PopFails, DatabaseFails,
         Crash, ExpireAbandoned, ExpireEarly, stores
<1>4. ASSUME NEW p \in Pods, Commit(p) \/ ConnectionFails(p)
      PROVE  db' = db \/ \E t \in Tables : AddToTable(Batch(p, t))
  BY <1>4 DEF Commit, ConnectionFails
<1>. QED  BY <1>1, <1>2, <1>3, <1>4

\* Only update_database adds requests; faults only grow.
LEMMA ArrivedStep ==
  ASSUME TypeOK, [Next]_vars
  PROVE  /\ \/ arrived' = arrived
            \/ \E p \in Pods, r \in Requests : UpdateDatabase(p, r)
         /\ Known \subseteq Known'
         /\ faults' = 0 => faults = 0
<1>1. \/ arrived' = arrived
      \/ \E p \in Pods, r \in Requests : UpdateDatabase(p, r)
  BY DEF Next, JobStep, JobFails, vars, AddUpdate, StartJob, Push, Acquire, CheckOwner, Fetch, Pop,
         Commit, Release, Delete, PushFails, LockFails, PopFails, ConnectionFails,
         DatabaseFails, Crash, ExpireAbandoned, ExpireEarly
<1>2. arrived \subseteq arrived'  BY <1>1 DEF UpdateDatabase
<1>3. faults' = faults \/ faults' = faults + 1
  BY DEF Next, JobStep, JobFails, vars, UpdateDatabase, AddUpdate, StartJob, Push, Acquire,
         CheckOwner, Fetch, Pop, Commit, Release, Delete, PushFails, LockFails, PopFails,
         ConnectionFails, DatabaseFails, Crash, ExpireAbandoned, ExpireEarly, Fault, bounds
<1>4. faults \in Nat  BY WriterAssumption DEF TypeOK
<1>5. faults' = 0 => faults = 0  BY <1>3, <1>4
<1>. QED  BY <1>1, <1>2, <1>5 DEF Known

LEMMA InvInit == Init => Inv
<1>. SUFFICES ASSUME Init PROVE Inv
  OBVIOUS
<1>1. TypeOK  BY TypeInit
<1>2. \A u \in Updates : ~Somewhere(u)
  BY ChannelType, HeldEmpty DEF Init, Somewhere, Where
<1>3. \A u \in Updates : db[u] = 0  BY DEF Init
<1>4. OnePlace  BY <1>2 DEF OnePlace, Somewhere
<1>5. DistinctLists  BY HeldEmpty DEF Init, DistinctLists
<1>6. Tracked  BY <1>2, <1>3 DEF Tracked
<1>7. HandFree  BY DEF Init, HandFree
<1>8. Counted  BY <1>2, <1>3, WriterAssumption DEF Counted
<1>. QED  BY <1>1, <1>4, <1>5, <1>6, <1>7, <1>8 DEF Inv, Places

LEMMA InvStep == Inv /\ [Next]_vars => Inv'
<1>. SUFFICES ASSUME Inv, [Next]_vars PROVE Inv'
  OBVIOUS
<1>1. Places  BY DEF Inv
<1>2. TypeOK /\ TypeOK'  BY <1>1, TypeStep DEF Places
<1>3. Moves /\ DistinctLists'  BY <1>1, MovesStep
<1>4. OnePlace'  BY <1>1, <1>3, OnePlaceStep DEF Places
<1>5. HandFree'  BY <1>1, HandStep DEF Places
<1>6. Tracked'
  <2>. SUFFICES ASSUME NEW u \in Updates, Somewhere(u)' \/ db'[u] > 0 PROVE u \in Known'
    BY DEF Tracked
  <2>1. CASE Somewhere(u)'
    <3>1. Somewhere(u) \/ u \in Known'
      BY <1>3, <2>1 DEF Moves, Stays, Goes, Enters, Somewhere
    <3>. QED  BY <1>1, <1>2, <3>1, ArrivedStep DEF Places, Tracked
  <2>2. CASE db'[u] > 0
    <3>1. db[u] > 0 \/ Somewhere(u)  BY <1>2, <2>2, ChargeStep
    <3>. QED  BY <1>1, <1>2, <3>1, ArrivedStep DEF Places, Tracked
  <2>. QED  BY <2>1, <2>2
<1>7. Counted'  BY CountStep
<1>. QED  BY <1>2, <1>3, <1>4, <1>5, <1>6, <1>7 DEF Inv, Places

LEMMA Invariant == Spec => []Inv
BY InvInit, InvStep, PTL DEF Spec

\* No increment is charged twice, but for transactions that were committed and
\* then failed: at most Retries + 1 times.
THEOREM Charged == Spec => []ChargedOnce
<1>1. Inv => ChargedOnce  BY DEF Inv, Counted, ChargedOnce
<1>. QED  BY <1>1, Invariant, PTL

----------------------------------------------------------------------------
(* What is lost.                                                           *)

Kept == faults = 0 => \A u \in Known : Somewhere(u) \/ db[u] > 0 \/ LeftOut(u)

LEMMA KeptStep == Inv /\ Kept /\ [Next]_vars => Kept'
<1>. SUFFICES ASSUME Inv, Kept, [Next]_vars, faults' = 0, NEW u \in Known'
              PROVE  Somewhere(u)' \/ db'[u] > 0 \/ LeftOut(u)'
  BY DEF Kept
<1>1. TypeOK /\ TypeOK' /\ Settles  BY TypeStep, MovesStep DEF Inv, Places
<1>2. Known' \subseteq Updates
  <2>1. (TypeOK => Known \subseteq Updates)'  BY KnownIs, PTL
  <2>. QED  BY <1>1, <2>1
<1>3. \A v \in Updates : db[v] > 0 => db'[v] > 0
  <2>1. db \in [Updates -> Nat]  BY <1>1 DEF TypeOK
  <2>. QED  BY <1>1, <2>1, ChargeStep
<1>4. CASE Somewhere(u) \/ u \notin Known
  BY <1>1, <1>2, <1>4 DEF Settles
<1>5. CASE u \in Known /\ db[u] > 0
  BY <1>2, <1>3, <1>5
<1>6. CASE u \in Known /\ LeftOut(u)
  <2>1. PICK S \in SUBSET {v \in Updates : v[1] = u[1]} :
          u \in S \ FirstRows(S) /\ \A v \in FirstRows(S) : db[v] > 0
    BY <1>6 DEF LeftOut
  <2>2. FirstRows(S) \subseteq Updates  BY <2>1 DEF FirstRows
  <2>3. \A v \in FirstRows(S) : db'[v] > 0  BY <1>3, <2>1, <2>2
  <2>. QED  BY <1>6, <2>1, <2>3 DEF LeftOut
<1>7. faults = 0  BY <1>1, ArrivedStep
<1>. QED  BY <1>4, <1>5, <1>6, <1>7 DEF Kept

\* Without a fault, nothing is lost but what a full batch of a daily table had
\* no room for.
THEOREM Vanishing == Spec => []NothingVanishes
<1>1. Init => Kept  BY DEF Init, Kept, Known
<1>2. Inv /\ Kept => NothingVanishes
  <2>. SUFFICES ASSUME Inv, Kept, faults = 0, NEW r \in arrived, NEW u \in Charges[r]
                PROVE  u \in InFlight \/ db[u] > 0 \/ LeftOut(u)
    BY DEF NothingVanishes
  <2>1. TypeOK /\ u \in Known  BY DEF Inv, Places, Known
  <2>2. u \in Updates  BY <2>1, KnownIs
  <2>3. Somewhere(u) => u \in InFlight  BY <2>1, <2>2, InFlightIs
  <2>. QED  BY <2>1, <2>3 DEF Kept
<1>. QED  BY <1>1, <1>2, Invariant, KeptStep, PTL DEF Spec

----------------------------------------------------------------------------
(* The ledger.                                                             *)

LEMMA LedgerInit == Init => Ledger!Init
<1>. SUFFICES ASSUME Init PROVE Ledger!Init
  OBVIOUS
<1>1. Inv  BY InvInit
<1>2. \A u \in Updates : ~Somewhere(u)
  BY ChannelType, HeldEmpty DEF Init, Somewhere, Where
<1>3. InFlight = {}  BY <1>1, <1>2, InFlightIs DEF Inv, Places
<1>. QED  BY <1>3 DEF Ledger!Init, Init

LEMMA LedgerStep == Inv /\ [Next]_vars => [Ledger!Next]_(Ledger!ledger)
<1>. SUFFICES ASSUME Inv, [Next]_vars PROVE Ledger!Next
  OBVIOUS
<1>1. TypeOK /\ TypeOK' /\ Inv' /\ Places
  BY TypeStep, InvStep DEF Inv, Places
<1>2. /\ \A u : u \in InFlight <=> u \in Updates /\ Somewhere(u)
      /\ \A u : u \in InFlight' <=> u \in Updates /\ Somewhere(u)'
  <2>1. (TypeOK => \A u : u \in InFlight <=> u \in Updates /\ Somewhere(u))'
    BY InFlightIs, PTL
  <2>. QED  BY <1>1, <2>1, InFlightIs
<1>3. CASE \E p \in Pods, r \in Requests : UpdateDatabase(p, r)
  <2>1. PICK p \in Pods, r \in Requests : UpdateDatabase(p, r)  BY <1>3
  <2>2. Moves /\ Keeps  BY <1>1, <2>1, UpdateDatabaseMoves
  <2>3. Known \subseteq Known' /\ Known' \subseteq Updates
    <3>1. (TypeOK => Known \subseteq Updates)'  BY KnownIs, PTL
    <3>. QED  BY <1>1, <3>1, ArrivedStep
  <2>4. \A u \in Updates : Somewhere(u)' <=> Somewhere(u) \/ u \in Known' \ Known
    BY <2>2 DEF Moves, Stays, Goes, Enters, Somewhere, Keeps
  <2>5. InFlight' = InFlight \cup (Known' \ Known)  BY <1>2, <2>3, <2>4
  <2>6. db' = db  BY <2>1 DEF UpdateDatabase, stores
  <2>. QED  BY <2>3, <2>5, <2>6 DEF Ledger!Next, Ledger!Owe, Known
<1>4. CASE arrived' = arrived
  <2>1. Moves /\ Known' = Known  BY <1>1, <1>4, MovesStep DEF Known
  <2>2. InFlight' \subseteq InFlight
    BY <1>2, <2>1 DEF Moves, Stays, Goes, Enters, Somewhere
  <2>3. db' \in [Updates -> 0..(Retries + 1)]
    <3>1. db' \in [Updates -> Nat]  BY <1>1 DEF TypeOK
    <3>2. \A u \in Updates : db'[u] <= Retries + 1
      <4>1. \A u \in Updates : db'[u] <= IF u \in doubtful' THEN Retries + 1 ELSE 1
        BY <1>1 DEF Inv, Counted
      <4>. QED  BY <3>1, <4>1, WriterAssumption
    <3>. QED  BY <3>1, <3>2, WriterAssumption
  <2>4. \A u \in Updates : db'[u] = db[u] \/ (u \in InFlight /\ db'[u] = db[u] + 1)
    BY <1>1, <1>2, ChargeStep
  <2>. QED  BY <2>1, <2>2, <2>3, <2>4 DEF Ledger!Next, Ledger!Settle, Known
<1>. QED  BY <1>1, <1>3, <1>4, ArrivedStep

\* The writer implements the ledger: only what is owed is charged, what was
\* settled is not owed again, and nothing is charged more than Retries + 1 times.
THEOREM Refinement == Spec => KeepsLedger
BY Invariant, LedgerInit, LedgerStep, PTL DEF Spec, KeepsLedger, Ledger!Spec
=============================================================================
