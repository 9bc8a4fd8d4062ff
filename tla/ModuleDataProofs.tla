-------------------------- MODULE ModuleDataProofs --------------------------
(***************************************************************************)
(* Theorems about what modules are given: the values that flow to them     *)
(* (Flows) and the configs they are set to (Definitions).                  *)
(*                                                                         *)
(*   FlowInvHolds            the inductive invariant of the flows, for any *)
(*                           values, any depth of nesting, any configs of  *)
(*                           the join and any number of flows              *)
(*   JoinsWhatBelongsHolds   what is joined is of one item                 *)
(*   SpecInvHolds            the inductive invariant of the specs, for any *)
(*                           builds and any definitions they have, any     *)
(*                           configs and any number of loads and edits     *)
(*   EditsSurviveHolds       what was set last is what the module has      *)
(***************************************************************************)
EXTENDS Flows, Definitions, FiniteSetTheorems, SequenceTheorems, WellFoundedInduction, TLAPS

-----------------------------------------------------------------------------
(* Numbers.                                                                 *)

\* A set of natural numbers has a least one.
LEMMA LeastOf ==
    ASSUME NEW T \in SUBSET Nat, T # {}
    PROVE  \E x \in T : \A y \in T : x <= y
<1> DEFINE Before == {ss \in Nat \X Nat : ss[1] < ss[2]}
<1>1. IsWellFoundedOn(Before, Nat)
  BY NatLessThanWellFounded DEF OpToRel
<1>2. \E x \in T : \A y \in T : ~ (<<y, x>> \in Before)
  <2>. HIDE DEF Before
  <2>. QED
    BY <1>1, WFMin
<1>3. \A x, y \in T : ~ (<<y, x>> \in Before) => x <= y
  OBVIOUS
<1>. QED
  BY <1>2, <1>3

\* What is so of 0, and of each number if it is so of the one before, is so of
\* all: there is no least exception.
LEMMA NoException ==
    ASSUME NEW holds, 0 \in holds, \A k \in Nat : k \in holds => k + 1 \in holds
    PROVE  Nat \subseteq holds
<1> DEFINE fails == {k \in Nat : k \notin holds}
<1>1. fails = {}
  <2> SUFFICES ASSUME fails # {} PROVE FALSE
    OBVIOUS
  <2>1. PICK k \in fails : \A j \in fails : k <= j
    <3>1. fails \in SUBSET Nat
      OBVIOUS
    <3>. HIDE DEF fails
    <3>. QED
      BY <3>1, LeastOf
  <2>2. k # 0 /\ k - 1 \in Nat /\ k - 1 \notin fails
    BY <2>1
  <2>3. k - 1 \in holds /\ (k - 1) + 1 = k
    BY <2>1, <2>2
  <2>. QED
    BY <2>1, <2>2, <2>3
<1>. QED
  BY <1>1

-----------------------------------------------------------------------------
(* What a place in an array leads to.                                       *)

\* An item for each place on the way to the n-th of the indices.
Along(v, indices, n, at) ==
    at = [k \in 0 .. n |-> IF k = 0 THEN v ELSE ItemsOf(at[k - 1])[indices[k][1] + 1]]

\* There is one for any indices.
LEMMA WayExists ==
    ASSUME NEW v, NEW indices
    PROVE  \A n \in Nat : \E at : Along(v, indices, n, at)
<1> DEFINE holds == {n \in Nat : \E at : Along(v, indices, n, at)}
<1>1. 0 \in holds
  <2>1. Along(v, indices, 0, [k \in 0 .. 0 |-> v])
    BY DEF Along
  <2>. QED
    BY <2>1
<1>2. ASSUME NEW n \in Nat, n \in holds PROVE n + 1 \in holds
  <2>1. PICK at : Along(v, indices, n, at)
    BY <1>2
  <2> DEFINE more == [k \in 0 .. n + 1 |->
                         IF k <= n THEN at[k] ELSE ItemsOf(at[n])[indices[n + 1][1] + 1]]
  <2>2. \A k \in 0 .. n : at[k] = IF k = 0 THEN v ELSE ItemsOf(at[k - 1])[indices[k][1] + 1]
    BY <2>1 DEF Along
  <2>3. \A k \in 0 .. n : more[k] = at[k]
    OBVIOUS
  <2>4. ASSUME NEW k \in 0 .. n + 1
        PROVE  more[k] = IF k = 0 THEN v ELSE ItemsOf(more[k - 1])[indices[k][1] + 1]
    <3>1. CASE k = n + 1
      <4>1. k # 0 /\ k - 1 = n /\ n \in 0 .. n /\ more[k] = ItemsOf(at[n])[indices[n + 1][1] + 1]
        BY <3>1
      <4>2. more[k - 1] = at[n]
        BY <2>3, <4>1
      <4>. HIDE DEF more
      <4>. QED
        BY <3>1, <4>1, <4>2
    <3>2. CASE k \in 0 .. n /\ k # 0
      <4>1. k - 1 \in 0 .. n
        BY <3>2
      <4>2. more[k] = at[k] /\ more[k - 1] = at[k - 1]
        BY <2>3, <3>2, <4>1
      <4>. HIDE DEF more
      <4>. QED
        BY <2>2, <3>2, <4>2
    <3>3. CASE k = 0
      BY <2>2, <3>3
    <3>. QED
      BY <3>1, <3>2, <3>3
  <2>5. Along(v, indices, n + 1, more)
    <3>1. more = [k \in 0 .. n + 1 |-> more[k]]
      OBVIOUS
    <3>. HIDE DEF more
    <3>. QED
      BY <2>4, <3>1 DEF Along
  <2>. QED
    BY <2>5
<1>. QED
  <2>. HIDE DEF holds
  <2>1. Nat \subseteq holds
    BY <1>1, <1>2, NoException
  <2>. QED
    BY <2>1 DEF holds

\* Ways that lead by the same indices are the same as far as they go.
LEMMA WaysAgree ==
    ASSUME NEW v, NEW one, NEW other, NEW n \in Nat, NEW m \in Nat, n <= m, NEW at, NEW to,
           Along(v, one, n, at), Along(v, other, m, to), \A k \in 1 .. n : one[k] = other[k]
    PROVE  \A k \in 0 .. n : at[k] = to[k]
<1> DEFINE holds == {k \in Nat : k <= n => at[k] = to[k]}
<1>0. /\ \A k \in 0 .. n : at[k] = IF k = 0 THEN v ELSE ItemsOf(at[k - 1])[one[k][1] + 1]
      /\ \A k \in 0 .. m : to[k] = IF k = 0 THEN v ELSE ItemsOf(to[k - 1])[other[k][1] + 1]
  BY DEF Along
<1>1. 0 \in holds
  BY <1>0
<1>2. ASSUME NEW k \in Nat, k \in holds PROVE k + 1 \in holds
  <2> SUFFICES ASSUME k + 1 <= n PROVE at[k + 1] = to[k + 1]
    OBVIOUS
  <2>1. /\ k + 1 \in 0 .. n /\ k + 1 \in 0 .. m /\ k + 1 # 0 /\ k + 1 \in 1 .. n
        /\ (k + 1) - 1 = k /\ at[k] = to[k]
    BY <1>2
  <2>2. at[k + 1] = ItemsOf(at[k])[one[k + 1][1] + 1]
    BY <1>0, <2>1
  <2>3. to[k + 1] = ItemsOf(to[k])[other[k + 1][1] + 1]
    BY <1>0, <2>1
  <2>. QED
    BY <2>1, <2>2, <2>3
<1>. QED
  <2>1. Nat \subseteq holds
    <3>. HIDE DEF holds
    <3>. QED
      BY <1>1, <1>2, NoException
  <2>. QED
    BY <2>1

\* One index more leads to an item of the item.
LEMMA ItemOfItem ==
    ASSUME NEW S, NEW v, NEW indices \in Seq(S), NEW p \in S
    PROVE  ItemAt(v, Append(indices, p)) = ItemsOf(ItemAt(v, indices))[p[1] + 1]
<1> DEFINE n == Len(indices)
           longer == Append(indices, p)
           at == CHOOSE at : Along(v, indices, n, at)
           to == CHOOSE to : Along(v, longer, n + 1, to)
<1>1. n \in Nat /\ Len(longer) = n + 1 /\ longer[n + 1] = p /\ \A k \in 1 .. n : indices[k] = longer[k]
  OBVIOUS
<1>2. Along(v, indices, n, at) /\ Along(v, longer, n + 1, to)
  <2>1. n \in Nat /\ n + 1 \in Nat
    BY <1>1
  <2>2. \E f : Along(v, indices, n, f)
    BY <2>1, WayExists
  <2>3. \E f : Along(v, longer, n + 1, f)
    BY <2>1, WayExists
  <2>. QED
    BY <2>2, <2>3
<1>3. ItemAt(v, indices) = at[n]
  BY DEF ItemAt, Along
<1>4. ItemAt(v, longer) = to[n + 1]
  BY <1>1 DEF ItemAt, Along
<1> HIDE DEF n, longer, at, to
<1>5. at[n] = to[n]
  <2>1. n + 1 \in Nat /\ n <= n + 1 /\ n \in 0 .. n /\ n \in Nat
    BY <1>1
  <2> DEFINE m == n + 1
  <2>2. m \in Nat /\ n <= m /\ Along(v, longer, m, to) /\ \A k \in 1 .. n : indices[k] = longer[k]
    BY <1>1, <1>2, <2>1
  <2> HIDE DEF m
  <2>3. \A k \in 0 .. n : at[k] = to[k]
    BY <1>2, <2>1, <2>2, WaysAgree, SMTT(30)
  <2>. QED
    BY <2>1, <2>3
<1>6. to[n + 1] = ItemsOf(to[n])[p[1] + 1]
  <2>1. n + 1 \in 0 .. n + 1 /\ n + 1 # 0 /\ (n + 1) - 1 = n
    BY <1>1
  <2>2. to[n + 1] = ItemsOf(to[(n + 1) - 1])[longer[n + 1][1] + 1]
    BY <1>2, <2>1 DEF Along
  <2>. QED
    BY <1>1, <2>1, <2>2
<1>. QED
  BY <1>3, <1>4, <1>5, <1>6 DEF longer

-----------------------------------------------------------------------------
(* Sequences of sequences.                                                  *)

\* The first n sequences, one after the other, at each of the places.
Flattening(ss, n, flat) ==
    flat = [i \in 1 .. n |-> IF i = 1 THEN ss[i] ELSE flat[i - 1] \o ss[i]]

\* However many sequences there are, something is at each of the places.
LEMMA FlatteningExists ==
    ASSUME NEW ss
    PROVE  \A n \in Nat : \E flat : Flattening(ss, n, flat)
<1> DEFINE holds == {n \in Nat : \E flat : Flattening(ss, n, flat)}
<1>1. 0 \in holds
  <2>1. Flattening(ss, 0, [i \in 1 .. 0 |-> ss[i]])
    BY DEF Flattening
  <2>. QED
    BY <2>1
<1>2. ASSUME NEW n \in Nat, n \in holds PROVE n + 1 \in holds
  <2>1. PICK flat : Flattening(ss, n, flat)
    BY <1>2
  <2> DEFINE last == IF n = 0 THEN ss[1] ELSE flat[n] \o ss[n + 1]
             more == [i \in 1 .. n + 1 |-> IF i <= n THEN flat[i] ELSE last]
  <2>2. \A i \in 1 .. n : flat[i] = IF i = 1 THEN ss[i] ELSE flat[i - 1] \o ss[i]
    BY <2>1 DEF Flattening
  <2> HIDE DEF last
  <2>3. (\A i \in 1 .. n : more[i] = flat[i]) /\ more[n + 1] = last
    OBVIOUS
  <2>4. ASSUME NEW i \in 1 .. n + 1
        PROVE  more[i] = IF i = 1 THEN ss[i] ELSE more[i - 1] \o ss[i]
    <3>1. CASE i = n + 1 /\ n # 0
      <4>1. i # 1 /\ i - 1 = n /\ n \in 1 .. n
        BY <3>1
      <4>2. more[i] = last /\ more[i - 1] = flat[n]
        BY <2>3, <3>1, <4>1
      <4>. HIDE DEF more
      <4>. QED
        BY <3>1, <4>1, <4>2 DEF last
    <3>2. CASE i = n + 1 /\ n = 0
      <4>1. i = 1 /\ more[i] = last
        BY <2>3, <3>2
      <4>. HIDE DEF more
      <4>. QED
        BY <3>2, <4>1 DEF last
    <3>3. CASE i \in 1 .. n /\ i # 1
      <4>1. i - 1 \in 1 .. n
        BY <3>3
      <4>2. more[i] = flat[i] /\ more[i - 1] = flat[i - 1]
        BY <2>3, <3>3, <4>1
      <4>. HIDE DEF more
      <4>. QED
        BY <2>2, <3>3, <4>2
    <3>4. CASE i \in 1 .. n /\ i = 1
      <4>1. more[i] = flat[i]
        BY <2>3, <3>4
      <4>. HIDE DEF more
      <4>. QED
        BY <2>2, <3>4, <4>1
    <3>. QED
      BY <3>1, <3>2, <3>3, <3>4
  <2>5. Flattening(ss, n + 1, more)
    <3>1. more = [i \in 1 .. n + 1 |-> more[i]]
      OBVIOUS
    <3>. HIDE DEF more
    <3>. QED
      BY <2>4, <3>1 DEF Flattening
  <2>. QED
    BY <2>5
<1>. QED
  <2>. HIDE DEF holds
  <2>1. Nat \subseteq holds
    BY <1>1, <1>2, NoException
  <2>. QED
    BY <2>1 DEF holds

FlatOf(ss, n) == CHOOSE flat : Flattening(ss, n, flat)

\* The one that is chosen is one.
LEMMA FlatChosen ==
    ASSUME NEW ss, NEW n, \E flat : Flattening(ss, n, flat)
    PROVE  Flattening(ss, n, FlatOf(ss, n))
BY DEF FlatOf

\* Sequences over a set make one.
LEMMA FlatIsSeq ==
    ASSUME NEW S, NEW ss \in Seq(Seq(S))
    PROVE  FlattenSeq(ss) \in Seq(S)
<1> DEFINE n == Len(ss)
           flat == FlatOf(ss, n)
<1>1. n \in Nat /\ \A i \in 1 .. n : ss[i] \in Seq(S)
  OBVIOUS
<1>2. Flattening(ss, n, flat)
  <2>1. \E f : Flattening(ss, n, f)
    BY <1>1, FlatteningExists
  <2>. QED
    BY <2>1, FlatChosen
<1>3. n # 0 => FlattenSeq(ss) = flat[n]
  BY DEF FlattenSeq, FlatOf, Flattening
<1>4. CASE n = 0
  <2>1. FlattenSeq(ss) = ss
    BY <1>4 DEF FlattenSeq
  <2>2. ss = <<>>
    BY <1>4
  <2>3. <<>> \in Seq(S)
    OBVIOUS
  <2>. QED
    BY <2>1, <2>2, <2>3, Zenon
<1>5. CASE n # 0
  <2> HIDE DEF n, flat
  <2> DEFINE holds == {k \in Nat : k + 1 <= n => flat[k + 1] \in Seq(S)}
  <2>0. \A i \in 1 .. n : flat[i] = IF i = 1 THEN ss[i] ELSE flat[i - 1] \o ss[i]
    BY <1>2 DEF Flattening
  <2>1. 0 \in holds
    BY <1>1, <1>5, <2>0
  <2>2. ASSUME NEW k \in Nat, k \in holds PROVE k + 1 \in holds
    <3> SUFFICES ASSUME k + 2 <= n PROVE flat[k + 2] \in Seq(S)
      BY <1>1
    <3>1. /\ k + 2 \in 1 .. n /\ k + 2 # 1 /\ (k + 2) - 1 = k + 1
          /\ flat[k + 1] \in Seq(S) /\ ss[k + 2] \in Seq(S)
      BY <1>1, <2>2
    <3>2. flat[k + 2] = flat[k + 1] \o ss[k + 2]
      BY <2>0, <3>1
    <3>. QED
      BY <3>1, <3>2
  <2>3. Nat \subseteq holds
    <3>. HIDE DEF holds
    <3>. QED
      BY <2>1, <2>2, NoException
  <2>4. n - 1 \in Nat /\ (n - 1) + 1 = n
    BY <1>1, <1>5
  <2>. QED
    BY <1>3, <1>5, <2>3, <2>4
<1>. QED
  BY <1>4, <1>5

-----------------------------------------------------------------------------
(* Map.                                                                     *)

Frame      == [name : {"map"}, data : Nat \X Nat]
Fresh(id)  == [id : {id}, vars : {<<>>}, frames : Seq(Frame)]

\* The messages about an item of v: the frames say which.
About(id, v) ==
    {m \in [ctx : Fresh(id), value : Carried] : m.value = ItemAt(v, MapFrameIndices(m.ctx))}

\* There are n numbers up to n.
LEMMA CountUpTo ==
    ASSUME NEW n \in Nat
    PROVE  Cardinality(1 .. n) = n
<1>1. Cardinality(1 .. n) = IF 1 > n THEN 0 ELSE n - 1 + 1
  <2>1. 1 \in Int /\ n \in Int
    OBVIOUS
  <2>. QED
    BY <2>1, FS_Interval
<1>. QED
  BY <1>1

\* Of a sequence that is all in a set everything is left.
LEMMA AllWithin ==
    ASSUME NEW S, NEW s \in Seq(S), NEW T, \A i \in 1 .. Len(s) : s[i] \in T
    PROVE  Within(s, T) = s
<1> DEFINE kept    == {i \in DOMAIN s : s[i] \in T}
           rank(i) == Cardinality({j \in kept : j <= i})
<1>1. kept = 1 .. Len(s) /\ Len(s) \in Nat
  OBVIOUS
<1>2. Cardinality(kept) = Len(s)
  <2>. HIDE DEF kept
  <2>. QED
    BY <1>1, CountUpTo
<1>3. ASSUME NEW i \in 1 .. Len(s) PROVE rank(i) = i
  <2>1. {j \in kept : j <= i} = 1 .. i
    BY <1>1
  <2>2. Cardinality(1 .. i) = i
    BY <1>1, CountUpTo
  <2>. QED
    BY <2>1, <2>2
<1>4. Within(s, T) = [k \in 1 .. Cardinality(kept) |-> s[CHOOSE i \in kept : rank(i) = k]]
  BY DEF Within
<1>5. ASSUME NEW k \in 1 .. Len(s) PROVE s[CHOOSE i \in kept : rank(i) = k] = s[k]
  <2>1. k \in kept /\ rank(k) = k /\ \A i \in kept : rank(i) = i
    BY <1>1, <1>3
  <2>. HIDE DEF kept, rank
  <2>. QED
    BY <2>1
<1>. HIDE DEF kept, rank
<1>6. Within(s, T) = [k \in 1 .. Len(s) |-> s[k]]
  BY <1>2, <1>4, <1>5
<1>. QED
  BY <1>6

\* So the indices of a context are what its frames hold.
LEMMA IndicesAre ==
    ASSUME NEW c, c.frames \in Seq(Frame)
    PROVE  /\ MapFrameIndices(c) = [i \in 1 .. Len(c.frames) |-> c.frames[i].data]
           /\ MapFrameIndices(c) \in Seq(Nat \X Nat)
<1> DEFINE maps == {f \in Range(c.frames) : f.name = "map"}
<1>1. \A i \in 1 .. Len(c.frames) : c.frames[i] \in maps
  <2>1. \A i \in 1 .. Len(c.frames) : i \in DOMAIN c.frames /\ c.frames[i] \in Frame
    OBVIOUS
  <2>. QED
    BY <2>1 DEF Range, Frame
<1>2. Within(c.frames, maps) = c.frames
  <2>. HIDE DEF maps
  <2>. QED
    BY <1>1, AllWithin
<1>3. MapFrameIndices(c) = [i \in DOMAIN c.frames |-> c.frames[i].data]
  BY <1>2 DEF MapFrameIndices
<1>4. DOMAIN c.frames = 1 .. Len(c.frames) /\ \A i \in 1 .. Len(c.frames) : c.frames[i].data \in Nat \X Nat
  <2>1. \A i \in 1 .. Len(c.frames) : c.frames[i] \in Frame
    OBVIOUS
  <2>2. \A f \in Frame : f.data \in Nat \X Nat
    BY DEF Frame
  <2>. QED
    BY <2>1, <2>2
<1>. QED
  BY <1>3, <1>4

\* A Map adds the place of the item to them.
LEMMA PushAddsPlace ==
    ASSUME NEW id, NEW c \in Fresh(id), NEW i \in Nat, NEW n \in Nat
    PROVE  /\ PushFrame(c, "map", <<i, n>>) \in Fresh(id)
           /\ MapFrameIndices(PushFrame(c, "map", <<i, n>>)) = Append(MapFrameIndices(c), <<i, n>>)
<1> DEFINE frame  == [name |-> "map", data |-> <<i, n>>]
           pushed == PushFrame(c, "map", <<i, n>>)
<1>1. frame \in Frame /\ frame.data = <<i, n>>
  BY DEF Frame
<1>2. c.frames \in Seq(Frame) /\ pushed.frames = Append(c.frames, frame) /\ pushed \in Fresh(id)
  <2>1. c.frames \in Seq(Frame) /\ DOMAIN c = {"id", "vars", "frames"}
    BY DEF Fresh
  <2>2. pushed = [c EXCEPT !.frames = Append(c.frames, frame)]
    BY DEF PushFrame
  <2>. HIDE DEF frame, pushed
  <2>3. Append(c.frames, frame) \in Seq(Frame)
    BY <1>1, <2>1
  <2>4. pushed.frames = Append(c.frames, frame) /\ pushed \in Fresh(id)
    BY <2>1, <2>2, <2>3 DEF Fresh
  <2>. QED
    BY <2>1, <2>4
<1>. HIDE DEF frame, pushed
<1>3. pushed.frames \in Seq(Frame)
  BY <1>1, <1>2
<1>4. /\ MapFrameIndices(c) = [k \in 1 .. Len(c.frames) |-> c.frames[k].data]
      /\ MapFrameIndices(c) \in Seq(Nat \X Nat)
  BY <1>2, IndicesAre
<1>5. MapFrameIndices(pushed) = [k \in 1 .. Len(pushed.frames) |-> pushed.frames[k].data]
  BY <1>3, IndicesAre
<1>6. /\ Len(pushed.frames) = Len(c.frames) + 1
      /\ \A k \in 1 .. Len(c.frames) + 1 : pushed.frames[k] = IF k <= Len(c.frames) THEN c.frames[k] ELSE frame
  BY <1>1, <1>2
<1>7. MapFrameIndices(pushed) = Append(MapFrameIndices(c), <<i, n>>)
  BY <1>1, <1>2, <1>4, <1>5, <1>6
<1>. QED
  BY <1>2, <1>7 DEF pushed

\* A Map takes a message about an item to messages about the items of it.
LEMMA MapOutIsAbout ==
    ASSUME NEW id, NEW v, NEW m \in About(id, v)
    PROVE  MapOut(m) \in Seq(About(id, v))
<1> DEFINE items == IF IsItems(m.value) THEN m.value[2] ELSE <<m.value>>
           n     == Len(items)
<1>1. /\ m \in [ctx : Fresh(id), value : Carried] /\ m.ctx \in Fresh(id) /\ m.value \in Carried
      /\ m.value = ItemAt(v, MapFrameIndices(m.ctx))
  BY DEF About
<1>2. items \in Seq(Carried) /\ items = ItemsOf(m.value)
  BY <1>1, FlowsAssumption DEF ItemsOf
<1>3. MapOut(m) = [i \in DOMAIN items |-> Carry(PushMapFrame(m.ctx, i - 1, n)[1], items[i])]
  BY DEF MapOut
<1>. HIDE DEF items
<1>4. DOMAIN items = 1 .. n /\ n \in Nat
  BY <1>2
<1>. HIDE DEF n
<1>5. ASSUME NEW i \in 1 .. n
      PROVE  Carry(PushMapFrame(m.ctx, i - 1, n)[1], items[i]) \in About(id, v)
  <2> DEFINE k == i - 1
  <2>1. k \in Nat /\ n # 0 /\ ~ (k >= n) /\ items[i] \in Carried
    BY <1>2, <1>4
  <2>. HIDE DEF k
  <2>2. PushMapFrame(m.ctx, k, n)[1] = PushFrame(m.ctx, "map", <<k, n>>)
    BY <2>1 DEF PushMapFrame, Some
  <2>3. PushFrame(m.ctx, "map", <<k, n>>) \in Fresh(id)
    BY <1>1, <1>4, <2>1, PushAddsPlace
  <2>4. MapFrameIndices(PushFrame(m.ctx, "map", <<k, n>>)) = Append(MapFrameIndices(m.ctx), <<k, n>>)
    BY <1>1, <1>4, <2>1, PushAddsPlace
  <2>5. MapFrameIndices(m.ctx) \in Seq(Nat \X Nat)
    BY <1>1, IndicesAre DEF Fresh
  <2> DEFINE place == <<k, n>>
  <2>6. place \in Nat \X Nat /\ place[1] = k
    BY <1>4, <2>1
  <2>7. ItemAt(v, Append(MapFrameIndices(m.ctx), place)) = ItemsOf(ItemAt(v, MapFrameIndices(m.ctx)))[place[1] + 1]
    <3> DEFINE S == Nat \X Nat
               indices == MapFrameIndices(m.ctx)
    <3>1. indices \in Seq(S) /\ place \in S
      BY <2>5, <2>6
    <3>. HIDE DEF place, S, indices
    <3>2. ItemAt(v, Append(indices, place)) = ItemsOf(ItemAt(v, indices))[place[1] + 1]
      BY <3>1, ItemOfItem
    <3>. QED
      BY <3>2 DEF indices
  <2>8. k + 1 = i
    BY DEF k
  <2>9. ItemAt(v, MapFrameIndices(PushFrame(m.ctx, "map", <<k, n>>))) = items[i]
    BY <1>1, <1>2, <2>4, <2>6, <2>7, <2>8
  <2>10. Carry(PushFrame(m.ctx, "map", <<k, n>>), items[i]) \in About(id, v)
    BY <2>1, <2>3, <2>9 DEF About, Carry
  <2>. QED
    BY <2>2, <2>10 DEF k
<1>. QED
  BY <1>3, <1>4, <1>5

\* One Map takes messages about items to messages about items.
LEMMA MapIsAbout ==
    ASSUME NEW id, NEW v, NEW ms \in Seq(About(id, v))
    PROVE  FlattenSeq([i \in DOMAIN ms |-> MapOut(ms[i])]) \in Seq(About(id, v))
<1> DEFINE S  == About(id, v)
           ss == [i \in DOMAIN ms |-> MapOut(ms[i])]
<1>1. \A i \in DOMAIN ms : MapOut(ms[i]) \in Seq(S)
  <2>1. \A i \in DOMAIN ms : ms[i] \in About(id, v)
    OBVIOUS
  <2>. QED
    BY <2>1, MapOutIsAbout
<1>2. DOMAIN ms = 1 .. Len(ms) /\ Len(ms) \in Nat
  OBVIOUS
<1>. HIDE DEF S
<1>3. ss \in Seq(Seq(S))
  BY <1>1, <1>2
<1>. HIDE DEF ss
<1>4. FlattenSeq(ss) \in Seq(S)
  BY <1>3, FlatIsSeq
<1>. QED
  BY <1>4 DEF S, ss

\* What the messages are behind each of n Maps.
Mapping(ms, n, maps) ==
    maps = [k \in 0 .. n |->
              IF k = 0 THEN ms ELSE FlattenSeq([i \in DOMAIN maps[k - 1] |-> MapOut(maps[k - 1][i])])]

MapsOf(ms, n) == CHOOSE maps : Mapping(ms, n, maps)

\* They are something, however many Maps there are.
LEMMA MappingExists ==
    ASSUME NEW ms
    PROVE  \A n \in Nat : \E maps : Mapping(ms, n, maps)
<1> DEFINE holds == {n \in Nat : \E maps : Mapping(ms, n, maps)}
           Out(s) == FlattenSeq([i \in DOMAIN s |-> MapOut(s[i])])
<1>0. \A n, maps : Mapping(ms, n, maps) <=> maps = [k \in 0 .. n |-> IF k = 0 THEN ms ELSE Out(maps[k - 1])]
  BY DEF Mapping
<1>. HIDE DEF Out
<1>1. 0 \in holds
  <2> DEFINE none == [k \in 0 .. 0 |-> ms]
  <2>1. none = [k \in 0 .. 0 |-> IF k = 0 THEN ms ELSE Out(none[k - 1])]
    <3>1. \A k \in 0 .. 0 : k = 0
      OBVIOUS
    <3>. QED
      BY <3>1
  <2>. HIDE DEF none
  <2>2. Mapping(ms, 0, none)
    BY <1>0, <2>1
  <2>. QED
    BY <2>2
<1>2. ASSUME NEW n \in Nat, n \in holds PROVE n + 1 \in holds
  <2>1. PICK maps : Mapping(ms, n, maps)
    BY <1>2
  <2> DEFINE more == [k \in 0 .. n + 1 |-> IF k <= n THEN maps[k] ELSE Out(maps[n])]
  <2>2. \A k \in 0 .. n : maps[k] = IF k = 0 THEN ms ELSE Out(maps[k - 1])
    BY <1>0, <2>1
  <2>3. \A k \in 0 .. n : more[k] = maps[k]
    OBVIOUS
  <2>4. ASSUME NEW k \in 0 .. n + 1
        PROVE  more[k] = IF k = 0 THEN ms ELSE Out(more[k - 1])
    <3>1. CASE k = n + 1
      <4>1. k # 0 /\ k - 1 = n /\ n \in 0 .. n /\ more[k] = Out(maps[n])
        BY <3>1
      <4>2. more[k - 1] = maps[n]
        BY <2>3, <4>1
      <4>. HIDE DEF more
      <4>. QED
        BY <4>1, <4>2
    <3>2. CASE k \in 0 .. n /\ k # 0
      <4>1. k - 1 \in 0 .. n
        BY <3>2
      <4>2. more[k] = maps[k] /\ more[k - 1] = maps[k - 1]
        BY <2>3, <3>2, <4>1
      <4>. HIDE DEF more
      <4>. QED
        BY <2>2, <3>2, <4>2
    <3>3. CASE k = 0
      BY <2>2, <3>3
    <3>. QED
      BY <3>1, <3>2, <3>3
  <2>5. Mapping(ms, n + 1, more)
    <3>1. more = [k \in 0 .. n + 1 |-> more[k]]
      OBVIOUS
    <3>. HIDE DEF more
    <3>. QED
      BY <1>0, <2>4, <3>1
  <2>. QED
    BY <2>5
<1>. QED
  <2>. HIDE DEF holds
  <2>1. Nat \subseteq holds
    BY <1>1, <1>2, NoException
  <2>. QED
    BY <2>1 DEF holds

\* What is behind the last is what MapDeep computes.
LEMMA MapDeepIs ==
    ASSUME NEW ms, NEW n \in Nat
    PROVE  MapDeep(ms, n) = MapsOf(ms, n)[n] /\ Mapping(ms, n, MapsOf(ms, n))
<1>1. \E maps : Mapping(ms, n, maps)
  BY MappingExists
<1>2. Mapping(ms, n, MapsOf(ms, n))
  BY <1>1 DEF MapsOf
<1>3. MapDeep(ms, n) = MapsOf(ms, n)[n]
  BY DEF MapDeep, MapsOf, Mapping
<1>. QED
  BY <1>2, <1>3

\* The first message is about the array itself.
LEMMA SentIsAbout ==
    ASSUME NEW id, NEW v \in Carried
    PROVE  <<Carry(NewContext(id), v)>> \in Seq(About(id, v))
<1> DEFINE c == NewContext(id)
<1>1. c \in Fresh(id) /\ c.frames = <<>> /\ c.frames \in Seq(Frame)
  BY DEF NewContext, Fresh
<1>. HIDE DEF c
<1>2. MapFrameIndices(c) = <<>>
  <2>1. MapFrameIndices(c) = [i \in 1 .. Len(c.frames) |-> c.frames[i].data] /\ MapFrameIndices(c) \in Seq(Nat \X Nat)
    BY <1>1, IndicesAre
  <2>. QED
    BY <1>1, <2>1
<1>3. ItemAt(v, <<>>) = v
  <2>1. \E at : Along(v, <<>>, 0, at)
    BY WayExists
  <2> DEFINE at == CHOOSE at : Along(v, <<>>, 0, at)
  <2>2. Along(v, <<>>, 0, at)
    BY <2>1
  <2>3. ItemAt(v, <<>>) = at[0]
    BY DEF ItemAt, Along
  <2>. HIDE DEF at
  <2>. QED
    BY <2>2, <2>3 DEF Along
<1>4. Carry(c, v) \in About(id, v)
  BY <1>1, <1>2, <1>3 DEF About, Carry
<1>. QED
  BY <1>4 DEF c

\* What comes out behind the Maps is about items of what was sent.
LEMMA MapDeepIsAbout ==
    ASSUME NEW id, NEW v \in Carried, NEW n \in Nat
    PROVE  MapDeep(<<Carry(NewContext(id), v)>>, n) \in Seq(About(id, v))
<1> DEFINE ms   == <<Carry(NewContext(id), v)>>
           maps == MapsOf(ms, n)
           S    == Seq(About(id, v))
<1>1. ms \in S
  BY SentIsAbout
<1>2. MapDeep(ms, n) = maps[n] /\ Mapping(ms, n, maps)
  <2>. HIDE DEF ms
  <2>. QED
    BY MapDeepIs
<1>. HIDE DEF ms, maps
<1>3. ASSUME NEW s \in S PROVE FlattenSeq([i \in DOMAIN s |-> MapOut(s[i])]) \in S
  BY MapIsAbout
<1>. HIDE DEF S
<1> DEFINE holds == {k \in Nat : k <= n => maps[k] \in S}
           Out(s) == FlattenSeq([i \in DOMAIN s |-> MapOut(s[i])])
<1>4. \A k \in 0 .. n : maps[k] = IF k = 0 THEN ms ELSE Out(maps[k - 1])
  BY <1>2 DEF Mapping
<1>5. \A s \in S : Out(s) \in S
  BY <1>3
<1>. HIDE DEF Out
<1>6. 0 \in holds
  BY <1>1, <1>4
<1>7. ASSUME NEW k \in Nat, k \in holds PROVE k + 1 \in holds
  <2> SUFFICES ASSUME k + 1 <= n PROVE maps[k + 1] \in S
    OBVIOUS
  <2>1. k + 1 \in 0 .. n /\ k + 1 # 0 /\ (k + 1) - 1 = k /\ maps[k] \in S
    BY <1>7
  <2>2. maps[k + 1] = Out(maps[k])
    BY <1>4, <2>1
  <2>. QED
    BY <1>5, <2>1, <2>2
<1>8. Nat \subseteq holds
  <2>. HIDE DEF holds
  <2>. QED
    BY <1>6, <1>7, NoException
<1>9. maps[n] \in S
  BY <1>8
<1>. QED
  BY <1>2, <1>9 DEF S, ms

-----------------------------------------------------------------------------
(* The lanes and the joining module.                                        *)

\* A context that a Sequence has handed to a port.
Handed(ids, p) == [id : ids, vars : {Put(<<>>, "lane", p)}, frames : Seq(Frame)]

\* The messages on a lane: each is about an item of what was sent.
On(s, p) ==
    {m \in [ctx : Handed(DOMAIN s, p), value : Carried] :
        m.value = ItemAt(s[m.ctx.id], MapFrameIndices(m.ctx))}

\* Two streams about the same items, in the same order.
SameItems(a, b) ==
    /\ Len(a) = Len(b)
    /\ \A k \in 1 .. Len(a) : CtxKey(a[k].ctx) = CtxKey(b[k].ctx)

\* What waits in the joining module came over the lanes, and in the cache
\* under the key of its item; one port is always waited for.
JoinFits(s, j) ==
    /\ j = [setup |-> j.setup, queues |-> j.queues, buffers |-> j.buffers]
    /\ j.setup \in Setups
    /\ DOMAIN j.queues = Ports(j.setup)
    /\ \A p \in Ports(j.setup) : j.queues[p] \in Seq(On(s, p)) /\ (p >= 2 => j.queues[p] = <<>>)
    /\ j.setup.n # 0 => \E p \in Ports(j.setup) : j.queues[p] = <<>>
    /\ \A key \in DOMAIN j.buffers : \A p \in DOMAIN j.buffers[key] :
          j.buffers[key][p] \in On(s, p) /\ CtxKey(j.buffers[key][p].ctx) = key

\* With two ports the queues and the lanes behind them match.
Aligned(j, ls) == j.setup.n = 2 => SameItems(j.queues[0] \o ls[1], j.queues[1] \o ls[2])

\* What JoinsWhatBelongs asks of what the join emits.
EmitsFit(s, setup, emits) ==
    \A i \in DOMAIN emits :
       LET e == emits[i] IN
       IF setup.kind = "sync"
       THEN /\ e.value = ItemAt(s[e.ctx.id], MapFrameIndices(e.ctx))
            /\ CtxKey(e.ctx) = CtxKey(emits[1].ctx)
            /\ setup.use_ctx => e.ctx.vars["lane"] = e.port
       ELSE \A v \in Range(e.value) : v = ItemAt(s[e.ctx.id], MapFrameIndices(e.ctx))

\* The key of a context tells which item it is about.
LEMMA KeyTells ==
    ASSUME NEW s, NEW c, NEW d, CtxKey(c) = CtxKey(d)
    PROVE  ItemAt(s[c.id], MapFrameIndices(c)) = ItemAt(s[d.id], MapFrameIndices(d))
<1>1. c.id = d.id /\ MapFrameIndices(c) = MapFrameIndices(d)
  BY DEF CtxKey
<1>. QED
  BY <1>1, Zenon

\* Handing a context to a port keeps the key.
LEMMA HandedKeepsKey ==
    ASSUME NEW id, NEW c \in Fresh(id), NEW p
    PROVE  /\ WithVar(c, "lane", p) \in Handed({id}, p)
           /\ MapFrameIndices(WithVar(c, "lane", p)) = MapFrameIndices(c)
           /\ CtxKey(WithVar(c, "lane", p)) = CtxKey(c)
<1> DEFINE d == WithVar(c, "lane", p)
           vars == Put(<<>>, "lane", p)
<1>1. /\ c.vars = <<>> /\ c.frames \in Seq(Frame) /\ c.id = id
      /\ c = [id |-> id, vars |-> <<>>, frames |-> c.frames]
  BY DEF Fresh
<1>2. d = [id |-> id, vars |-> vars, frames |-> c.frames]
  <2>1. d = [c EXCEPT !.vars = Put(c.vars, "lane", p)]
    BY DEF WithVar
  <2>2. d = [c EXCEPT !.vars = vars]
    BY <1>1, <2>1
  <2>. HIDE DEF d, vars
  <2>. QED
    BY <1>1, <2>2
<1>3. d.id = c.id /\ d.frames = c.frames /\ d \in [id : {id}, vars : {vars}, frames : Seq(Frame)]
  <2>. HIDE DEF d, vars
  <2>. QED
    BY <1>1, <1>2
<1>. HIDE DEF d
<1>4. MapFrameIndices(d) = MapFrameIndices(c)
  BY <1>3 DEF MapFrameIndices
<1>. QED
  BY <1>3, <1>4 DEF d, CtxKey, Handed

\* What a Sequence hands on is about the items it was given.
LEMMA SequenceToIsOn ==
    ASSUME NEW s, NEW id \in DOMAIN s, NEW ms \in Seq(About(id, s[id])), NEW p
    PROVE  /\ SequenceTo(p, ms) \in Seq(On(s, p))
           /\ Len(SequenceTo(p, ms)) = Len(ms)
           /\ \A k \in 1 .. Len(ms) : CtxKey(SequenceTo(p, ms)[k].ctx) = CtxKey(ms[k].ctx)
<1> DEFINE To(m) == [m EXCEPT !.ctx = WithVar(@, "lane", p)]
<1>1. ASSUME NEW m \in About(id, s[id])
      PROVE  To(m) \in On(s, p) /\ CtxKey(To(m).ctx) = CtxKey(m.ctx)
  <2>1. /\ m \in [ctx : Fresh(id), value : Carried] /\ m.ctx \in Fresh(id) /\ m.value \in Carried
        /\ m.value = ItemAt(s[id], MapFrameIndices(m.ctx))
    BY DEF About
  <2> DEFINE d == WithVar(m.ctx, "lane", p)
  <2>2. /\ d \in Handed({id}, p)
        /\ MapFrameIndices(d) = MapFrameIndices(m.ctx)
        /\ CtxKey(d) = CtxKey(m.ctx)
    BY <2>1, HandedKeepsKey
  <2>3. To(m) = [m EXCEPT !.ctx = d]
    BY <2>1
  <2>. HIDE DEF d
  <2>4. To(m) = [ctx |-> d, value |-> m.value]
    BY <2>1, <2>3
  <2>. HIDE DEF To
  <2>5. d.id = id /\ d \in Handed(DOMAIN s, p)
    BY <2>2 DEF Handed
  <2>6. To(m) \in [ctx : Handed(DOMAIN s, p), value : Carried] /\ To(m).ctx = d /\ To(m).value = m.value
    BY <2>1, <2>4, <2>5
  <2>. QED
    BY <2>1, <2>2, <2>5, <2>6 DEF On
<1>2. SequenceTo(p, ms) = [i \in DOMAIN ms |-> To(ms[i])]
  BY DEF SequenceTo
<1>. HIDE DEF To
<1>3. DOMAIN ms = 1 .. Len(ms) /\ Len(ms) \in Nat /\ \A k \in 1 .. Len(ms) : ms[k] \in About(id, s[id])
  OBVIOUS
<1>4. \A k \in 1 .. Len(ms) : To(ms[k]) \in On(s, p) /\ CtxKey(To(ms[k]).ctx) = CtxKey(ms[k].ctx)
  BY <1>1, <1>3
<1>. QED
  BY <1>2, <1>3, <1>4

\* A name is at one place of the keys last.
LEMMA LastPlace ==
    ASSUME NEW n \in Nat, NEW keys \in [1 .. n -> STRING], NEW k \in Range(keys)
    PROVE  \E i \in 1 .. n : keys[i] = k /\ \A j \in i + 1 .. n : keys[j] # k
<1> DEFINE T == {d \in Nat : \E i \in 1 .. n : keys[i] = k /\ d = n - i}
<1>1. PICK i \in 1 .. n : keys[i] = k
  BY DEF Range
<1>2. n - i \in T /\ T \in SUBSET Nat
  BY <1>1
<1>3. PICK d \in T : \A x \in T : d <= x
  <2>. HIDE DEF T
  <2>. QED
    BY <1>2, LeastOf
<1>4. PICK h \in 1 .. n : keys[h] = k /\ d = n - h
  BY <1>3
<1>5. ASSUME NEW j \in h + 1 .. n, keys[j] = k PROVE FALSE
  <2>1. j \in 1 .. n /\ n - j \in T
    BY <1>4, <1>5
  <2>2. d <= n - j
    BY <1>3, <2>1
  <2>. QED
    BY <1>4, <2>1, <2>2
<1>. QED
  BY <1>4, <1>5

\* When every port has a message about one item, what is emitted is of it.
LEMMA EmittedFits ==
    ASSUME NEW s, NEW setup \in Setups, NEW whole, NEW last,
           \A p \in Ports(setup) : whole[p] \in On(s, p) /\ CtxKey(whole[p].ctx) = CtxKey(last.ctx)
    PROVE  EmitsFit(s, setup, Emitted(setup, whole, last))
<1> DEFINE n      == setup.n
           values == [i \in 1 .. n |-> whole[i - 1].value]
           item   == ItemAt(s[last.ctx.id], MapFrameIndices(last.ctx))
           emits  == Emitted(setup, whole, last)
<1>1. /\ n \in Nat /\ setup.kind \in {"array", "object", "sync"}
      /\ setup.kind = "object" => setup.keys \in [1 .. n -> STRING]
  BY FlowsAssumption
<1>2. ASSUME NEW i \in 1 .. n
      PROVE  /\ whole[i - 1] \in On(s, i - 1)
             /\ CtxKey(whole[i - 1].ctx) = CtxKey(last.ctx)
             /\ values[i] = whole[i - 1].value /\ values[i] = item
             /\ values[i] = ItemAt(s[whole[i - 1].ctx.id], MapFrameIndices(whole[i - 1].ctx))
  <2>1. i - 1 \in Ports(setup)
    BY <1>1 DEF Ports
  <2> DEFINE w == whole[i - 1]
  <2>2. w \in On(s, i - 1) /\ CtxKey(w.ctx) = CtxKey(last.ctx)
    BY <2>1
  <2>3. values[i] = w.value
    OBVIOUS
  <2>. HIDE DEF w, values
  <2>4. w.value = ItemAt(s[w.ctx.id], MapFrameIndices(w.ctx))
    BY <2>2 DEF On
  <2> DEFINE c == w.ctx
             d == last.ctx
  <2>5. CtxKey(c) = CtxKey(d)
    BY <2>2
  <2>. HIDE DEF c, d
  <2>6. ItemAt(s[c.id], MapFrameIndices(c)) = ItemAt(s[d.id], MapFrameIndices(d))
    BY <2>5, KeyTells
  <2>. QED
    BY <2>2, <2>3, <2>4, <2>6 DEF w, c, d
<1>3. CASE setup.kind = "array"
  <2>1. emits = << [port |-> 0, ctx |-> last.ctx, value |-> values] >>
    BY <1>3 DEF Emitted
  <2>. HIDE DEF emits, item
  <2>2. \A v \in Range(values) : v = item
    BY <1>2 DEF Range
  <2>. HIDE DEF values
  <2>3. EmitsFit(s, setup, emits)
    BY <1>3, <2>1, <2>2 DEF EmitsFit, item
  <2>. QED
    BY <2>3 DEF emits
<1>4. CASE setup.kind = "object"
  <2> DEFINE place(k) == CHOOSE i \in 1 .. n : /\ setup.keys[i] = k
                                             /\ \A j \in i + 1 .. n : setup.keys[j] # k
             object == [k \in Range(setup.keys) |-> values[place(k)]]
  <2>1. emits = << [port |-> 0, ctx |-> last.ctx, value |-> object] >>
    BY <1>4 DEF Emitted
  <2>2. ASSUME NEW k \in Range(setup.keys) PROVE place(k) \in 1 .. n
    <3>1. \E i \in 1 .. n : setup.keys[i] = k /\ \A j \in i + 1 .. n : setup.keys[j] # k
      BY <1>1, <1>4, LastPlace
    <3>. QED
      BY <3>1
  <2>. HIDE DEF emits, item, place
  <2>3. \A v \in Range(object) : v = item
    <3>1. \A k \in Range(setup.keys) : object[k] = values[place(k)] /\ values[place(k)] = item
      BY <1>2, <2>2
    <3>2. DOMAIN object = Range(setup.keys)
      OBVIOUS
    <3>. HIDE DEF object, values
    <3>. QED
      BY <3>1, <3>2 DEF Range
  <2>. HIDE DEF object
  <2>4. EmitsFit(s, setup, emits)
    BY <1>4, <2>1, <2>3 DEF EmitsFit, item
  <2>. QED
    BY <2>4 DEF emits
<1>5. CASE setup.kind = "sync"
  <2> DEFINE E(i) == [port |-> i - 1, ctx |-> IF setup.use_ctx THEN whole[i - 1].ctx ELSE last.ctx, value |-> values[i]]
  <2>1. emits = [i \in 1 .. n |-> E(i)]
    BY <1>5 DEF Emitted
  <2>. HIDE DEF emits
  <2>2. ASSUME NEW i \in 1 .. n
        PROVE  /\ CtxKey(E(i).ctx) = CtxKey(last.ctx)
               /\ E(i).value = ItemAt(s[E(i).ctx.id], MapFrameIndices(E(i).ctx))
               /\ setup.use_ctx => E(i).ctx.vars["lane"] = E(i).port
    <3> DEFINE w == whole[i - 1]
    <3>1. /\ w \in On(s, i - 1)
          /\ CtxKey(w.ctx) = CtxKey(last.ctx)
          /\ values[i] = item
          /\ values[i] = ItemAt(s[w.ctx.id], MapFrameIndices(w.ctx))
      BY <1>2
    <3>2. w.ctx.vars["lane"] = i - 1
      <4>1. w.ctx.vars = Put(<<>>, "lane", i - 1)
        BY <3>1 DEF On, Handed
      <4>2. Put(<<>>, "lane", i - 1)["lane"] = i - 1
        BY DEF Put, Over
      <4>. QED
        BY <4>1, <4>2
    <3>3. CASE setup.use_ctx
      <4>1. E(i).ctx = w.ctx /\ E(i).value = values[i] /\ E(i).port = i - 1
        BY <3>3
      <4>. HIDE DEF E, values, w
      <4>. QED
        BY <3>1, <3>2, <4>1
    <3>4. CASE ~ setup.use_ctx
      <4>1. E(i).ctx = last.ctx /\ E(i).value = values[i]
        BY <3>4
      <4>. HIDE DEF E, values, w
      <4>. QED
        BY <3>1, <3>4, <4>1
    <3>. QED
      BY <3>3, <3>4
  <2>. HIDE DEF E
  <2>3. EmitsFit(s, setup, emits)
    <3>1. DOMAIN emits = 1 .. n /\ \A i \in 1 .. n : emits[i] = E(i)
      BY <2>1
    <3>2. ASSUME NEW i \in 1 .. n PROVE 1 \in 1 .. n /\ CtxKey(emits[i].ctx) = CtxKey(emits[1].ctx)
      <4>1. 1 \in 1 .. n
        BY <1>1
      <4>2. emits[i] = E(i) /\ emits[1] = E(1) /\ CtxKey(E(i).ctx) = CtxKey(last.ctx) /\ CtxKey(E(1).ctx) = CtxKey(last.ctx)
        BY <2>2, <3>1, <4>1
      <4>. QED
        BY <4>1, <4>2
    <3>. QED
      BY <1>5, <2>2, <3>1, <3>2 DEF EmitsFit
  <2>. QED
    BY <2>3 DEF emits
<1>. QED
  BY <1>1, <1>3, <1>4, <1>5

\* A value joined by its context: what waits stays in order, and what is
\* emitted is of one item.
LEMMA ByContextFits ==
    ASSUME NEW s, NEW j, JoinFits(s, j), NEW p \in Ports(j.setup), NEW m \in On(s, p)
    PROVE  /\ JoinFits(s, JoinByContext(j, p, m).join)
           /\ JoinByContext(j, p, m).join.setup = j.setup
           /\ EmitsFit(s, j.setup, JoinByContext(j, p, m).emits)
<1> DEFINE key   == CtxKey(m.ctx)
           entry == Put(Pending(j, key), p, m)
           next  == JoinByContext(j, p, m)
           there == DOMAIN entry = Ports(j.setup)
<1>1. next = IF there
             THEN [join |-> [j EXCEPT !.buffers = Less(j.buffers, key)], emits |-> Emitted(j.setup, entry, m)]
             ELSE [join |-> [j EXCEPT !.buffers = Put(j.buffers, key, entry)], emits |-> <<>>]
  <2>1. j = [setup |-> j.setup, queues |-> j.queues, buffers |-> j.buffers]
    BY DEF JoinFits
  <2>. QED
    BY <2>1 DEF JoinByContext
<1>2. ASSUME NEW q \in DOMAIN entry PROVE entry[q] \in On(s, q) /\ CtxKey(entry[q].ctx) = key
  <2> DEFINE f == Pending(j, key)
  <2>1. \A x \in DOMAIN f : f[x] \in On(s, x) /\ CtxKey(f[x].ctx) = key
    <3>1. CASE key \in DOMAIN j.buffers
      BY <3>1 DEF Pending, JoinFits
    <3>2. CASE key \notin DOMAIN j.buffers
      <4>1. f = <<>> /\ DOMAIN <<>> = {}
        BY <3>2 DEF Pending
      <4>. HIDE DEF f
      <4>. QED
        BY <4>1
    <3>. QED
      BY <3>1, <3>2
  <2>5. entry = Put(f, p, m)
    OBVIOUS
  <2>. HIDE DEF f, entry
  <2>2. DOMAIN entry = {p} \cup DOMAIN f /\ entry[p] = m /\ \A x \in DOMAIN f : x # p => entry[x] = f[x]
    <3>1. /\ DOMAIN Put(f, p, m) = {p} \cup DOMAIN f
          /\ Put(f, p, m)[p] = m
          /\ \A x \in DOMAIN f : x # p => Put(f, p, m)[x] = f[x]
      BY DEF Put, Over
    <3>. QED
      BY <2>5, <3>1
  <2>3. CASE q = p
    BY <2>2, <2>3
  <2>4. CASE q # p
    BY <2>1, <2>2, <2>4
  <2>. QED
    BY <2>3, <2>4
<1>. HIDE DEF next, entry
<1>3. ASSUME NEW b, \A k \in DOMAIN b : \A q \in DOMAIN b[k] : b[k][q] \in On(s, q) /\ CtxKey(b[k][q].ctx) = k
      PROVE  JoinFits(s, [j EXCEPT !.buffers = b]) /\ [j EXCEPT !.buffers = b].setup = j.setup
  <2> DEFINE i == [j EXCEPT !.buffers = b]
  <2>1. i = [setup |-> j.setup, queues |-> j.queues, buffers |-> b]
    BY DEF JoinFits
  <2>. HIDE DEF i
  <2>2. i.setup = j.setup /\ i.queues = j.queues /\ i.buffers = b
    BY <2>1
  <2>3. JoinFits(s, i)
    BY <1>3, <2>1, <2>2 DEF JoinFits
  <2>. QED
    BY <2>2, <2>3 DEF i
<1>4. CASE there
  <2> DEFINE b == Less(j.buffers, key)
  <2>1. b = [k \in DOMAIN j.buffers \ {key} |-> j.buffers[k]]
    BY DEF Less, Restrict
  <2>. HIDE DEF b
  <2>2. \A k \in DOMAIN b : \A q \in DOMAIN b[k] : b[k][q] \in On(s, q) /\ CtxKey(b[k][q].ctx) = k
    BY <2>1 DEF JoinFits
  <2>3. next.join = [j EXCEPT !.buffers = b] /\ next.emits = Emitted(j.setup, entry, m)
    BY <1>1, <1>4 DEF b
  <2>4. j.setup \in Setups /\ \A q \in Ports(j.setup) : entry[q] \in On(s, q) /\ CtxKey(entry[q].ctx) = CtxKey(m.ctx)
    BY <1>2, <1>4 DEF JoinFits
  <2>5. EmitsFit(s, j.setup, Emitted(j.setup, entry, m))
    BY <2>4, EmittedFits
  <2>. QED
    BY <1>3, <2>2, <2>3, <2>5 DEF next
<1>5. CASE ~ there
  <2> DEFINE b == Put(j.buffers, key, entry)
             f == j.buffers
  <2>1. DOMAIN b = {key} \cup DOMAIN f /\ b[key] = entry /\ \A x \in DOMAIN f : x # key => b[x] = f[x]
    <3>1. b = Put(f, key, entry)
      OBVIOUS
    <3>. HIDE DEF f, key, b
    <3>2. /\ DOMAIN Put(f, key, entry) = {key} \cup DOMAIN f
          /\ Put(f, key, entry)[key] = entry
          /\ \A x \in DOMAIN f : x # key => Put(f, key, entry)[x] = f[x]
      BY DEF Put, Over
    <3>. QED
      BY <3>1, <3>2
  <2>. HIDE DEF b
  <2>2. \A k \in DOMAIN b : \A q \in DOMAIN b[k] : b[k][q] \in On(s, q) /\ CtxKey(b[k][q].ctx) = k
    <3>1. \A k \in DOMAIN f : \A q \in DOMAIN f[k] : f[k][q] \in On(s, q) /\ CtxKey(f[k][q].ctx) = k
      BY DEF JoinFits
    <3>. HIDE DEF f, key
    <3>2. ASSUME NEW k \in DOMAIN b, NEW q \in DOMAIN b[k] PROVE b[k][q] \in On(s, q) /\ CtxKey(b[k][q].ctx) = k
      <4>1. CASE k = key
        <5>1. b[k] = entry
          BY <2>1, <4>1
        <5>. QED
          BY <1>2, <4>1, <5>1
      <4>2. CASE k # key
        <5>1. k \in DOMAIN f /\ b[k] = f[k]
          BY <2>1, <4>2
        <5>. QED
          BY <3>1, <5>1
      <4>. QED
        BY <4>1, <4>2
    <3>. QED
      BY <3>2
  <2>3. next.join = [j EXCEPT !.buffers = b] /\ next.emits = <<>>
    BY <1>1, <1>5 DEF b
  <2>4. EmitsFit(s, j.setup, <<>>)
    BY DEF EmitsFit
  <2>. QED
    BY <1>3, <2>2, <2>3, <2>4 DEF next
<1>. QED
  BY <1>4, <1>5

\* The head of a lane moves to the end of a queue: the stream is the same.
LEMMA MovesHead ==
    ASSUME NEW S, NEW q \in Seq(S), NEW l \in Seq(S), l # <<>>
    PROVE  /\ Head(l) \in S /\ Tail(l) \in Seq(S)
           /\ Append(q, Head(l)) \o Tail(l) = q \o l
<1> DEFINE x == Head(l)
           t == Tail(l)
<1>1. x \in S /\ t \in Seq(S) /\ <<x>> \in Seq(S)
  <2>1. x \in S /\ t \in Seq(S)
    BY HeadTailProperties
  <2>. HIDE DEF x, t
  <2>2. <<x>> \in Seq(S)
    BY <2>1
  <2>. QED
    BY <2>1, <2>2
<1>2. <<x>> \o t = l
  OBVIOUS
<1>. HIDE DEF x, t
<1>3. Append(q, x) = q \o <<x>>
  BY <1>1
<1>4. (q \o <<x>>) \o t = q \o (<<x>> \o t)
  BY <1>1, ConcatAssociative
<1>. QED
  BY <1>1, <1>2, <1>3, <1>4 DEF x, t

\* A stream gives up the head of its queue.
GivesUp(q, l) ==
    /\ Len(Tail(q) \o l) = Len(q \o l) - 1 /\ Len(q \o l) >= 1 /\ Len(q \o l) \in Nat
    /\ (q \o l)[1] = Head(q)
    /\ \A k \in 1 .. Len(q \o l) - 1 : (Tail(q) \o l)[k] = (q \o l)[k + 1]

\* That is so of any queue with the lane behind it.
LEMMA GivesUpHead ==
    ASSUME NEW S, NEW q \in Seq(S), NEW l \in Seq(S), q # <<>>
    PROVE  GivesUp(q, l)
<1>1. /\ Head(q) \in S /\ Tail(q) \in Seq(S) /\ Len(q) \in Nat /\ Len(q) >= 1 /\ Len(l) \in Nat
      /\ Head(q) = q[1]
  OBVIOUS
<1> DEFINE t == Tail(q)
<1>2. t \in Seq(S) /\ Len(t) = Len(q) - 1 /\ \A k \in 1 .. Len(q) - 1 : t[k] = q[k + 1]
  BY <1>1
<1>. HIDE DEF t
<1>3. /\ Len(t \o l) = Len(t) + Len(l)
      /\ \A i \in 1 .. Len(t) + Len(l) : (t \o l)[i] = IF i <= Len(t) THEN t[i] ELSE l[i - Len(t)]
  BY <1>2, ConcatProperties
<1>4. /\ Len(q \o l) = Len(q) + Len(l)
      /\ \A i \in 1 .. Len(q) + Len(l) : (q \o l)[i] = IF i <= Len(q) THEN q[i] ELSE l[i - Len(q)]
  BY ConcatProperties
<1>5. (q \o l)[1] = Head(q)
  BY <1>1, <1>4
<1>6. ASSUME NEW k \in 1 .. Len(q \o l) - 1 PROVE (t \o l)[k] = (q \o l)[k + 1]
  <2>1. k \in Nat /\ k >= 1 /\ k \in 1 .. Len(t) + Len(l) /\ k + 1 \in 1 .. Len(q) + Len(l)
    BY <1>1, <1>2, <1>4
  <2>2. (k + 1) - Len(q) = k - Len(t) /\ (k <= Len(t) <=> k + 1 <= Len(q))
    BY <1>1, <1>2, <2>1
  <2>3. k <= Len(t) => t[k] = q[k + 1]
    BY <1>1, <1>2, <2>1
  <2>. QED
    BY <1>3, <1>4, <2>1, <2>2, <2>3
<1>7. Len(t \o l) = Len(q \o l) - 1 /\ Len(q \o l) >= 1 /\ Len(q \o l) \in Nat
  BY <1>1, <1>2, <1>3, <1>4
<1>. QED
  BY <1>1, <1>5, <1>6, <1>7 DEF t, GivesUp

\* What waits in the queues after an arrival: when no port is waited for any
\* more, the message that came is the first of its queue.
Arrived(s, j, p, m, qs) ==
    /\ DOMAIN qs = Ports(j.setup)
    /\ qs[p] = Append(j.queues[p], m) /\ \A q \in Ports(j.setup) : q # p => qs[q] = j.queues[q]
    /\ \A q \in Ports(j.setup) : qs[q] \in Seq(On(s, q)) /\ (q >= 2 => qs[q] = <<>>)
    /\ (\A q \in Ports(j.setup) : qs[q] # <<>>) => qs[p] = <<m>> /\ j.setup.n <= 2

\* An arrival leaves the queues like that.
LEMMA InOrderQueues ==
    ASSUME NEW s, NEW j, JoinFits(s, j), NEW p \in Ports(j.setup), p \in 0 .. 1, NEW m \in On(s, p)
    PROVE  Arrived(s, j, p, m, [j.queues EXCEPT ![p] = Append(@, m)])
<1> DEFINE qs == [j.queues EXCEPT ![p] = Append(@, m)]
<1>1. /\ j.setup \in Setups /\ j.setup.n \in Nat /\ j.setup.n # 0
      /\ DOMAIN j.queues = Ports(j.setup)
      /\ \A q \in Ports(j.setup) : j.queues[q] \in Seq(On(s, q)) /\ (q >= 2 => j.queues[q] = <<>>)
      /\ \E q \in Ports(j.setup) : j.queues[q] = <<>>
  <2>1. j.setup \in Setups /\ j.setup.n \in Nat
    BY FlowsAssumption DEF JoinFits
  <2>2. j.setup.n # 0
    BY <2>1 DEF Ports
  <2>. QED
    BY <2>1, <2>2 DEF JoinFits
<1>2. /\ DOMAIN qs = Ports(j.setup)
      /\ qs[p] = Append(j.queues[p], m) /\ \A q \in Ports(j.setup) : q # p => qs[q] = j.queues[q]
  BY <1>1
<1>3. ASSUME NEW q \in Ports(j.setup) PROVE qs[q] \in Seq(On(s, q)) /\ (q >= 2 => qs[q] = <<>>)
  <2>1. CASE q = p
    <3>1. j.queues[p] \in Seq(On(s, p)) /\ ~ (p >= 2)
      BY <1>1
    <3>2. Append(j.queues[p], m) \in Seq(On(s, p))
      BY <3>1
    <3>. QED
      BY <1>2, <2>1, <3>1, <3>2
  <2>2. CASE q # p
    BY <1>1, <1>2, <2>2
  <2>. QED
    BY <2>1, <2>2
<1>4. ASSUME \A q \in Ports(j.setup) : qs[q] # <<>> PROVE qs[p] = <<m>> /\ j.setup.n <= 2
  <2>1. j.queues[p] = <<>>
    BY <1>1, <1>2, <1>4
  <2>2. Append(<<>>, m) = <<m>>
    OBVIOUS
  <2>3. ASSUME j.setup.n > 2 PROVE FALSE
    <3>1. 2 \in Ports(j.setup) /\ 2 # p /\ 2 >= 2
      BY <1>1, <2>3 DEF Ports
    <3>. QED
      BY <1>3, <1>4, <3>1
  <2>. QED
    BY <1>1, <1>2, <2>1, <2>2, <2>3
<1>. QED
  BY <1>2, <1>3, <1>4 DEF Arrived

\* A value joined in order: what waits stays in order, one port is waited for.
LEMMA InOrderFits ==
    ASSUME NEW s, NEW j, JoinFits(s, j), NEW p \in Ports(j.setup), p \in 0 .. 1, NEW m \in On(s, p)
    PROVE  /\ JoinFits(s, JoinInOrder(j, p, m).join)
           /\ JoinInOrder(j, p, m).join.setup = j.setup
<1> DEFINE qs    == [j.queues EXCEPT ![p] = Append(@, m)]
           tails == [q \in Ports(j.setup) |-> Tail(qs[q])]
           full  == \A q \in Ports(j.setup) : qs[q] # <<>>
           next  == JoinInOrder(j, p, m).join
<1>1. /\ DOMAIN qs = Ports(j.setup)
      /\ qs[p] = Append(j.queues[p], m) /\ \A q \in Ports(j.setup) : q # p => qs[q] = j.queues[q]
      /\ \A q \in Ports(j.setup) : qs[q] \in Seq(On(s, q)) /\ (q >= 2 => qs[q] = <<>>)
      /\ full => qs[p] = <<m>> /\ j.setup.n <= 2
  <2>1. Arrived(s, j, p, m, qs)
    BY InOrderQueues
  <2>. HIDE DEF qs
  <2>. QED
    BY <2>1 DEF Arrived
<1>2. next = IF full THEN [j EXCEPT !.queues = tails] ELSE [j EXCEPT !.queues = qs]
  BY DEF JoinInOrder
<1>. HIDE DEF qs, next
<1>3. ASSUME NEW b, DOMAIN b = Ports(j.setup),
             \A q \in Ports(j.setup) : b[q] \in Seq(On(s, q)) /\ (q >= 2 => b[q] = <<>>),
             \E q \in Ports(j.setup) : b[q] = <<>>
      PROVE  JoinFits(s, [j EXCEPT !.queues = b]) /\ [j EXCEPT !.queues = b].setup = j.setup
  <2> DEFINE i == [j EXCEPT !.queues = b]
  <2>1. i = [setup |-> j.setup, queues |-> b, buffers |-> j.buffers]
    BY DEF JoinFits
  <2>. HIDE DEF i
  <2>2. i.setup = j.setup /\ i.queues = b /\ i.buffers = j.buffers
    BY <2>1
  <2>3. JoinFits(s, i)
    BY <1>3, <2>1, <2>2 DEF JoinFits
  <2>. QED
    BY <2>2, <2>3 DEF i
<1>4. CASE full
  <2>1. ASSUME NEW q \in Ports(j.setup) PROVE tails[q] \in Seq(On(s, q)) /\ (q >= 2 => tails[q] = <<>>)
    <3>1. qs[q] # <<>> /\ qs[q] \in Seq(On(s, q)) /\ ~ (q >= 2) /\ tails[q] = Tail(qs[q])
      BY <1>1, <1>4
    <3>. HIDE DEF tails
    <3>2. Tail(qs[q]) \in Seq(On(s, q))
      BY <3>1, HeadTailProperties
    <3>. QED
      BY <3>1, <3>2
  <2>2. tails[p] = <<>>
    <3>1. tails[p] = Tail(<<m>>)
      BY <1>1, <1>4
    <3>. QED
      BY <3>1
  <2>3. DOMAIN tails = Ports(j.setup)
    OBVIOUS
  <2>. HIDE DEF tails
  <2>4. JoinFits(s, [j EXCEPT !.queues = tails]) /\ [j EXCEPT !.queues = tails].setup = j.setup
    BY <1>3, <2>1, <2>2, <2>3
  <2>. QED
    BY <1>2, <1>4, <2>4 DEF next
<1>5. CASE ~ full
  <2>1. JoinFits(s, [j EXCEPT !.queues = qs]) /\ [j EXCEPT !.queues = qs].setup = j.setup
    BY <1>1, <1>3, <1>5
  <2>. QED
    BY <1>2, <1>5, <2>1 DEF next
<1>. QED
  BY <1>4, <1>5

\* While the streams match, the head of a lane keeps them so, and what is
\* emitted is of one item.
LEMMA InOrderAligned ==
    ASSUME NEW s, NEW j, JoinFits(s, j), NEW p \in Ports(j.setup), p \in 0 .. 1,
           NEW ls, DOMAIN ls = 1 .. 2, \A l \in 1 .. 2 : ls[l] \in Seq(On(s, l - 1)),
           ls[p + 1] # <<>>, Aligned(j, ls), NEW m, m = Head(ls[p + 1])
    PROVE  /\ Aligned(JoinInOrder(j, p, m).join, [ls EXCEPT ![p + 1] = Tail(@)])
           /\ EmitsFit(s, j.setup, JoinInOrder(j, p, m).emits)
<1> DEFINE qs    == [j.queues EXCEPT ![p] = Append(@, m)]
           rest  == [ls EXCEPT ![p + 1] = Tail(@)]
           tails == [q \in Ports(j.setup) |-> Tail(qs[q])]
           heads == [q \in Ports(j.setup) |-> Head(qs[q])]
           full  == \A q \in Ports(j.setup) : qs[q] # <<>>
           next  == JoinInOrder(j, p, m)
           St(q) == qs[q] \o rest[q + 1]
<1>1. next = IF full THEN [join |-> [j EXCEPT !.queues = tails], emits |-> Emitted(j.setup, heads, m)]
             ELSE [join |-> [j EXCEPT !.queues = qs], emits |-> <<>>]
  BY DEF JoinInOrder
<1>2. p + 1 \in 1 .. 2 /\ (p + 1) - 1 = p
  OBVIOUS
<1>3. m \in On(s, p) /\ Tail(ls[p + 1]) \in Seq(On(s, p)) /\ ls[p + 1] \in Seq(On(s, p))
  <2>1. ls[p + 1] \in Seq(On(s, p))
    BY <1>2
  <2>2. Head(ls[p + 1]) \in On(s, p) /\ Tail(ls[p + 1]) \in Seq(On(s, p))
    BY <2>1, HeadTailProperties
  <2>. QED
    BY <2>1, <2>2
<1>4. /\ DOMAIN qs = Ports(j.setup)
      /\ qs[p] = Append(j.queues[p], m) /\ \A q \in Ports(j.setup) : q # p => qs[q] = j.queues[q]
      /\ \A q \in Ports(j.setup) : qs[q] \in Seq(On(s, q)) /\ (q >= 2 => qs[q] = <<>>)
      /\ full => qs[p] = <<m>> /\ j.setup.n <= 2
  <2>1. Arrived(s, j, p, m, qs)
    BY <1>3, InOrderQueues
  <2>. HIDE DEF qs
  <2>. QED
    BY <2>1 DEF Arrived
<1>5. /\ DOMAIN rest = 1 .. 2 /\ rest[p + 1] = Tail(ls[p + 1])
      /\ \A l \in 1 .. 2 : l # p + 1 => rest[l] = ls[l]
  BY <1>2
<1>. HIDE DEF next, qs, rest
<1>6. ASSUME NEW l \in 1 .. 2 PROVE rest[l] \in Seq(On(s, l - 1))
  <2>1. CASE l = p + 1
    BY <1>2, <1>3, <1>5, <2>1
  <2>2. CASE l # p + 1
    BY <1>5, <2>2
  <2>. QED
    BY <2>1, <2>2
<1>7. j.setup.n \in Nat /\ j.setup \in Setups
  BY FlowsAssumption DEF JoinFits
<1>8. ASSUME j.setup.n = 2
      PROVE  /\ 0 \in Ports(j.setup) /\ 1 \in Ports(j.setup)
             /\ qs[0] \in Seq(On(s, 0)) /\ rest[1] \in Seq(On(s, 0))
             /\ qs[1] \in Seq(On(s, 1)) /\ rest[2] \in Seq(On(s, 1))
             /\ SameItems(St(0), St(1))
  <2>1. 0 \in Ports(j.setup) /\ 1 \in Ports(j.setup)
    BY <1>8 DEF Ports
  <2>2. /\ qs[0] \in Seq(On(s, 0)) /\ rest[1] \in Seq(On(s, 0))
        /\ qs[1] \in Seq(On(s, 1)) /\ rest[2] \in Seq(On(s, 1))
    <3>1. 1 \in 1 .. 2 /\ 2 \in 1 .. 2 /\ 1 - 1 = 0 /\ 2 - 1 = 1
      OBVIOUS
    <3>2. rest[1] \in Seq(On(s, 1 - 1)) /\ rest[2] \in Seq(On(s, 2 - 1))
      BY <1>6, <3>1
    <3>. QED
      BY <1>4, <2>1, <3>1, <3>2
  <2>3. ASSUME NEW q \in 0 .. 1 PROVE St(q) = j.queues[q] \o ls[q + 1]
    <3>1. q \in Ports(j.setup)
      BY <2>1, <2>3
    <3>2. CASE q = p
      <4> DEFINE old  == j.queues[p]
                 lane == ls[p + 1]
      <4>1. old \in Seq(On(s, p)) /\ lane \in Seq(On(s, p)) /\ lane # <<>>
        BY <1>3 DEF JoinFits
      <4>2. St(q) = Append(old, Head(lane)) \o Tail(lane)
        BY <1>4, <1>5, <3>2
      <4>. HIDE DEF old, lane, St
      <4>3. Append(old, Head(lane)) \o Tail(lane) = old \o lane
        BY <4>1, MovesHead
      <4>. QED
        BY <3>2, <4>2, <4>3 DEF old, lane
    <3>3. CASE q # p
      <4>1. qs[q] = j.queues[q] /\ q + 1 \in 1 .. 2 /\ q + 1 # p + 1
        BY <1>4, <2>3, <3>1, <3>3
      <4>2. rest[q + 1] = ls[q + 1]
        BY <1>5, <4>1
      <4>. QED
        BY <4>1, <4>2
    <3>. QED
      BY <3>2, <3>3
  <2>. HIDE DEF St
  <2>4. SameItems(j.queues[0] \o ls[0 + 1], j.queues[1] \o ls[1 + 1])
    BY <1>8 DEF Aligned
  <2>5. St(0) = j.queues[0] \o ls[0 + 1] /\ St(1) = j.queues[1] \o ls[1 + 1]
    <3>1. 0 \in 0 .. 1 /\ 1 \in 0 .. 1
      OBVIOUS
    <3>. QED
      BY <2>3, <3>1, Zenon
  <2>. QED
    BY <2>1, <2>2, <2>4, <2>5
<1>9. ASSUME j.setup.n = 2, full
      PROVE  /\ SameItems(Tail(qs[0]) \o rest[1], Tail(qs[1]) \o rest[2])
             /\ CtxKey(Head(qs[0]).ctx) = CtxKey(Head(qs[1]).ctx)
  <2> DEFINE a == qs[0] \o rest[1]
             b == qs[1] \o rest[2]
             c == Tail(qs[0]) \o rest[1]
             d == Tail(qs[1]) \o rest[2]
  <2>1. /\ qs[0] # <<>> /\ qs[1] # <<>>
        /\ qs[0] \in Seq(On(s, 0)) /\ rest[1] \in Seq(On(s, 0))
        /\ qs[1] \in Seq(On(s, 1)) /\ rest[2] \in Seq(On(s, 1))
    BY <1>8, <1>9
  <2>2. SameItems(a, b)
    BY <1>8, <1>9
  <2>10. GivesUp(qs[0], rest[1]) /\ GivesUp(qs[1], rest[2])
    BY <2>1, GivesUpHead
  <2>3. /\ Len(c) = Len(a) - 1 /\ Len(a) >= 1 /\ Len(a) \in Nat /\ a[1] = Head(qs[0])
        /\ \A k \in 1 .. Len(a) - 1 : c[k] = a[k + 1]
    BY <2>10 DEF GivesUp
  <2>4. /\ Len(d) = Len(b) - 1 /\ b[1] = Head(qs[1])
        /\ \A k \in 1 .. Len(b) - 1 : d[k] = b[k + 1]
    BY <2>10 DEF GivesUp
  <2>. HIDE DEF a, b, c, d
  <2>5. Len(a) = Len(b) /\ \A k \in 1 .. Len(a) : CtxKey(a[k].ctx) = CtxKey(b[k].ctx)
    BY <2>2 DEF SameItems
  <2>6. ASSUME NEW k \in 1 .. Len(c) PROVE CtxKey(c[k].ctx) = CtxKey(d[k].ctx)
    <3>1. k \in 1 .. Len(a) - 1 /\ k \in 1 .. Len(b) - 1 /\ k + 1 \in 1 .. Len(a)
      BY <2>3, <2>5
    <3>2. CtxKey(a[k + 1].ctx) = CtxKey(b[k + 1].ctx)
      BY <2>5, <3>1
    <3>. QED
      BY <2>3, <2>4, <3>1, <3>2
  <2>7. SameItems(c, d)
    BY <2>3, <2>4, <2>5, <2>6 DEF SameItems
  <2>8. 1 \in 1 .. Len(a)
    BY <2>3
  <2>9. CtxKey(a[1].ctx) = CtxKey(b[1].ctx)
    BY <2>5, <2>8
  <2>. QED
    BY <2>3, <2>4, <2>7, <2>9 DEF c, d
<1>10. ASSUME NEW b PROVE /\ [j EXCEPT !.queues = b].queues = b
                          /\ [j EXCEPT !.queues = b].setup = j.setup
  <2>1. [j EXCEPT !.queues = b] = [setup |-> j.setup, queues |-> b, buffers |-> j.buffers]
    BY DEF JoinFits
  <2>. QED
    BY <2>1
<1>11. CASE full
  <2>1. next.join = [j EXCEPT !.queues = tails] /\ next.emits = Emitted(j.setup, heads, m)
    BY <1>1, <1>11
  <2>2. j.setup.n = 2 => tails[0] = Tail(qs[0]) /\ tails[1] = Tail(qs[1])
    BY <1>8
  <2>3. ASSUME NEW q \in Ports(j.setup) PROVE heads[q] \in On(s, q) /\ CtxKey(heads[q].ctx) = CtxKey(m.ctx)
    <3>1. heads[q] = Head(qs[q]) /\ qs[q] \in Seq(On(s, q)) /\ qs[q] # <<>>
      BY <1>4, <1>11
    <3>. HIDE DEF heads
    <3>2. Head(qs[q]) \in On(s, q)
      BY <3>1, HeadTailProperties
    <3>3. qs[p] = <<m>> /\ Head(<<m>>) = m
      BY <1>4, <1>11
    <3>4. CASE q = p
      BY <3>1, <3>2, <3>3, <3>4
    <3>5. CASE q # p
      <4>1. j.setup.n = 2 /\ ((p = 0 /\ q = 1) \/ (p = 1 /\ q = 0))
        BY <1>4, <1>7, <1>11, <3>5 DEF Ports
      <4>2. CtxKey(Head(qs[0]).ctx) = CtxKey(Head(qs[1]).ctx)
        BY <1>9, <1>11, <4>1
      <4>. QED
        BY <3>1, <3>2, <3>3, <4>1, <4>2
    <3>. QED
      BY <3>4, <3>5
  <2>. HIDE DEF heads, tails
  <2>4. EmitsFit(s, j.setup, Emitted(j.setup, heads, m))
    BY <1>7, <2>3, EmittedFits
  <2>5. Aligned(next.join, rest)
    <3>1. next.join.queues = tails /\ next.join.setup = j.setup
      BY <1>10, <2>1
    <3>. QED
      BY <1>9, <1>11, <2>2, <3>1 DEF Aligned
  <2>. QED
    BY <2>1, <2>4, <2>5 DEF next, rest
<1>12. CASE ~ full
  <2>1. next.join = [j EXCEPT !.queues = qs] /\ next.emits = <<>>
    BY <1>1, <1>12
  <2>2. Aligned(next.join, rest)
    <3>1. next.join.queues = qs /\ next.join.setup = j.setup
      BY <1>10, <2>1
    <3>2. j.setup.n = 2 => SameItems(qs[0] \o rest[1], qs[1] \o rest[2])
      BY <1>8
    <3>. QED
      BY <3>1, <3>2 DEF Aligned
  <2>3. EmitsFit(s, j.setup, next.emits)
    BY <2>1 DEF EmitsFit
  <2>. QED
    BY <2>2, <2>3 DEF next, rest
<1>. QED
  BY <1>11, <1>12

-----------------------------------------------------------------------------
(* The flows.                                                               *)

\* What is on the lanes and in the joining module is about items of what was
\* sent, and as long as nothing is lost or overtaken the two sides match.
FlowInv ==
    /\ levels \in DOMAIN Arrays /\ lost \in Nat
    /\ sent \in Seq(Carried)
    /\ DOMAIN lanes = 1 .. 2 /\ \A l \in 1 .. 2 : lanes[l] \in Seq(On(sent, l - 1))
    /\ JoinFits(sent, join)
    /\ ordered /\ lost = 0 /\ ~ join.setup.use_ctx => Aligned(join, lanes)
    /\ JoinsWhatBelongs

\* What JoinsWhatBelongs says, of the setup and what was emitted.
LEMMA BelongsIs ==
    JoinsWhatBelongs <=>
       ((join.setup.use_ctx \/ (ordered /\ lost = 0)) => EmitsFit(sent, join.setup, joined))
BY DEF JoinsWhatBelongs, EmitsFit, ItemOf

\* When nothing is emitted nothing can be wrong with it.
LEMMA NothingEmitted ==
    ASSUME NEW s, NEW setup
    PROVE  EmitsFit(s, setup, <<>>)
BY DEF EmitsFit

\* A message is taken out of a lane.
LEMMA RemoveAtIs ==
    ASSUME NEW S, NEW s \in Seq(S), NEW k \in 1 .. Len(s)
    PROVE  /\ RemoveAt(s, k) \in Seq(S)
           /\ k = 1 => s # <<>> /\ s[k] = Head(s) /\ RemoveAt(s, k) = Tail(s)
<1> DEFINE a == SubSeq(s, 1, k - 1)
           b == SubSeq(s, k + 1, Len(s))
<1>1. /\ 1 \in Int /\ k - 1 \in Int /\ k + 1 \in Int /\ Len(s) \in Int /\ Len(s) \in Nat
      /\ \A i \in 1 .. k - 1 : s[i] \in S
      /\ \A i \in k + 1 .. Len(s) : s[i] \in S
  OBVIOUS
<1>2. a \in Seq(S)
  <2>1. SubSeq(s, 1, k - 1) \in Seq(S)
    BY <1>1, SubSeqProperties
  <2>. QED
    BY <2>1
<1>3. b \in Seq(S)
  <2>1. SubSeq(s, k + 1, Len(s)) \in Seq(S)
    BY <1>1, SubSeqProperties
  <2>. QED
    BY <2>1
<1>4. RemoveAt(s, k) = a \o b
  BY DEF RemoveAt
<1>5. ASSUME k = 1 PROVE s # <<>> /\ s[k] = Head(s) /\ RemoveAt(s, k) = Tail(s)
  <2>1. s # <<>> /\ s[k] = Head(s)
    BY <1>5
  <2>2. a = <<>>
    <3>1. 0 < 1 /\ 0 \in Int /\ k - 1 = 0
      BY <1>5
    <3>2. SubSeq(s, 1, 0) = <<>>
      BY <1>1, <3>1, SubSeqEmpty
    <3>. QED
      BY <3>1, <3>2
  <2>3. b = Tail(s)
    <3>1. Tail(s) = SubSeq(s, 2, Len(s))
      BY <2>1, TailIsSubSeq
    <3>. QED
      BY <1>5, <3>1
  <2>. HIDE DEF a, b
  <2>4. <<>> \o b = b
    BY <1>3, ConcatEmptySeq
  <2>. QED
    BY <1>4, <2>1, <2>2, <2>3, <2>4
<1>6. a \o b \in Seq(S)
  <2>. HIDE DEF a, b
  <2>. QED
    BY <1>2, <1>3
<1>. QED
  BY <1>4, <1>5, <1>6

\* What was about an item stays about it when more is sent.
LEMMA OnGrows ==
    ASSUME NEW s \in Seq(Carried), NEW v \in Carried, NEW p
    PROVE  On(s, p) \subseteq On(Append(s, v), p)
<1> DEFINE t == Append(s, v)
<1>1. \A id \in DOMAIN s : id \in DOMAIN t /\ t[id] = s[id]
  OBVIOUS
<1>. HIDE DEF t
<1>2. ASSUME NEW m \in On(s, p) PROVE m \in On(t, p)
  <2>1. /\ m \in [ctx : Handed(DOMAIN s, p), value : Carried] /\ m.ctx \in Handed(DOMAIN s, p)
        /\ m.ctx.id \in DOMAIN s
        /\ m.value = ItemAt(s[m.ctx.id], MapFrameIndices(m.ctx))
    BY DEF On, Handed
  <2>2. Handed(DOMAIN s, p) \subseteq Handed(DOMAIN t, p)
    BY <1>1 DEF Handed
  <2>3. m \in [ctx : Handed(DOMAIN t, p), value : Carried]
    BY <2>1, <2>2
  <2>4. t[m.ctx.id] = s[m.ctx.id]
    BY <1>1, <2>1
  <2>. QED
    BY <2>1, <2>3, <2>4 DEF On
<1>. QED
  BY <1>2 DEF t

\* The same of a whole lane or queue.
LEMMA SeqOnGrows ==
    ASSUME NEW s \in Seq(Carried), NEW v \in Carried, NEW p, NEW ms \in Seq(On(s, p))
    PROVE  ms \in Seq(On(Append(s, v), p))
<1> DEFINE S == On(s, p)
           T == On(Append(s, v), p)
<1>1. S \subseteq T /\ ms \in Seq(S)
  BY OnGrows
<1>. HIDE DEF S, T
<1>2. ms \in Seq(T)
  BY <1>1, SeqMonotonic
<1>. QED
  BY <1>2 DEF T

\* The same of all that waits in the joining module.
LEMMA JoinFitsGrows ==
    ASSUME NEW s \in Seq(Carried), NEW v \in Carried, NEW j, JoinFits(s, j)
    PROVE  JoinFits(Append(s, v), j)
<1> DEFINE t == Append(s, v)
<1>1. ASSUME NEW p \in Ports(j.setup) PROVE j.queues[p] \in Seq(On(t, p))
  <2>1. j.queues[p] \in Seq(On(s, p))
    BY DEF JoinFits
  <2>. QED
    BY <2>1, SeqOnGrows
<1>2. \A p : On(s, p) \subseteq On(t, p)
  BY OnGrows
<1>. HIDE DEF t
<1>3. JoinFits(t, j)
  BY <1>1, <1>2 DEF JoinFits
<1>. QED
  BY <1>3 DEF t

\* Streams about the same items stay so when as much is added to both.
LEMMA SameItemsGrow ==
    ASSUME NEW S, NEW T, NEW a \in Seq(S), NEW c \in Seq(S), NEW b \in Seq(T), NEW d \in Seq(T),
           SameItems(a, b), SameItems(c, d)
    PROVE  SameItems(a \o c, b \o d)
<1>1. /\ Len(a \o c) = Len(a) + Len(c)
      /\ \A i \in 1 .. Len(a) + Len(c) : (a \o c)[i] = IF i <= Len(a) THEN a[i] ELSE c[i - Len(a)]
  BY ConcatProperties
<1>2. /\ Len(b \o d) = Len(b) + Len(d)
      /\ \A i \in 1 .. Len(b) + Len(d) : (b \o d)[i] = IF i <= Len(b) THEN b[i] ELSE d[i - Len(b)]
  BY ConcatProperties
<1>3. Len(a) \in Nat /\ Len(c) \in Nat /\ Len(a) = Len(b) /\ Len(c) = Len(d)
  BY DEF SameItems
<1>4. ASSUME NEW k \in 1 .. Len(a) + Len(c) PROVE CtxKey((a \o c)[k].ctx) = CtxKey((b \o d)[k].ctx)
  <2>1. CASE k <= Len(a)
    <3>1. k \in 1 .. Len(a) /\ (a \o c)[k] = a[k] /\ (b \o d)[k] = b[k]
      BY <1>1, <1>2, <1>3, <2>1
    <3>. QED
      BY <3>1 DEF SameItems
  <2>2. CASE k > Len(a)
    <3>1. /\ k - Len(a) \in 1 .. Len(c) /\ (a \o c)[k] = c[k - Len(a)]
          /\ (b \o d)[k] = d[k - Len(a)]
      BY <1>1, <1>2, <1>3, <2>2
    <3>. QED
      BY <3>1 DEF SameItems
  <2>. QED
    BY <1>3, <2>1, <2>2
<1>. QED
  BY <1>1, <1>2, <1>3, <1>4 DEF SameItems

\* A joining module that begins anew waits for every port.
LEMMA ResetFits ==
    ASSUME NEW s, NEW setup \in Setups
    PROVE  /\ JoinFits(s, ResetState(setup))
           /\ ResetState(setup).setup = setup
           /\ ResetState(setup).queues = [p \in Ports(setup) |-> <<>>]
<1> DEFINE j == ResetState(setup)
           none == [p \in Ports(setup) |-> <<>>]
<1>1. j = [setup |-> setup, queues |-> none, buffers |-> <<>>]
  BY DEF ResetState
<1>2. DOMAIN none = Ports(setup) /\ \A p \in Ports(setup) : none[p] = <<>>
  OBVIOUS
<1>3. setup.n \in Nat
  BY FlowsAssumption
<1>. HIDE DEF j, none
<1>4. j.setup = setup /\ j.queues = none /\ j.buffers = <<>>
  BY <1>1
<1>5. \A p : <<>> \in Seq(On(s, p))
  OBVIOUS
<1>6. setup.n # 0 => 0 \in Ports(setup)
  BY <1>3 DEF Ports
<1>7. DOMAIN <<>> = {}
  OBVIOUS
<1>8. JoinFits(s, j)
  BY <1>1, <1>2, <1>4, <1>5, <1>6, <1>7 DEF JoinFits
<1>. QED
  BY <1>4, <1>8 DEF j, none

\* The flows begin with nothing sent.
LEMMA FlowBegins == FlowInit => FlowInv
<1> SUFFICES ASSUME FlowInit PROVE FlowInv
  OBVIOUS
<1>1. PICK setup \in Setups : join = ResetState(setup)
  BY DEF FlowInit
<1>2. JoinFits(sent, join) /\ join.setup = setup /\ join.queues = [p \in Ports(setup) |-> <<>>]
  BY <1>1, ResetFits
<1>3. /\ levels \in DOMAIN Arrays /\ lost = 0 /\ sent = <<>> /\ lanes = << <<>>, <<>> >> /\ joined = <<>>
  BY DEF FlowInit
<1>4. sent \in Seq(Carried) /\ DOMAIN lanes = 1 .. 2 /\ \A l \in 1 .. 2 : lanes[l] = <<>>
  BY <1>3
<1>5. \A l \in 1 .. 2 : lanes[l] \in Seq(On(sent, l - 1))
  <2>1. ASSUME NEW l \in 1 .. 2 PROVE <<>> \in Seq(On(sent, l - 1))
    OBVIOUS
  <2>. QED
    BY <1>4, <2>1
<1>6. Aligned(join, lanes)
  <2>1. ASSUME setup.n = 2 PROVE join.queues[0] = <<>> /\ join.queues[1] = <<>>
    BY <1>2, <2>1 DEF Ports
  <2>2. <<>> \o <<>> = <<>> /\ Len(<<>>) = 0
    OBVIOUS
  <2>3. SameItems(<<>>, <<>>)
    BY <2>2 DEF SameItems
  <2>4. lanes[1] = <<>> /\ lanes[2] = <<>>
    BY <1>4
  <2>. QED
    BY <1>2, <2>1, <2>2, <2>3, <2>4 DEF Aligned
<1>7. JoinsWhatBelongs
  BY <1>3, BelongsIs, NothingEmitted
<1>. QED
  BY <1>2, <1>3, <1>4, <1>5, <1>6, <1>7 DEF FlowInv

\* What is sent puts as many messages about the same items on both lanes.
LEMMA SendKeeps ==
    ASSUME FlowInv, NEW array \in Arrays[levels], Send(array)
    PROVE  FlowInv'
<1> DEFINE id     == Len(sent')
           items  == MapDeep(<<Carry(NewContext(id), array)>>, levels)
           To(p)  == SequenceTo(p, items)
<1>1. /\ levels \in DOMAIN Arrays /\ lost \in Nat /\ sent \in Seq(Carried)
      /\ DOMAIN lanes = 1 .. 2 /\ \A l \in 1 .. 2 : lanes[l] \in Seq(On(sent, l - 1))
      /\ JoinFits(sent, join)
      /\ ordered /\ lost = 0 /\ ~ join.setup.use_ctx => Aligned(join, lanes)
  BY DEF FlowInv
<1>2. /\ sent' = Append(sent, array) /\ joined' = <<>>
      /\ levels' = levels /\ ordered' = ordered /\ join' = join /\ lost' = lost
      /\ lanes' = [l \in 1 .. 2 |-> lanes[l] \o To(l - 1)]
  BY DEF Send
<1>3. array \in Carried /\ levels \in Nat
  BY <1>1, FlowsAssumption
<1>4. /\ sent' \in Seq(Carried) /\ id \in DOMAIN sent' /\ sent'[id] = array
  BY <1>1, <1>2, <1>3
<1>5. items \in Seq(About(id, sent'[id]))
  <2> DEFINE i == id
  <2>1. i = Len(sent')
    OBVIOUS
  <2>. HIDE DEF i
  <2>2. MapDeep(<<Carry(NewContext(i), array)>>, levels) \in Seq(About(i, array))
    BY <1>3, MapDeepIsAbout
  <2>. QED
    BY <1>4, <2>1, <2>2
<1>. HIDE DEF items
<1>6. ASSUME NEW p
      PROVE  /\ To(p) \in Seq(On(sent', p)) /\ Len(To(p)) = Len(items)
             /\ \A k \in 1 .. Len(items) : CtxKey(To(p)[k].ctx) = CtxKey(items[k].ctx)
  <2> DEFINE i == id
             s == sent'
  <2>1. i \in DOMAIN s /\ items \in Seq(About(i, s[i]))
    BY <1>4, <1>5
  <2>. HIDE DEF i, s
  <2>2. /\ SequenceTo(p, items) \in Seq(On(s, p)) /\ Len(SequenceTo(p, items)) = Len(items)
        /\ \A k \in 1 .. Len(items) : CtxKey(SequenceTo(p, items)[k].ctx) = CtxKey(items[k].ctx)
    BY <2>1, SequenceToIsOn
  <2>. QED
    BY <2>2 DEF s
<1>. HIDE DEF To, id
<1>7. ASSUME NEW p, NEW ms, ms \in Seq(On(sent, p)) PROVE ms \in Seq(On(sent', p))
  BY <1>1, <1>2, <1>3, <1>7, SeqOnGrows
<1>8. DOMAIN lanes' = 1 .. 2 /\ \A l \in 1 .. 2 : lanes'[l] \in Seq(On(sent', l - 1))
  <2>1. ASSUME NEW l \in 1 .. 2 PROVE lanes[l] \o To(l - 1) \in Seq(On(sent', l - 1))
    <3>1. lanes[l] \in Seq(On(sent', l - 1)) /\ To(l - 1) \in Seq(On(sent', l - 1))
      BY <1>1, <1>6, <1>7
    <3>. QED
      BY <3>1, ConcatProperties
  <2>. QED
    BY <1>2, <2>1
<1>9. JoinFits(sent', join')
  BY <1>1, <1>2, <1>3, JoinFitsGrows
<1>10. ASSUME ordered', lost' = 0, ~ join'.setup.use_ctx, join'.setup.n = 2
       PROVE  SameItems(join'.queues[0] \o lanes'[1], join'.queues[1] \o lanes'[2])
  <2> DEFINE S  == On(sent', 0)
             T  == On(sent', 1)
             q0 == join.queues[0]
             q1 == join.queues[1]
             l0 == lanes[1]
             l1 == lanes[2]
             t0 == To(0)
             t1 == To(1)
  <2>1. q0 \in Seq(S) /\ q1 \in Seq(T)
    <3>1. 0 \in Ports(join.setup) /\ 1 \in Ports(join.setup)
      BY <1>2, <1>10 DEF Ports
    <3>2. join.queues[0] \in Seq(On(sent, 0)) /\ join.queues[1] \in Seq(On(sent, 1))
      BY <1>1, <3>1 DEF JoinFits
    <3>. QED
      BY <1>7, <3>2
  <2>2. l0 \in Seq(S) /\ l1 \in Seq(T)
    <3>1. 1 \in 1 .. 2 /\ 2 \in 1 .. 2 /\ 1 - 1 = 0 /\ 2 - 1 = 1
      OBVIOUS
    <3>2. lanes[1] \in Seq(On(sent, 1 - 1)) /\ lanes[2] \in Seq(On(sent, 2 - 1))
      BY <1>1, <3>1
    <3>. QED
      BY <1>7, <3>1, <3>2
  <2>3. t0 \in Seq(S) /\ t1 \in Seq(T) /\ SameItems(t0, t1)
    <3>1. /\ To(0) \in Seq(S) /\ Len(To(0)) = Len(items)
          /\ \A k \in 1 .. Len(items) : CtxKey(To(0)[k].ctx) = CtxKey(items[k].ctx)
      BY <1>6
    <3>2. /\ To(1) \in Seq(T) /\ Len(To(1)) = Len(items)
          /\ \A k \in 1 .. Len(items) : CtxKey(To(1)[k].ctx) = CtxKey(items[k].ctx)
      BY <1>6
    <3>. QED
      BY <3>1, <3>2 DEF SameItems
  <2>4. SameItems(q0 \o l0, q1 \o l1)
    BY <1>1, <1>2, <1>10 DEF Aligned
  <2>5. join'.queues[0] = q0 /\ join'.queues[1] = q1 /\ lanes'[1] = l0 \o t0 /\ lanes'[2] = l1 \o t1
    <3>1. 1 \in 1 .. 2 /\ 2 \in 1 .. 2 /\ 1 - 1 = 0 /\ 2 - 1 = 1
      OBVIOUS
    <3>2. lanes'[1] = lanes[1] \o To(1 - 1) /\ lanes'[2] = lanes[2] \o To(2 - 1)
      BY <1>2, <3>1
    <3>. QED
      BY <1>2, <3>1, <3>2
  <2>. HIDE DEF S, T, q0, q1, l0, l1, t0, t1
  <2>6. q0 \o l0 \in Seq(S) /\ q1 \o l1 \in Seq(T)
    BY <2>1, <2>2
  <2>7. SameItems((q0 \o l0) \o t0, (q1 \o l1) \o t1)
    BY <2>3, <2>4, <2>6, SameItemsGrow
  <2>8. (q0 \o l0) \o t0 = q0 \o (l0 \o t0)
    <3>1. q0 \in Seq(S) /\ l0 \in Seq(S) /\ t0 \in Seq(S)
      BY <2>1, <2>2, <2>3
    <3>. QED
      BY <3>1, ConcatAssociative, SMTT(30)
  <2>9. (q1 \o l1) \o t1 = q1 \o (l1 \o t1)
    <3>1. q1 \in Seq(T) /\ l1 \in Seq(T) /\ t1 \in Seq(T)
      BY <2>1, <2>2, <2>3
    <3>. QED
      BY <3>1, ConcatAssociative, SMTT(30)
  <2>. QED
    BY <2>5, <2>7, <2>8, <2>9
<1>11. JoinsWhatBelongs'
  BY <1>2 DEF JoinsWhatBelongs
<1>. QED
  BY <1>1, <1>2, <1>4, <1>8, <1>9, <1>10, <1>11 DEF FlowInv, Aligned

\* A message that leaves its lane waits or is joined with those of its item.
LEMMA ArriveKeeps ==
    ASSUME FlowInv, NEW l \in 1 .. 2, NEW k \in Leaving(l), Arrive(l, k)
    PROVE  FlowInv'
<1> DEFINE p == l - 1
           m == lanes[l][k]
           r == JoinProcess(join, p, m)
<1>1. /\ levels \in DOMAIN Arrays /\ lost \in Nat /\ sent \in Seq(Carried)
      /\ DOMAIN lanes = 1 .. 2 /\ \A h \in 1 .. 2 : lanes[h] \in Seq(On(sent, h - 1))
      /\ JoinFits(sent, join)
      /\ ordered /\ lost = 0 /\ ~ join.setup.use_ctx => Aligned(join, lanes)
  BY DEF FlowInv
<1>2. /\ lanes' = [lanes EXCEPT ![l] = RemoveAt(@, k)]
      /\ join' = r.join /\ joined' = r.emits
      /\ levels' = levels /\ ordered' = ordered /\ sent' = sent /\ lost' = lost
  <2>1. lanes' = [lanes EXCEPT ![l] = RemoveAt(@, k)]
    BY Zenon DEF Arrive
  <2>2. join' = JoinProcess(join, l - 1, lanes[l][k]).join
    BY Zenon DEF Arrive
  <2>3. joined' = JoinProcess(join, l - 1, lanes[l][k]).emits
    BY Zenon DEF Arrive
  <2>4. levels' = levels /\ ordered' = ordered /\ sent' = sent /\ lost' = lost
    BY Zenon DEF Arrive
  <2>. QED
    BY <2>1, <2>2, <2>3, <2>4
<1>3. lanes[l] \in Seq(On(sent, p)) /\ p \in 0 .. 1 /\ p + 1 = l /\ p \in Nat
  BY <1>1
<1>4. k \in 1 .. Len(lanes[l]) /\ (ordered => k = 1)
  BY <1>3 DEF Leaving
<1>5. m \in On(sent, p)
  BY <1>3, <1>4
<1>6. /\ RemoveAt(lanes[l], k) \in Seq(On(sent, p))
      /\ k = 1 => lanes[l] # <<>> /\ m = Head(lanes[l]) /\ RemoveAt(lanes[l], k) = Tail(lanes[l])
  BY <1>3, <1>4, RemoveAtIs
<1>7. DOMAIN lanes' = 1 .. 2 /\ \A h \in 1 .. 2 : lanes'[h] \in Seq(On(sent', h - 1))
  <2>1. lanes'[l] = RemoveAt(lanes[l], k) /\ \A h \in 1 .. 2 : h # l => lanes'[h] = lanes[h]
    BY <1>1, <1>2
  <2>2. DOMAIN lanes' = 1 .. 2
    BY <1>1, <1>2
  <2>3. ASSUME NEW h \in 1 .. 2 PROVE lanes'[h] \in Seq(On(sent, h - 1))
    <3>1. CASE h = l
      BY <1>6, <2>1, <3>1
    <3>2. CASE h # l
      BY <1>1, <2>1, <3>2
    <3>. QED
      BY <3>1, <3>2
  <2>. QED
    BY <1>2, <2>2, <2>3
<1>. HIDE DEF p, m, r
<1>8. /\ JoinFits(sent, r.join) /\ r.join.setup = join.setup
      /\ ordered /\ lost = 0 /\ ~ join.setup.use_ctx => Aligned(r.join, lanes')
      /\ (join.setup.use_ctx \/ (ordered /\ lost = 0)) => EmitsFit(sent, join.setup, r.emits)
  <2>1. CASE p \notin Ports(join.setup)
    <3>1. r.join = join /\ r.emits = <<>>
      BY <2>1 DEF r, JoinProcess
    <3>2. join.setup.n # 2
      BY <1>3, <2>1 DEF Ports
    <3>. QED
      BY <1>1, <3>1, <3>2, NothingEmitted DEF Aligned
  <2>2. CASE p \in Ports(join.setup) /\ join.setup.use_ctx
    <3>1. r = JoinByContext(join, p, m)
      BY <2>2 DEF r, JoinProcess
    <3>2. /\ JoinFits(sent, JoinByContext(join, p, m).join)
          /\ JoinByContext(join, p, m).join.setup = join.setup
          /\ EmitsFit(sent, join.setup, JoinByContext(join, p, m).emits)
      BY <1>1, <1>5, <2>2, ByContextFits
    <3>. QED
      BY <2>2, <3>1, <3>2
  <2>3. CASE p \in Ports(join.setup) /\ ~ join.setup.use_ctx
    <3>1. r = JoinInOrder(join, p, m)
      BY <2>3 DEF r, JoinProcess
    <3>2. /\ JoinFits(sent, JoinInOrder(join, p, m).join)
          /\ JoinInOrder(join, p, m).join.setup = join.setup
      BY <1>1, <1>3, <1>5, <2>3, InOrderFits
    <3>3. ASSUME ordered, lost = 0
          PROVE  /\ Aligned(JoinInOrder(join, p, m).join, lanes')
                 /\ EmitsFit(sent, join.setup, JoinInOrder(join, p, m).emits)
      <4>1. Aligned(join, lanes) /\ k = 1
        BY <1>1, <1>4, <2>3, <3>3
      <4>2. lanes[p + 1] # <<>> /\ m = Head(lanes[p + 1]) /\ RemoveAt(lanes[p + 1], k) = Tail(lanes[p + 1])
        BY <1>3, <1>6, <4>1
      <4>3. lanes' = [lanes EXCEPT ![p + 1] = Tail(@)]
        BY <1>2, <1>3, <4>2
      <4>4. /\ Aligned(JoinInOrder(join, p, m).join, [lanes EXCEPT ![p + 1] = Tail(@)])
            /\ EmitsFit(sent, join.setup, JoinInOrder(join, p, m).emits)
        BY <1>1, <1>3, <2>3, <4>1, <4>2, InOrderAligned
      <4>. QED
        BY <4>3, <4>4
    <3>. QED
      BY <2>3, <3>1, <3>2, <3>3
  <2>. QED
    BY <2>1, <2>2, <2>3
<1>9. JoinsWhatBelongs'
  BY <1>2, <1>8 DEF JoinsWhatBelongs, EmitsFit, ItemOf
<1>. QED
  BY <1>1, <1>2, <1>7, <1>8, <1>9 DEF FlowInv

\* A message that a lane loses leaves the others what they were.
LEMMA FailKeeps ==
    ASSUME FlowInv, NEW l \in 1 .. 2, NEW k \in Leaving(l), Fail(l, k)
    PROVE  FlowInv'
<1>1. /\ levels \in DOMAIN Arrays /\ lost \in Nat /\ sent \in Seq(Carried)
      /\ DOMAIN lanes = 1 .. 2 /\ \A h \in 1 .. 2 : lanes[h] \in Seq(On(sent, h - 1))
      /\ JoinFits(sent, join)
  BY DEF FlowInv
<1>2. /\ lanes' = [lanes EXCEPT ![l] = RemoveAt(@, k)] /\ joined' = <<>> /\ lost' = lost + 1
      /\ levels' = levels /\ ordered' = ordered /\ sent' = sent /\ join' = join
  BY DEF Fail
<1>3. lanes[l] \in Seq(On(sent, l - 1)) /\ k \in 1 .. Len(lanes[l])
  <2>1. lanes[l] \in Seq(On(sent, l - 1))
    BY <1>1
  <2>. QED
    BY <2>1 DEF Leaving
<1>4. RemoveAt(lanes[l], k) \in Seq(On(sent, l - 1))
  BY <1>3, RemoveAtIs
<1>5. DOMAIN lanes' = 1 .. 2 /\ \A h \in 1 .. 2 : lanes'[h] \in Seq(On(sent', h - 1))
  <2>1. lanes'[l] = RemoveAt(lanes[l], k) /\ \A h \in 1 .. 2 : h # l => lanes'[h] = lanes[h]
    BY <1>1, <1>2
  <2>2. DOMAIN lanes' = 1 .. 2
    BY <1>1, <1>2
  <2>3. ASSUME NEW h \in 1 .. 2 PROVE lanes'[h] \in Seq(On(sent, h - 1))
    <3>1. CASE h = l
      BY <1>4, <2>1, <3>1
    <3>2. CASE h # l
      BY <1>1, <2>1, <3>2
    <3>. QED
      BY <3>1, <3>2
  <2>. QED
    BY <1>2, <2>2, <2>3
<1>6. lost' \in Nat /\ lost' # 0
  BY <1>1, <1>2
<1>7. JoinsWhatBelongs'
  BY <1>2 DEF JoinsWhatBelongs
<1>. QED
  BY <1>1, <1>2, <1>5, <1>6, <1>7 DEF FlowInv

\* An entry that is evicted leaves the others what they were.
LEMMA EvictKeeps ==
    ASSUME FlowInv, NEW key \in DOMAIN join.buffers, Evict(key)
    PROVE  FlowInv'
<1>1. /\ levels \in DOMAIN Arrays /\ lost \in Nat /\ sent \in Seq(Carried)
      /\ DOMAIN lanes = 1 .. 2 /\ \A h \in 1 .. 2 : lanes[h] \in Seq(On(sent, h - 1))
      /\ JoinFits(sent, join)
  BY DEF FlowInv
<1> DEFINE b == Less(join.buffers, key)
<1>2. /\ join' = [join EXCEPT !.buffers = b] /\ joined' = <<>> /\ lost' = lost + 1
      /\ levels' = levels /\ ordered' = ordered /\ sent' = sent /\ lanes' = lanes
  <2>1. join = [setup |-> join.setup, queues |-> join.queues, buffers |-> join.buffers]
    BY <1>1 DEF JoinFits
  <2>. QED
    BY <2>1 DEF Evict
<1>3. b = [x \in DOMAIN join.buffers \ {key} |-> join.buffers[x]]
  BY DEF Less, Restrict
<1>. HIDE DEF b
<1>4. join' = [setup |-> join.setup, queues |-> join.queues, buffers |-> b]
  BY <1>1, <1>2 DEF JoinFits
<1>5. JoinFits(sent, join')
  <2>1. join'.setup = join.setup /\ join'.queues = join.queues /\ join'.buffers = b
    BY <1>4
  <2>2. \A x \in DOMAIN b : x \in DOMAIN join.buffers /\ b[x] = join.buffers[x]
    BY <1>3
  <2>. QED
    BY <1>1, <1>4, <2>1, <2>2 DEF JoinFits
<1>6. lost' \in Nat /\ lost' # 0
  BY <1>1, <1>2
<1>7. JoinsWhatBelongs'
  BY <1>2 DEF JoinsWhatBelongs
<1>. QED
  BY <1>1, <1>2, <1>5, <1>6, <1>7 DEF FlowInv

\* A joining module that is reset waits for every port again.
LEMMA ResetKeeps ==
    ASSUME FlowInv, NEW setup \in Alike, Reset(setup)
    PROVE  FlowInv'
<1>1. /\ levels \in DOMAIN Arrays /\ lost \in Nat /\ sent \in Seq(Carried)
      /\ DOMAIN lanes = 1 .. 2 /\ \A h \in 1 .. 2 : lanes[h] \in Seq(On(sent, h - 1))
  BY DEF FlowInv
<1>2. /\ join' = ResetState(setup) /\ joined' = <<>> /\ lost' = lost + 1
      /\ levels' = levels /\ ordered' = ordered /\ sent' = sent /\ lanes' = lanes
  BY DEF Reset
<1>3. JoinFits(sent, ResetState(setup))
  BY ResetFits DEF Alike
<1>4. lost' \in Nat /\ lost' # 0
  BY <1>1, <1>2
<1>5. JoinsWhatBelongs'
  BY <1>2 DEF JoinsWhatBelongs
<1>. QED
  BY <1>1, <1>2, <1>3, <1>4, <1>5 DEF FlowInv

\* The invariant holds from the start and through every step.
THEOREM FlowInvHolds == FlowSpec => []FlowInv
<1>1. FlowInit => FlowInv
  BY FlowBegins
<1>2. FlowInv /\ [FlowNext]_flowVars => FlowInv'
  <2> SUFFICES ASSUME FlowInv, [FlowNext]_flowVars PROVE FlowInv'
    OBVIOUS
  <2>1. ASSUME NEW array \in Arrays[levels], Send(array) PROVE FlowInv'
    BY <2>1, SendKeeps
  <2>2. ASSUME NEW l \in 1 .. 2, NEW k \in Leaving(l), Arrive(l, k) PROVE FlowInv'
    BY <2>2, ArriveKeeps
  <2>3. ASSUME NEW l \in 1 .. 2, NEW k \in Leaving(l), Fail(l, k) PROVE FlowInv'
    BY <2>3, FailKeeps
  <2>4. ASSUME NEW key \in DOMAIN join.buffers, Evict(key) PROVE FlowInv'
    BY <2>4, EvictKeeps
  <2>5. ASSUME NEW setup \in Alike, Reset(setup) PROVE FlowInv'
    BY <2>5, ResetKeeps
  <2>6. CASE UNCHANGED flowVars
    <3>1. /\ levels' = levels /\ ordered' = ordered /\ sent' = sent /\ lanes' = lanes
          /\ join' = join /\ joined' = joined /\ lost' = lost
      BY <2>6 DEF flowVars
    <3>2. JoinsWhatBelongs'
      BY <3>1 DEF FlowInv, JoinsWhatBelongs, ItemOf
    <3>. QED
      BY <3>1, <3>2 DEF FlowInv
  <2>. QED
    BY <2>1, <2>2, <2>3, <2>4, <2>5, <2>6 DEF FlowNext
<1>. QED
  BY <1>1, <1>2, PTL DEF FlowSpec

\* The values that are joined are those of one item, whatever came in between,
\* where the key of their contexts or the order of the lanes says so.
THEOREM JoinsWhatBelongsHolds == FlowSpec => []JoinsWhatBelongs
<1>1. FlowInv => JoinsWhatBelongs
  BY DEF FlowInv
<1>. QED
  BY <1>1, FlowInvHolds, PTL

-----------------------------------------------------------------------------
(* Definitions: what the invariant says.                                    *)

\* A size that configs have is within its bounds.
SizeFits(configs) ==
    HasFamily /\ <<"n">> \in DOMAIN configs => configs[<<"n">>] \in {Int_(i) : i \in 1 .. MaxFamily}

\* A spec has the fields of one.
Shaped(s) == s = [inputs |-> s.inputs, outputs |-> s.outputs, configs |-> s.configs, specs |-> s.specs]

\* What a definition of a build is, by the assumption on the builds.
Sound(def) ==
    /\ def.numbered \in BOOLEAN
    /\ def.numbered => def.configs # None /\ <<"n">> \in DOMAIN def.configs[1]
    /\ def.configs # None => /\ \A k \in DOMAIN def.configs[1] : ~IsAside(k)
                            /\ Fitting(Defaults(def)[1])

\* The spec keeps its form, sizes stay in their bounds and texts texts: that is
\* why what is set comes back from a resize as it was.
SpecInv ==
    /\ build \in DOMAIN Builds
    /\ Shaped(spec)
    /\ SizeFits(OrElse(spec.configs, NoConfigs))
    /\ Fitting(edited)
    /\ EditsSurvive

-----------------------------------------------------------------------------
(* Options, keys and sizes.                                                 *)

\* An option is what it was made of.
LEMMA SomeIs == \A x : Some(x) # None /\ Some(x)[1] = x /\ OrElse(Some(x), NoConfigs) = x
  BY DEF Some, None, OrElse

\* What is missing is what it is replaced by.
LEMMA NoneIs == \A x : OrElse(None, x) = x
  BY DEF OrElse

\* What is there is not replaced.
LEMMA OptionIs == \A o : o # None => \A x : OrElse(o, x) = o[1]
  BY DEF OrElse

\* A map over another has the keys of both, and the values of the first where
\* it has one.
LEMMA OverIs ==
    ASSUME NEW f, NEW g
    PROVE  /\ DOMAIN Over(f, g) = DOMAIN f \cup DOMAIN g
           /\ \A k \in DOMAIN f : Over(f, g)[k] = f[k]
           /\ \A k \in DOMAIN g : k \notin DOMAIN f => Over(f, g)[k] = g[k]
  BY DEF Over

\* A key put aside can be told from the others, and leads back to its own.
LEMMA AsideIs == \A k : IsAside(Aside(k)) /\ Aside(k)[2] = k /\ ~IsAside(<<"n">>)
  BY DEF Aside, IsAside

\* The keys of a family are not put aside, and none is the size.
LEMMA FamilyIs ==
    ASSUME NEW n
    PROVE  /\ n \in 1 .. MaxFamily => Family(n) \subseteq Family(MaxFamily)
           /\ \A k \in Family(n) : ~IsAside(k) /\ k # <<"n">>
<1>1. ASSUME n \in 1 .. MaxFamily
      PROVE  Family(n) \subseteq Family(MaxFamily)
  BY <1>1 DEF Family, MaxFamily
<1>2. ASSUME NEW k \in Family(n)
      PROVE  ~IsAside(k) /\ k # <<"n">>
  <2>1. PICK i \in 0 .. n - 1 : k = <<"c", ToString(i)>>
    BY DEF Family
  <2>2. k[1] = "c"
    BY <2>1
  <2>3. <<"n">>[1] = "n" /\ "n" # "c" /\ "_" # "c"
    OBVIOUS
  <2>. QED
    BY <2>2, <2>3 DEF IsAside
<1>. QED
  BY <1>1, <1>2

\* A number within the bounds of a size is its own clamp.
LEMMA ClampIs ==
    ASSUME NEW i \in 1 .. MaxFamily
    PROVE  Max({1, Min({MaxFamily, i})}) = i
<1>. USE DEF MaxFamily
<1>1. Min({64, i}) = i
  <2>1. \E x \in {64, i} : \A y \in {64, i} : x <= y
    OBVIOUS
  <2>2. Min({64, i}) \in {64, i} /\ \A y \in {64, i} : Min({64, i}) <= y
    BY <2>1 DEF Min
  <2>. QED
    BY <2>2
<1>2. Max({1, i}) = i
  <2>1. \E x \in {1, i} : \A y \in {1, i} : x >= y
    OBVIOUS
  <2>2. Max({1, i}) \in {1, i} /\ \A y \in {1, i} : Max({1, i}) >= y
    BY <2>1 DEF Max
  <2>. QED
    BY <2>2
<1>. QED
  BY <1>1, <1>2

\* The size of a family is what the configs say it is.
LEMMA SizeIs ==
    ASSUME NEW configs, SizeFits(configs), HasFamily
    PROVE  /\ Size(configs) \in 1 .. MaxFamily
           /\ <<"n">> \in DOMAIN configs => configs[<<"n">>] = Int_(Size(configs))
<1>1. CASE <<"n">> \notin DOMAIN configs
  BY <1>1 DEF Size, MaxFamily
<1>2. CASE <<"n">> \in DOMAIN configs
  <2>1. PICK i \in 1 .. MaxFamily : configs[<<"n">>] = Int_(i)
    BY <1>2 DEF SizeFits
  <2>2. AsI64(configs[<<"n">>]) = Some(i)
    BY <2>1 DEF AsI64, Kind, Int_
  <2>3. OrElse(Some(i), 2) = i
    BY SomeIs DEF OrElse
  <2>4. Size(configs) = i
    BY <1>2, <2>2, <2>3, ClampIs DEF Size
  <2>. QED
    BY <2>1, <2>4
<1>. QED
  BY <1>1, <1>2

-----------------------------------------------------------------------------
(* What a load and an edit do to a spec.                                    *)

\* A size that fits is kept by whatever has it from one of two maps.
LEMMA SizeStays ==
    ASSUME NEW f, NEW g, SizeFits(f), SizeFits(g)
    PROVE  SizeFits(Over(f, g))
<1>. DEFINE key   == <<"n">>
            sizes == {Int_(i) : i \in 1 .. MaxFamily}
<1>1. /\ HasFamily /\ key \in DOMAIN f => f[key] \in sizes
      /\ HasFamily /\ key \in DOMAIN g => g[key] \in sizes
  BY DEF SizeFits
<1>. SUFFICES ASSUME HasFamily, key \in DOMAIN Over(f, g)
              PROVE  Over(f, g)[key] \in sizes
  BY DEF SizeFits
<1>. HIDE DEF key, sizes
<1>2. /\ DOMAIN Over(f, g) = DOMAIN f \cup DOMAIN g
      /\ \A k \in DOMAIN f : Over(f, g)[k] = f[k]
      /\ \A k \in DOMAIN g : k \notin DOMAIN f => Over(f, g)[k] = g[k]
  BY OverIs
<1>. QED
  BY <1>1, <1>2

\* The definition of a build is as the assumption has it.
LEMMA BuildIsSound ==
    ASSUME NEW b \in DOMAIN Builds, Builds[b] # None
    PROVE  Sound(Builds[b][1]) /\ (Builds[b][1].numbered => HasFamily)
  BY DefinitionsAssumption DEF Sound, HasFamily

\* A sound definition's defaults fit, and none is under a key put aside.
LEMMA DefaultsFit ==
    ASSUME NEW def, Sound(def)
    PROVE  /\ SizeFits(OrElse(Defaults(def), NoConfigs))
           /\ def.configs = None => Defaults(def) = None
           /\ def.configs # None =>
                  /\ Defaults(def) # None
                  /\ DOMAIN OrElse(Defaults(def), NoConfigs) = DOMAIN def.configs[1]
<1>1. CASE def.configs = None
  BY <1>1, NoneIs DEF Defaults, SizeFits, NoConfigs
<1>2. CASE def.configs # None
  <2>1. OrElse(Defaults(def), NoConfigs) = Defaults(def)[1]
    BY <1>2, SomeIs DEF Defaults
  <2>2. SizeFits(Defaults(def)[1])
    BY <1>2 DEF Sound, Fitting, SizeFits
  <2>3. Defaults(def) # None /\ DOMAIN Defaults(def)[1] = DOMAIN def.configs[1]
    BY <1>2, SomeIs DEF Defaults
  <2>. QED
    BY <1>2, <2>1, <2>2, <2>3
<1>. QED
  BY <1>1, <1>2

\* What is put aside is found under its aside key, and the rest is kept.
LEMMA PutAsideIs ==
    ASSUME NEW configs, NEW known
    PROVE  LET put == PutAside(configs, known) IN
           /\ \A k \in DOMAIN configs : ~IsAside(k) /\ k \in known =>
                  k \in DOMAIN put /\ put[k] = configs[k]
           /\ \A k \in DOMAIN configs : ~IsAside(k) /\ k \notin known =>
                  k \notin DOMAIN put /\ Aside(k) \in DOMAIN put /\ put[Aside(k)] = configs[k]
           /\ SizeFits(configs) => SizeFits(put)
<1>. DEFINE stale == {k \in DOMAIN configs : ~IsAside(k) /\ k \notin known}
            put   == PutAside(configs, known)
<1>1. DOMAIN put = (DOMAIN configs \ stale) \cup {Aside(s) : s \in stale}
  BY DEF PutAside
<1>2. \A k \in DOMAIN put : put[k] = IF IsAside(k) /\ k[2] \in stale THEN configs[k[2]] ELSE configs[k]
  BY DEF PutAside
<1>. HIDE DEF put
<1>3. ASSUME NEW k \in DOMAIN configs, ~IsAside(k), k \in known
      PROVE  k \in DOMAIN put /\ put[k] = configs[k]
  BY <1>1, <1>2, <1>3
<1>4. ASSUME NEW k \in DOMAIN configs, ~IsAside(k), k \notin known
      PROVE  k \notin DOMAIN put /\ Aside(k) \in DOMAIN put /\ put[Aside(k)] = configs[k]
  <2>1. k \in stale
    BY <1>4
  <2>2. \A s \in stale : Aside(s) # k
    BY <1>4, AsideIs
  <2>3. k \notin DOMAIN put /\ Aside(k) \in DOMAIN put
    BY <1>1, <2>1, <2>2
  <2>. QED
    BY <1>2, <2>1, <2>3, AsideIs
<1>5. ASSUME SizeFits(configs)
      PROVE  SizeFits(put)
  <2>1. ASSUME <<"n">> \in DOMAIN put
        PROVE  <<"n">> \in DOMAIN configs /\ put[<<"n">>] = configs[<<"n">>]
    BY <1>1, <1>2, <2>1, AsideIs
  <2>. QED
    BY <1>5, <2>1 DEF SizeFits
<1>. QED
  BY <1>3, <1>4, <1>5 DEF put

\* A renumbered module has its static configs and its family: what the configs
\* had of either is kept, and the size is what they said.
LEMMA RenumberIs ==
    ASSUME NEW def, Sound(def), def.numbered, HasFamily, NEW s, Shaped(s),
           SizeFits(OrElse(s.configs, NoConfigs))
    PROVE  LET configs == OrElse(s.configs, NoConfigs)
               n       == Size(configs)
               r       == Renumber(def, s)
           IN /\ Shaped(r) /\ r.configs # None
              /\ \A k \in DOMAIN def.configs[1] :
                     /\ k \in DOMAIN r.configs[1]
                     /\ k \in DOMAIN configs => r.configs[1][k] = configs[k]
              /\ \A k \in Family(n) : k \notin DOMAIN def.configs[1] =>
                     k \in DOMAIN r.configs[1] /\ r.configs[1][k] = NumberedConfig(configs, k)
              /\ SizeFits(r.configs[1])
              /\ Size(r.configs[1]) = n /\ n \in 1 .. MaxFamily
<1>. DEFINE configs == OrElse(s.configs, NoConfigs)
            n       == Size(configs)
            r       == Renumber(def, s)
            statics == [k \in DOMAIN def.configs[1] |->
                          IF k = <<"n">> THEN Int_(n)
                          ELSE IF k \in DOMAIN configs THEN configs[k] ELSE s.specs[1][k].value]
            family  == [k \in Family(n) |-> NumberedConfig(configs, k)]
<1>1. Shaped(r) /\ r.configs = Some(Over(statics, family))
  <2>. DEFINE specs   == Some(Over(def.configs[1], [k \in Family(n) |-> ConfigSpec("string", Str(""))]))
              outputs == Some([i \in 1 .. n + 1 |-> IF i <= n THEN ToString(i - 1) ELSE "_"])
              held    == Some(Over(statics, family))
  <2>1. r = [s EXCEPT !.configs = held, !.specs = specs, !.outputs = outputs]
    BY DEF Renumber
  <2>. HIDE DEF specs, outputs, held, r
  <2>2. r = [inputs |-> s.inputs, outputs |-> outputs, configs |-> held, specs |-> specs]
    BY <2>1 DEF Shaped
  <2>. QED
    BY <2>2 DEF Shaped, held
<1>2. r.configs # None /\ r.configs[1] = Over(statics, family)
  BY <1>1, SomeIs
<1>3. n \in 1 .. MaxFamily /\ (<<"n">> \in DOMAIN configs => configs[<<"n">>] = Int_(n))
  BY SizeIs
<1>. HIDE DEF configs, r
<1>4. /\ DOMAIN statics = DOMAIN def.configs[1]
      /\ <<"n">> \in DOMAIN statics /\ statics[<<"n">>] = Int_(n)
      /\ \A k \in DOMAIN statics : k \in DOMAIN configs => statics[k] = configs[k]
  BY <1>3 DEF Sound
<1>5. DOMAIN family = Family(n) /\ \A k \in Family(n) : family[k] = NumberedConfig(configs, k)
  OBVIOUS
<1>. HIDE DEF statics, family, n
<1>6. /\ DOMAIN Over(statics, family) = DOMAIN statics \cup DOMAIN family
      /\ \A k \in DOMAIN statics : Over(statics, family)[k] = statics[k]
      /\ \A k \in DOMAIN family : k \notin DOMAIN statics => Over(statics, family)[k] = family[k]
  BY OverIs
<1>7. <<"n">> \in DOMAIN r.configs[1] /\ r.configs[1][<<"n">>] = Int_(n)
  BY <1>2, <1>4, <1>6
<1>8. Size(r.configs[1]) = n
  <2>1. AsI64(Int_(n)) = Some(n)
    BY DEF AsI64, Kind, Int_
  <2>2. OrElse(Some(n), 2) = n
    BY SomeIs DEF OrElse
  <2>. QED
    BY <1>3, <1>7, <2>1, <2>2, ClampIs DEF Size
<1>9. SizeFits(r.configs[1])
  BY <1>3, <1>7 DEF SizeFits
<1>10. \A k \in DOMAIN def.configs[1] :
          /\ k \in DOMAIN r.configs[1]
          /\ k \in DOMAIN configs => r.configs[1][k] = configs[k]
  BY <1>2, <1>4, <1>6
<1>11. \A k \in Family(n) : k \notin DOMAIN def.configs[1] =>
          k \in DOMAIN r.configs[1] /\ r.configs[1][k] = NumberedConfig(configs, k)
  BY <1>2, <1>4, <1>5, <1>6
<1>. QED
  BY <1>1, <1>2, <1>3, <1>8, <1>9, <1>10, <1>11 DEF configs, n, r

\* The configs the module knows come through from s to r, be they among those of
\* s or, where they are of the family, put aside.
ComeThrough(opt, s, r) ==
    LET configs == OrElse(s.configs, NoConfigs)
        after   == OrElse(r.configs, NoConfigs)
    IN \A k, v : /\ ~IsAside(k) /\ Known(opt, k, r)
                 /\ \/ k \in DOMAIN configs /\ configs[k] = v
                    \/ /\ opt[1].configs = None \/ k \notin DOMAIN opt[1].configs[1]
                       /\ k \notin DOMAIN configs
                       /\ Aside(k) \in DOMAIN configs /\ configs[Aside(k)] = v
                 /\ HasFamily /\ k \in Family(MaxFamily) => Kind(v) = "str"
                 => k \in DOMAIN after /\ after[k] = v

\* So they do through a change of configs.
LEMMA ChangedKeeps ==
    ASSUME NEW opt, opt # None, NEW def, def = opt[1], Sound(def), def.numbered => HasFamily,
           NEW s, Shaped(s), SizeFits(OrElse(s.configs, NoConfigs))
    PROVE  LET r == Changed(def, s) IN
           /\ Shaped(r) /\ SizeFits(OrElse(r.configs, NoConfigs))
           /\ s.configs # None => r.configs # None
           /\ ComeThrough(opt, s, r)
<1>. DEFINE configs == OrElse(s.configs, NoConfigs)
            n       == Size(configs)
            r       == Changed(def, s)
<1>1. CASE ~def.numbered
  <2>1. r = s
    BY <1>1 DEF Changed
  <2>2. ASSUME NEW k, NEW v, Known(opt, k, r)
        PROVE  def.configs # None /\ k \in DOMAIN def.configs[1]
    BY <1>1, <2>2 DEF Known
  <2>. QED
    BY <2>1, <2>2 DEF ComeThrough
<1>2. CASE def.numbered
  <2>1. r = Renumber(def, s)
    BY <1>2 DEF Changed
  <2>2. /\ Shaped(r) /\ r.configs # None
        /\ \A k \in DOMAIN def.configs[1] :
               /\ k \in DOMAIN r.configs[1]
               /\ k \in DOMAIN configs => r.configs[1][k] = configs[k]
        /\ \A k \in Family(n) : k \notin DOMAIN def.configs[1] =>
               k \in DOMAIN r.configs[1] /\ r.configs[1][k] = NumberedConfig(configs, k)
        /\ SizeFits(r.configs[1])
        /\ Size(r.configs[1]) = n /\ n \in 1 .. MaxFamily
    BY <1>2, <2>1, RenumberIs
  <2>. HIDE DEF r, configs, n
  <2>3. OrElse(r.configs, NoConfigs) = r.configs[1]
    BY <2>2, OptionIs
  <2>4. ASSUME NEW k, NEW v, ~IsAside(k), Known(opt, k, r),
               \/ k \in DOMAIN configs /\ configs[k] = v
               \/ /\ def.configs = None \/ k \notin DOMAIN def.configs[1]
                  /\ k \notin DOMAIN configs
                  /\ Aside(k) \in DOMAIN configs /\ configs[Aside(k)] = v,
               k \in Family(MaxFamily) => Kind(v) = "str"
        PROVE  k \in DOMAIN r.configs[1] /\ r.configs[1][k] = v
    <3>1. def.configs # None
      BY <1>2 DEF Sound
    <3>2. CASE k \in DOMAIN def.configs[1]
      BY <2>2, <2>4, <3>1, <3>2
    <3>3. CASE k \notin DOMAIN def.configs[1]
      <4>1. k \in Family(n)
        BY <2>2, <2>4, <3>3 DEF Known
      <4>2. Kind(v) = "str"
        BY <2>2, <2>4, <4>1, FamilyIs
      <4>3. NumberedConfig(configs, k) = v
        BY <2>4, <4>2 DEF NumberedConfig, Text
      <4>. QED
        BY <2>2, <3>3, <4>1, <4>3
    <3>. QED
      BY <3>2, <3>3
  <2>. QED
    BY <1>2, <2>2, <2>3, <2>4 DEF ComeThrough, r, configs
<1>. QED
  BY <1>1, <1>2

\* Reconciling keeps the configs the definition knows, and puts the others aside.
LEMMA ReconcileIs ==
    ASSUME NEW def, Sound(def), NEW s, Shaped(s), SizeFits(OrElse(s.configs, NoConfigs))
    PROVE  LET r == Reconcile(def, s) IN
           /\ Shaped(r) /\ SizeFits(OrElse(r.configs, NoConfigs))
           /\ s.configs # None =>
                  /\ r.configs # None
                  /\ \A k \in DOMAIN s.configs[1] : ~IsAside(k) =>
                        IF def.configs # None /\ k \in DOMAIN def.configs[1]
                        THEN k \in DOMAIN r.configs[1] /\ r.configs[1][k] = s.configs[1][k]
                        ELSE /\ k \notin DOMAIN r.configs[1]
                             /\ Aside(k) \in DOMAIN r.configs[1]
                             /\ r.configs[1][Aside(k)] = s.configs[1][k]
<1>. DEFINE r        == Reconcile(def, s)
            known    == IF def.configs = None THEN {} ELSE DOMAIN def.configs[1]
            defaults == OrElse(Defaults(def), NoConfigs)
            put      == PutAside(s.configs[1], known)
<1>1. Shaped(r) /\ r.configs = IF s.configs = None THEN Defaults(def) ELSE Some(Over(put, defaults))
  BY DEF Shaped, Reconcile
<1>2. SizeFits(defaults) /\ DOMAIN defaults = known
  BY DefaultsFit, NoneIs DEF NoConfigs
<1>3. CASE s.configs = None
  BY <1>1, <1>2, <1>3
<1>4. CASE s.configs # None
  <2>1. r.configs # None /\ r.configs[1] = Over(put, defaults)
    BY <1>1, <1>4, SomeIs
  <2>2. SizeFits(s.configs[1])
    BY <1>4, OptionIs
  <2>3. /\ \A k \in DOMAIN s.configs[1] : ~IsAside(k) /\ k \in known =>
               k \in DOMAIN put /\ put[k] = s.configs[1][k]
        /\ \A k \in DOMAIN s.configs[1] : ~IsAside(k) /\ k \notin known =>
               k \notin DOMAIN put /\ Aside(k) \in DOMAIN put /\ put[Aside(k)] = s.configs[1][k]
        /\ SizeFits(put)
    BY <2>2, PutAsideIs
  <2>4. \A k : k \in known <=> def.configs # None /\ k \in DOMAIN def.configs[1]
    OBVIOUS
  <2>. HIDE DEF r, known, defaults, put
  <2>5. /\ DOMAIN Over(put, defaults) = DOMAIN put \cup DOMAIN defaults
        /\ \A k \in DOMAIN put : Over(put, defaults)[k] = put[k]
    BY OverIs
  <2>6. SizeFits(OrElse(r.configs, NoConfigs))
    BY <1>2, <2>1, <2>3, SizeStays, OptionIs
  <2>7. ASSUME NEW k \in DOMAIN s.configs[1], ~IsAside(k), k \in known
        PROVE  k \in DOMAIN r.configs[1] /\ r.configs[1][k] = s.configs[1][k]
    BY <2>1, <2>3, <2>5, <2>7
  <2>8. ASSUME NEW k \in DOMAIN s.configs[1], ~IsAside(k), k \notin known
        PROVE  /\ k \notin DOMAIN r.configs[1]
               /\ Aside(k) \in DOMAIN r.configs[1] /\ r.configs[1][Aside(k)] = s.configs[1][k]
    BY <1>2, <2>1, <2>3, <2>5, <2>8
  <2>. QED
    BY <1>1, <2>1, <2>4, <2>6, <2>7, <2>8 DEF r
<1>. QED
  BY <1>3, <1>4

\* Stripping takes out what is aside and nothing else.
LEMMA StripIs ==
    ASSUME NEW s, Shaped(s), SizeFits(OrElse(s.configs, NoConfigs))
    PROVE  LET r == Strip(s) IN
           /\ Shaped(r) /\ SizeFits(OrElse(r.configs, NoConfigs))
           /\ s.configs # None =>
                  /\ r.configs # None
                  /\ Size(r.configs[1]) = Size(s.configs[1])
                  /\ \A k \in DOMAIN s.configs[1] : ~IsAside(k) =>
                        k \in DOMAIN r.configs[1] /\ r.configs[1][k] = s.configs[1][k]
<1>1. CASE s.configs = None
  BY <1>1 DEF Strip
<1>2. CASE s.configs # None
  <2>. DEFINE r    == Strip(s)
              left == [k \in {k \in DOMAIN s.configs[1] : ~IsAside(k)} |-> s.configs[1][k]]
  <2>1. Shaped(r) /\ r.configs = Some(left)
    BY <1>2 DEF Strip, Shaped
  <2>2. r.configs # None /\ r.configs[1] = left
    BY <2>1, SomeIs
  <2>3. /\ \A k \in DOMAIN left : k \in DOMAIN s.configs[1] /\ left[k] = s.configs[1][k]
        /\ \A k \in DOMAIN s.configs[1] : ~IsAside(k) => k \in DOMAIN left /\ left[k] = s.configs[1][k]
    OBVIOUS
  <2>. HIDE DEF r, left
  <2>4. /\ <<"n">> \in DOMAIN left <=> <<"n">> \in DOMAIN s.configs[1]
        /\ <<"n">> \in DOMAIN left => left[<<"n">>] = s.configs[1][<<"n">>]
    BY <2>3, AsideIs
  <2>5. Size(left) = Size(s.configs[1])
    BY <2>4 DEF Size
  <2>6. SizeFits(left)
    BY <1>2, <2>4, OptionIs DEF SizeFits
  <2>. QED
    BY <1>2, <2>1, <2>2, <2>3, <2>5, <2>6, OptionIs DEF r
<1>. QED
  BY <1>1, <1>2

\* What a spec has of the configs e remembers.
Holds(e, s) ==
    \A k \in DOMAIN e : s.configs # None /\ k \in DOMAIN s.configs[1] /\ s.configs[1][k] = e[k]

\* A key a definition knows is not one that would be put aside.
LEMMA KnownIsPlain ==
    ASSUME NEW opt, opt # None, Sound(opt[1]), NEW s, NEW k, Known(opt, k, s)
    PROVE  ~IsAside(k)
  BY FamilyIs DEF Known, Sound

\* A module that is loaded has what was set, of what its definition knows.
LEMMA LoadedKeeps ==
    ASSUME NEW opt, opt # None, NEW def, def = opt[1], Sound(def), def.numbered => HasFamily,
           NEW s, Shaped(s), SizeFits(OrElse(s.configs, NoConfigs)),
           NEW e, Fitting(e), Holds(e, s)
    PROVE  LET r == Loaded(opt, s) IN
           /\ Shaped(r) /\ SizeFits(OrElse(r.configs, NoConfigs))
           /\ \A k \in DOMAIN e : Known(opt, k, r) =>
                  r.configs # None /\ k \in DOMAIN r.configs[1] /\ r.configs[1][k] = e[k]
<1>. DEFINE q == Reconcile(def, s)
            c == Changed(def, q)
            r == Loaded(opt, s)
<1>1. r = Strip(c)
  BY DEF Loaded
<1>2. /\ Shaped(q) /\ SizeFits(OrElse(q.configs, NoConfigs))
      /\ s.configs # None =>
             /\ q.configs # None
             /\ \A k \in DOMAIN s.configs[1] : ~IsAside(k) =>
                   IF def.configs # None /\ k \in DOMAIN def.configs[1]
                   THEN k \in DOMAIN q.configs[1] /\ q.configs[1][k] = s.configs[1][k]
                   ELSE /\ k \notin DOMAIN q.configs[1]
                        /\ Aside(k) \in DOMAIN q.configs[1]
                        /\ q.configs[1][Aside(k)] = s.configs[1][k]
  BY ReconcileIs
<1>. HIDE DEF q
<1>3. /\ Shaped(c) /\ SizeFits(OrElse(c.configs, NoConfigs))
      /\ q.configs # None => c.configs # None
      /\ ComeThrough(opt, q, c)
  BY <1>2, ChangedKeeps
<1>. HIDE DEF c
<1>4. /\ Shaped(r) /\ SizeFits(OrElse(r.configs, NoConfigs))
      /\ c.configs # None =>
             /\ r.configs # None
             /\ Size(r.configs[1]) = Size(c.configs[1])
             /\ \A k \in DOMAIN c.configs[1] : ~IsAside(k) =>
                   k \in DOMAIN r.configs[1] /\ r.configs[1][k] = c.configs[1][k]
  BY <1>1, <1>3, StripIs
<1>. HIDE DEF r
<1>5. ASSUME NEW k \in DOMAIN e, Known(opt, k, r)
      PROVE  r.configs # None /\ k \in DOMAIN r.configs[1] /\ r.configs[1][k] = e[k]
  <2>1. s.configs # None /\ k \in DOMAIN s.configs[1] /\ s.configs[1][k] = e[k]
    BY DEF Holds
  <2>2. ~IsAside(k)
    BY <1>5, KnownIsPlain
  <2>3. HasFamily /\ k \in Family(MaxFamily) => Kind(e[k]) = "str"
    BY DEF Fitting
  <2>4. q.configs # None /\ OrElse(q.configs, NoConfigs) = q.configs[1]
    BY <1>2, <2>1, OptionIs
  <2>5. c.configs # None /\ OrElse(c.configs, NoConfigs) = c.configs[1]
    BY <1>3, <2>4, OptionIs
  <2>6. Known(opt, k, c)
    BY <1>4, <1>5, <2>5 DEF Known
  <2>7. \/ k \in DOMAIN q.configs[1] /\ q.configs[1][k] = e[k]
        \/ /\ def.configs = None \/ k \notin DOMAIN def.configs[1]
           /\ k \notin DOMAIN q.configs[1]
           /\ Aside(k) \in DOMAIN q.configs[1] /\ q.configs[1][Aside(k)] = e[k]
    BY <1>2, <2>1, <2>2
  <2>8. k \in DOMAIN c.configs[1] /\ c.configs[1][k] = e[k]
    BY <1>3, <2>2, <2>3, <2>4, <2>5, <2>6, <2>7 DEF ComeThrough
  <2>. QED
    BY <1>4, <2>2, <2>5, <2>8
<1>. QED
  BY <1>4, <1>5 DEF r

\* Configs that are merged in are those of the spec, and the others stay.
LEMMA MergeIs ==
    ASSUME NEW s, Shaped(s), SizeFits(OrElse(s.configs, NoConfigs)), NEW new, Fitting(new),
           NEW e, Holds(e, s)
    PROVE  LET m == Merge(s, new) IN
           /\ Shaped(m) /\ m.configs # None /\ SizeFits(m.configs[1])
           /\ Holds(Over(new, e), m)
<1>. DEFINE m   == Merge(s, new)
            had == OrElse(s.configs, NoConfigs)
            all == Over(new, e)
<1>1. Shaped(m) /\ m.configs = Some(Over(new, had))
  BY DEF Merge, Shaped
<1>2. m.configs # None /\ m.configs[1] = Over(new, had)
  BY <1>1, SomeIs
<1>3. SizeFits(new)
  BY DEF Fitting, SizeFits
<1>4. \A k \in DOMAIN e : k \in DOMAIN had /\ had[k] = e[k]
  BY OptionIs DEF Holds
<1>. HIDE DEF m, had
<1>5. /\ DOMAIN Over(new, had) = DOMAIN new \cup DOMAIN had
      /\ \A k \in DOMAIN new : Over(new, had)[k] = new[k]
      /\ \A k \in DOMAIN had : k \notin DOMAIN new => Over(new, had)[k] = had[k]
  BY OverIs
<1>6. /\ DOMAIN all = DOMAIN new \cup DOMAIN e
      /\ \A k \in DOMAIN new : all[k] = new[k]
      /\ \A k \in DOMAIN e : k \notin DOMAIN new => all[k] = e[k]
  BY OverIs
<1>7. SizeFits(m.configs[1])
  BY <1>2, <1>3, SizeStays DEF had
<1>. HIDE DEF all
<1>8. Holds(all, m)
  BY <1>2, <1>4, <1>5, <1>6 DEF Holds
<1>. QED
  BY <1>1, <1>2, <1>7, <1>8 DEF m, all

\* A module that is edited has what is set and what was, of what it knows.
LEMMA SetKeeps ==
    ASSUME NEW opt, opt # None => Sound(opt[1]) /\ (opt[1].numbered => HasFamily),
           NEW s, Shaped(s), SizeFits(OrElse(s.configs, NoConfigs)), NEW new, Fitting(new),
           NEW e, Fitting(Over(new, e)), Holds(e, s)
    PROVE  LET r   == SetConfigs(opt, s, new)
               all == Over(new, e)
           IN /\ Shaped(r) /\ SizeFits(OrElse(r.configs, NoConfigs))
              /\ \A k \in DOMAIN all : Known(opt, k, r) =>
                     r.configs # None /\ k \in DOMAIN r.configs[1] /\ r.configs[1][k] = all[k]
<1>. DEFINE m   == Merge(s, new)
            all == Over(new, e)
            r   == SetConfigs(opt, s, new)
<1>1. Shaped(m) /\ m.configs # None /\ SizeFits(m.configs[1]) /\ Holds(all, m)
  BY MergeIs
<1>2. OrElse(m.configs, NoConfigs) = m.configs[1]
  BY <1>1, OptionIs
<1>. HIDE DEF m, all
<1>3. CASE opt = None
  <2>1. r = m
    BY <1>3 DEF SetConfigs, m
  <2>. QED
    BY <1>1, <1>2, <2>1 DEF Holds, all
<1>4. CASE opt # None
  <2>1. r = Changed(opt[1], m)
    BY <1>4 DEF SetConfigs, m
  <2>2. /\ Shaped(r) /\ SizeFits(OrElse(r.configs, NoConfigs))
        /\ r.configs # None
        /\ ComeThrough(opt, m, r)
    BY <1>1, <1>2, <1>4, <2>1, ChangedKeeps
  <2>. HIDE DEF r
  <2>3. OrElse(r.configs, NoConfigs) = r.configs[1]
    BY <2>2, OptionIs
  <2>4. ASSUME NEW k \in DOMAIN all, Known(opt, k, r)
        PROVE  k \in DOMAIN r.configs[1] /\ r.configs[1][k] = all[k]
    <3>1. ~IsAside(k)
      BY <1>4, <2>4, KnownIsPlain
    <3>2. k \in DOMAIN m.configs[1] /\ m.configs[1][k] = all[k]
      BY <1>1 DEF Holds
    <3>3. HasFamily /\ k \in Family(MaxFamily) => Kind(all[k]) = "str"
      BY DEF Fitting, all
    <3>. QED
      BY <1>2, <2>2, <2>3, <2>4, <3>1, <3>2, <3>3 DEF ComeThrough
  <2>. QED
    BY <2>2, <2>4 DEF r, all
<1>. QED
  BY <1>3, <1>4

\* What fits still does over what fits.
LEMMA FittingOver ==
    ASSUME NEW f, NEW g, Fitting(f), Fitting(g)
    PROVE  Fitting(Over(f, g))
<1>1. /\ DOMAIN Over(f, g) = DOMAIN f \cup DOMAIN g
      /\ \A k \in DOMAIN f : Over(f, g)[k] = f[k]
      /\ \A k \in DOMAIN g : k \notin DOMAIN f => Over(f, g)[k] = g[k]
  BY OverIs
<1>2. ASSUME HasFamily, NEW k \in DOMAIN Over(f, g)
      PROVE  /\ k = <<"n">> => Over(f, g)[k] \in {Int_(i) : i \in 1 .. MaxFamily}
             /\ k \in Family(MaxFamily) => Kind(Over(f, g)[k]) = "str"
  <2>1. CASE k \in DOMAIN f
    BY <1>1, <1>2, <2>1 DEF Fitting
  <2>2. CASE k \notin DOMAIN f
    BY <1>1, <1>2, <2>2 DEF Fitting
  <2>. QED
    BY <2>1, <2>2
<1>. QED
  BY <1>2 DEF Fitting

\* What is remembered fits as what it is from, and the spec has it.
LEMMA RememberKeeps ==
    ASSUME NEW all, Fitting(all), NEW opt, NEW s,
           \A k \in DOMAIN all : Known(opt, k, s) =>
               s.configs # None /\ k \in DOMAIN s.configs[1] /\ s.configs[1][k] = all[k]
    PROVE  LET e == [k \in {k \in DOMAIN all : Known(opt, k, s)} |-> all[k]]
           IN Fitting(e) /\ Holds(e, s)
<1>. DEFINE e == [k \in {k \in DOMAIN all : Known(opt, k, s)} |-> all[k]]
<1>1. \A k \in DOMAIN e : k \in DOMAIN all /\ Known(opt, k, s) /\ e[k] = all[k]
  OBVIOUS
<1>. HIDE DEF e
<1>2. Fitting(e)
  BY <1>1 DEF Fitting
<1>3. Holds(e, s)
  BY <1>1 DEF Holds
<1>. QED
  BY <1>2, <1>3 DEF e

-----------------------------------------------------------------------------
(* The steps.                                                               *)

\* A spec starts as its definition has it.
LEMMA SpecInitHolds == SpecInit => SpecInv
<1>. SUFFICES ASSUME SpecInit
              PROVE  SpecInv
  OBVIOUS
<1>. DEFINE def == Builds[build][1]
            s   == ToSpec(def)
<1>1. build \in DOMAIN Builds /\ Builds[build] # None /\ spec = Loaded(Builds[build], s)
      /\ edited = NoConfigs
  BY DEF SpecInit
<1>2. Sound(def) /\ (def.numbered => HasFamily)
  BY <1>1, BuildIsSound
<1>3. Shaped(s) /\ s.configs = Defaults(def)
  BY DEF ToSpec, Shaped
<1>4. SizeFits(OrElse(s.configs, NoConfigs))
  BY <1>2, <1>3, DefaultsFit
<1>5. DOMAIN edited = {}
  BY <1>1 DEF NoConfigs
<1>6. Fitting(edited) /\ Holds(edited, s) /\ EditsSurvive
  BY <1>5 DEF Fitting, Holds, EditsSurvive
<1>. HIDE DEF s
<1>7. Shaped(spec) /\ SizeFits(OrElse(spec.configs, NoConfigs))
  BY <1>1, <1>2, <1>3, <1>4, <1>6, LoadedKeeps
<1>. QED
  BY <1>1, <1>6, <1>7 DEF SpecInv

\* A load.
LEMMA LoadSpecKeeps ==
    ASSUME SpecInv, NEW b \in DOMAIN Builds, LoadSpec(b)
    PROVE  SpecInv'
<1>1. /\ build' = b /\ spec' = Loaded(Builds[b], spec)
      /\ edited' = [k \in {k \in DOMAIN Over(NoConfigs, edited) : Known(Builds[b], k, spec')}
                      |-> Over(NoConfigs, edited)[k]]
  BY DEF LoadSpec, Remember
<1>2. Shaped(spec) /\ SizeFits(OrElse(spec.configs, NoConfigs)) /\ Fitting(edited) /\ Holds(edited, spec)
  BY DEF SpecInv, EditsSurvive, Holds
<1>. DEFINE all == Over(NoConfigs, edited)
<1>3. DOMAIN all = DOMAIN edited /\ \A k \in DOMAIN all : all[k] = edited[k]
  BY DEF Over, NoConfigs
<1>4. Fitting(NoConfigs)
  BY DEF Fitting, NoConfigs
<1>5. Fitting(all)
  BY <1>2, <1>4, FittingOver
<1>. HIDE DEF all
<1>6. /\ Shaped(spec') /\ SizeFits(OrElse(spec'.configs, NoConfigs))
      /\ \A k \in DOMAIN all : Known(Builds[b], k, spec') =>
            spec'.configs # None /\ k \in DOMAIN spec'.configs[1] /\ spec'.configs[1][k] = all[k]
  <2>1. CASE Builds[b] = None
    <3>1. spec' = spec
      BY <1>1, <2>1 DEF Loaded
    <3>. QED
      BY <1>2, <1>3, <3>1 DEF Holds
  <2>2. CASE Builds[b] # None
    <3>1. Sound(Builds[b][1]) /\ (Builds[b][1].numbered => HasFamily)
      BY <2>2, BuildIsSound
    <3>. QED
      BY <1>1, <1>2, <1>3, <2>2, <3>1, LoadedKeeps
  <2>. QED
    BY <2>1, <2>2
<1>7. Fitting(edited') /\ Holds(edited', spec')
  BY <1>1, <1>5, <1>6, RememberKeeps DEF all
<1>. QED
  BY <1>1, <1>6, <1>7 DEF SpecInv, EditsSurvive, Holds

\* Configs that are set, by a host or a wire.
LEMMA SettingKeeps ==
    ASSUME SpecInv, NEW new, Fitting(new), build' = build,
           spec' = SetConfigs(Builds[build], spec, new), Remember(new, Builds[build], spec')
    PROVE  SpecInv'
<1>1. edited' = [k \in {k \in DOMAIN Over(new, edited) : Known(Builds[build], k, spec')}
                   |-> Over(new, edited)[k]]
  BY DEF Remember
<1>2. /\ build \in DOMAIN Builds
      /\ Shaped(spec) /\ SizeFits(OrElse(spec.configs, NoConfigs)) /\ Fitting(edited) /\ Holds(edited, spec)
  BY DEF SpecInv, EditsSurvive, Holds
<1>. DEFINE all == Over(new, edited)
<1>3. Fitting(all)
  BY <1>2, FittingOver
<1>4. Builds[build] # None => Sound(Builds[build][1]) /\ (Builds[build][1].numbered => HasFamily)
  BY <1>2, BuildIsSound
<1>5. /\ Shaped(spec') /\ SizeFits(OrElse(spec'.configs, NoConfigs))
      /\ \A k \in DOMAIN all : Known(Builds[build], k, spec') =>
            spec'.configs # None /\ k \in DOMAIN spec'.configs[1] /\ spec'.configs[1][k] = all[k]
  BY <1>2, <1>3, <1>4, SetKeeps
<1>. HIDE DEF all
<1>6. Fitting(edited') /\ Holds(edited', spec')
  BY <1>1, <1>3, <1>5, RememberKeeps DEF all
<1>. QED
  BY <1>2, <1>5, <1>6 DEF SpecInv, EditsSurvive, Holds

\* A config wire.
LEMMA WireConfigKeeps ==
    ASSUME SpecInv, NEW w \in Wirings, WireConfig(w[1], w[2])
    PROVE  SpecInv'
<1>1. CASE spec.configs = None
  <2>1. build' = build /\ spec' = spec
    BY <1>1 DEF WireConfig, SetOne
  <2>2. DOMAIN edited = {}
    BY <1>1 DEF SpecInv, EditsSurvive
  <2>3. DOMAIN edited' = {}
    BY <1>1, <2>2 DEF WireConfig, Remember, Over, NoConfigs
  <2>. QED
    BY <2>1, <2>3 DEF SpecInv, EditsSurvive, Fitting
<1>2. CASE spec.configs # None
  <2>1. /\ build' = build /\ spec' = SetConfigs(Builds[build], spec, Single(w[1], w[2]))
        /\ Remember(Single(w[1], w[2]), Builds[build], spec')
    BY <1>2 DEF WireConfig, SetOne
  <2>2. Fitting(Single(w[1], w[2]))
    BY DefinitionsAssumption
  <2>. QED
    BY <2>1, <2>2, SettingKeeps
<1>. QED
  BY <1>1, <1>2

\* Every step.
LEMMA SpecNextKeeps == SpecInv /\ [SpecNext]_specVars => SpecInv'
<1>. SUFFICES ASSUME SpecInv, [SpecNext]_specVars
              PROVE  SpecInv'
  OBVIOUS
<1>1. ASSUME NEW b \in DOMAIN Builds, LoadSpec(b)
      PROVE  SpecInv'
  BY <1>1, LoadSpecKeeps
<1>2. ASSUME NEW new \in SpecEdits, EditSpec(new)
      PROVE  SpecInv'
  <2>1. Fitting(new)
    BY DefinitionsAssumption
  <2>. QED
    BY <1>2, <2>1, SettingKeeps DEF EditSpec
<1>3. ASSUME NEW w \in Wirings, WireConfig(w[1], w[2])
      PROVE  SpecInv'
  BY <1>3, WireConfigKeeps
<1>4. ASSUME NEW p \in Patches, PatchSpec(p)
      PROVE  SpecInv'
  <2>1. /\ build' = build /\ edited' = edited
        /\ spec' = [spec EXCEPT !.outputs = Some(p)]
    BY <1>4 DEF PatchSpec, UpdatePorts
  <2>2. Shaped(spec') /\ spec'.configs = spec.configs
    BY <2>1 DEF SpecInv, Shaped
  <2>. QED
    BY <2>1, <2>2 DEF SpecInv, EditsSurvive
<1>5. CASE UNCHANGED specVars
  BY <1>5 DEF specVars, SpecInv, EditsSurvive
<1>. QED
  BY <1>1, <1>2, <1>3, <1>4, <1>5 DEF SpecNext

\* The inductive invariant, for any builds, edits, wires and number of loads.
THEOREM SpecInvHolds == DefinitionsSpec => []SpecInv
  BY SpecInitHolds, SpecNextKeeps, PTL DEF DefinitionsSpec

\* What a host or a wire set last is what the module has, whatever builds load
\* it in between and whatever becomes of the other configs.
THEOREM EditsSurviveHolds == DefinitionsSpec => []EditsSurvive
<1>1. SpecInv => EditsSurvive
  BY DEF SpecInv
<1>. QED
  BY <1>1, SpecInvHolds, PTL
=============================================================================
