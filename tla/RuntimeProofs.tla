--------------------------- MODULE RuntimeProofs ----------------------------
(***************************************************************************)
(* Theorems about the message router, the modules that act on their own    *)
(* and the built-in MCP server.                                            *)
(*                                                                         *)
(* Router: a flow whose contexts are anywhere keeps its one token          *)
(* (OneToken), and what an output or a channel sends arrives in order,     *)
(* effects after their causes (RoutedInOrder), by RouteInv.  McpServer:    *)
(* polls see every record once (PagesAreWhole, by PagesInv), and calls     *)
(* that are overtaken leave modules and files whole (CallsLeaveWhole, by   *)
(* WholeInv and SaverInv).  RunningModules: one timer goes on and what the *)
(* throttle and the delay hold comes out once and in order (TimersKeep, by *)
(* RunTypeOK, Unstopped, Unsent and ValueInv), and a module that is not    *)
(* started is quiet (QuietWhenStopped).                                    *)
(***************************************************************************)
EXTENDS Router, RunningModules, McpServer, FiniteSetTheorems, TLAPS

\* The places of s that are kept, and how many of them come up to the i-th.
Kept(s, S) == {i \in DOMAIN s : s[i] \in S}
Rank(K, i) == Cardinality({j \in K : j <= i})

\* The ranks of a finite set of numbers are 1, 2, ... in order.
LEMMA Ranks ==
    ASSUME NEW K \in SUBSET Nat, IsFiniteSet(K)
    PROVE  /\ Cardinality(K) \in Nat
           /\ \A i \in K : Rank(K, i) \in 1 .. Cardinality(K)
           /\ \A i, j \in K : i < j => Rank(K, i) < Rank(K, j)
           /\ \A k \in 1 .. Cardinality(K) : \E i \in K : Rank(K, i) = k
<1>. DEFINE Below(i) == {j \in K : j <= i}
<1>. DEFINE r == [i \in K |-> Rank(K, i)]
<1>1. Cardinality(K) \in Nat
  BY FS_CardinalityType
<1>2. ASSUME NEW i \in K
      PROVE  IsFiniteSet(Below(i)) /\ Cardinality(Below(i)) \in 1 .. Cardinality(K)
  <2>1. IsFiniteSet(Below(i)) /\ Cardinality(Below(i)) <= Cardinality(K)
    <3>1. Below(i) \in SUBSET K
      OBVIOUS
    <3>. HIDE DEF Below
    <3>. QED
      BY <3>1, FS_Subset
  <2>2. Cardinality(Below(i)) \in Nat
    BY <2>1, FS_CardinalityType
  <2>3. Below(i) # {}
    OBVIOUS
  <2>4. Cardinality(Below(i)) # 0
    BY <2>1, <2>3, FS_EmptySet
  <2>. QED
    BY <1>1, <2>1, <2>2, <2>4
<1>3. ASSUME NEW i \in K, NEW j \in K, i < j
      PROVE  Cardinality(Below(i)) < Cardinality(Below(j))
  <2>0. i \in Nat /\ j \in Nat /\ i < j
    BY <1>3
  <2>1. Below(i) \in SUBSET Below(j) /\ Below(i) # Below(j)
    <3>1. \A k \in K : k \in Nat
      OBVIOUS
    <3>2. \A k \in K : k <= i => k <= j
      BY <2>0, <3>1
    <3>3. j \in Below(j) /\ j \notin Below(i)
      BY <2>0
    <3>. QED
      BY <3>2, <3>3
  <2>2. /\ IsFiniteSet(Below(j)) /\ Cardinality(Below(j)) \in Nat
        /\ Cardinality(Below(i)) \in Nat
    BY <1>1, <1>2
  <2>. HIDE DEF Below
  <2>3. /\ Cardinality(Below(i)) <= Cardinality(Below(j))
        /\ Cardinality(Below(j)) = Cardinality(Below(i)) => Below(j) = Below(i)
    BY <2>1, <2>2, FS_Subset
  <2>. QED
    BY <2>1, <2>2, <2>3
<1>4. \A i \in K : r[i] = Cardinality(Below(i))
  BY DEF Rank
<1>5. r \in Injection(K, 1 .. Cardinality(K))
  <2>1. r \in [K -> 1 .. Cardinality(K)]
    BY <1>2 DEF Rank
  <2>2. ASSUME NEW i \in K, NEW j \in K, r[i] = r[j]
        PROVE  i = j
    <3>1. Cardinality(Below(i)) = Cardinality(Below(j))
      BY <1>4, <2>2
    <3>2. Cardinality(Below(i)) \in Int /\ i \in Nat /\ j \in Nat
      BY <1>1, <1>2
    <3>3. ~(i < j) /\ ~(j < i)
      BY <1>1, <1>2, <1>3, <3>1, <3>2
    <3>. QED
      BY <3>2, <3>3
  <2>. HIDE DEF r
  <2>. QED
    BY <2>1, <2>2 DEF Injection, IsInjective
<1>6. r \in Surjection(K, 1 .. Cardinality(K))
  <2>1. IsFiniteSet(1 .. Cardinality(K)) /\ Cardinality(1 .. Cardinality(K)) = Cardinality(K)
    BY <1>1, FS_Interval
  <2>. DEFINE T == 1 .. Cardinality(K)
  <2>. HIDE DEF r, T
  <2>2. r \in Injection(K, T) /\ IsFiniteSet(T) /\ Cardinality(K) = Cardinality(T)
    BY <1>5, <2>1 DEF T
  <2>3. r \in Surjection(K, T)
    BY <2>2, FS_Injection
  <2>. QED
    BY <2>3 DEF T
<1>7. \A k \in 1 .. Cardinality(K) : \E i \in K : r[i] = k
  BY <1>6 DEF Surjection
<1>. QED
  BY <1>1, <1>2, <1>3, <1>4, <1>7 DEF Rank

\* Within keeps what is in S, and keeps its order.
LEMMA WithinKeeps ==
    ASSUME NEW T, NEW s \in Seq(T), NEW S
    PROVE  /\ Within(s, S) \in Seq(T)
           /\ \A k \in DOMAIN Within(s, S) : Within(s, S)[k] \in S
           /\ \E g \in [DOMAIN Within(s, S) -> DOMAIN s] :
                 /\ \A k \in DOMAIN Within(s, S) : Within(s, S)[k] = s[g[k]]
                 /\ \A k, l \in DOMAIN Within(s, S) : k < l => g[k] < g[l]
           /\ \A i \in DOMAIN s : s[i] \in S => \E k \in DOMAIN Within(s, S) : Within(s, S)[k] = s[i]
<1>. DEFINE K == Kept(s, S)
<1>. DEFINE n == Cardinality(K)
<1>. DEFINE w == Within(s, S)
<1>. DEFINE g == [k \in 1 .. n |-> CHOOSE i \in K : Rank(K, i) = k]
<1>1. K \in SUBSET Nat /\ K \subseteq DOMAIN s
  BY DEF Kept
<1>2. IsFiniteSet(K)
  <2>1. IsFiniteSet(1 .. Len(s))
    BY FS_Interval
  <2>2. K \in SUBSET (1 .. Len(s))
    BY DEF Kept
  <2>. DEFINE I == 1 .. Len(s)
  <2>. HIDE DEF K, I
  <2>. QED
    BY <2>1, <2>2, FS_Subset DEF I
<1>3. /\ n \in Nat
      /\ \A i \in K : Rank(K, i) \in 1 .. n
      /\ \A i, j \in K : i < j => Rank(K, i) < Rank(K, j)
      /\ \A k \in 1 .. n : \E i \in K : Rank(K, i) = k
  <2>. HIDE DEF K
  <2>. QED
    BY <1>1, <1>2, Ranks
<1>4. \A k \in 1 .. n : g[k] \in K /\ Rank(K, g[k]) = k
  <2>. HIDE DEF K
  <2>. QED
    BY <1>3
<1>5. w = [k \in 1 .. n |-> s[g[k]]]
  BY DEF Within, Kept, Rank
<1>6. \A k \in 1 .. n : g[k] \in DOMAIN s /\ s[g[k]] \in S /\ s[g[k]] \in T
  <2>1. \A i \in K : i \in DOMAIN s /\ s[i] \in S /\ s[i] \in T
    BY DEF Kept
  <2>. HIDE DEF g, n, K
  <2>. QED
    BY <1>4, <2>1
<1>. HIDE DEF g, n, K, w
<1>7. DOMAIN w = 1 .. n /\ \A k \in 1 .. n : w[k] = s[g[k]]
  BY <1>5
<1>8. w \in Seq(T)
  <2>1. w \in [1 .. n -> T]
    BY <1>5, <1>6
  <2>. QED
    BY <1>3, <2>1
<1>9. \A k, l \in 1 .. n : k < l => g[k] < g[l]
  <2>. TAKE k \in 1 .. n, l \in 1 .. n
  <2>. HAVE k < l
  <2>1. g[k] \in Nat /\ g[l] \in Nat /\ g[k] \in K /\ g[l] \in K
    BY <1>1, <1>4
  <2>2. g[k] # g[l]
    BY <1>4
  <2>3. ~(g[l] < g[k])
    BY <1>3, <1>4, <2>1
  <2>. QED
    BY <2>1, <2>2, <2>3
<1>10. g \in [1 .. n -> DOMAIN s]
  BY <1>6 DEF g
<1>11. \A i \in DOMAIN s : s[i] \in S => \E k \in 1 .. n : w[k] = s[i]
  <2>. TAKE i \in DOMAIN s
  <2>. HAVE s[i] \in S
  <2>1. i \in K
    BY DEF K, Kept
  <2>2. Rank(K, i) \in 1 .. n
    BY <1>3, <2>1
  <2>3. g[Rank(K, i)] \in K /\ Rank(K, g[Rank(K, i)]) = Rank(K, i)
    BY <1>4, <2>2
  <2>4. g[Rank(K, i)] = i
    <3>. DEFINE h == g[Rank(K, i)]
    <3>1. h \in K /\ h \in Nat /\ i \in Nat
      BY <1>1, <2>1, <2>3
    <3>2. Rank(K, h) = Rank(K, i) /\ Rank(K, i) \in Nat
      BY <1>3, <2>2, <2>3
    <3>. HIDE DEF h
    <3>3. ~(h < i) /\ ~(i < h)
      BY <1>3, <2>1, <3>1, <3>2
    <3>4. h = i
      BY <3>1, <3>3
    <3>. QED
      BY <3>4 DEF h
  <2>. QED
    BY <1>7, <2>2, <2>4
<1>12. \A k \in 1 .. n : w[k] \in S
  BY <1>6, <1>7
<1>. QED
  BY <1>7, <1>8, <1>9, <1>10, <1>11, <1>12 DEF w

\* What is within a set was in the sequence.
LEMMA WithinFrom ==
    ASSUME NEW T, NEW s \in Seq(T), NEW S
    PROVE  \A k \in DOMAIN Within(s, S) : \E j \in DOMAIN s : Within(s, S)[k] = s[j]
<1>1. PICK g \in [DOMAIN Within(s, S) -> DOMAIN s] :
         /\ \A k \in DOMAIN Within(s, S) : Within(s, S)[k] = s[g[k]]
         /\ \A k, l \in DOMAIN Within(s, S) : k < l => g[k] < g[l]
  BY WithinKeeps
<1>. QED
  BY <1>1

\* A list without repetitions stays one.
Once(s) == \A i, j \in DOMAIN s : s[i] = s[j] => i = j

\* What is within a set is there once, if it was.
LEMMA WithinOnce ==
    ASSUME NEW T, NEW s \in Seq(T), NEW S, Once(s)
    PROVE  Once(Within(s, S))
<1>1. PICK g \in [DOMAIN Within(s, S) -> DOMAIN s] :
         /\ \A k \in DOMAIN Within(s, S) : Within(s, S)[k] = s[g[k]]
         /\ \A k, l \in DOMAIN Within(s, S) : k < l => g[k] < g[l]
  BY WithinKeeps
<1>2. DOMAIN Within(s, S) \subseteq Int /\ DOMAIN s \subseteq Int
  <2>1. Within(s, S) \in Seq(T)
    BY WithinKeeps
  <2>. DEFINE w == Within(s, S)
  <2>. HIDE DEF w
  <2>2. w \in Seq(T)
    BY <2>1 DEF w
  <2>. QED
    BY <2>2 DEF w
<1>. SUFFICES ASSUME NEW k \in DOMAIN Within(s, S), NEW l \in DOMAIN Within(s, S),
                     Within(s, S)[k] = Within(s, S)[l]
              PROVE  k = l
  BY DEF Once
<1>3. g[k] = g[l]
  BY <1>1 DEF Once
<1>4. ~(k < l) /\ ~(l < k)
  BY <1>1, <1>2, <1>3
<1>. QED
  BY <1>2, <1>4

\* A set in some order has each of its elements once.
LEMMA SetInOrder ==
    ASSUME NEW S, IsFiniteSet(S)
    PROVE  /\ SetToSeq(S) \in Seq(S)
           /\ Once(SetToSeq(S))
<1>. DEFINE n == Cardinality(S)
<1>1. n \in Nat /\ ExistsBijection(1 .. n, S)
  BY FS_CardinalityType
<1>2. \E f \in [1 .. n -> S] : IsInjective(f)
  BY <1>1 DEF ExistsBijection, Bijection, Injection, IsInjective
<1>3. SetToSeq(S) \in [1 .. n -> S] /\ IsInjective(SetToSeq(S))
  BY <1>2 DEF SetToSeq
<1>. HIDE DEF n
<1>. QED
  BY <1>1, <1>3 DEF IsInjective, Once
-----------------------------------------------------------------------------
(* Types.                                                                   *)

Value   == {w[2] : w \in Writes}
Name    == (UNION {{s.names[m] : m \in Modules} : s \in RouterSetups})
           \cup {e[2] : e \in NameEdits} \cup Value
Channel == {w[1] : w \in Writes} \cup {ChannelOf(m, n) : m \in Modules, n \in Name}
Edge    == UNION {UNION {Range(s.wires[m]) : m \in Modules} : s \in RouterSetups}
Opt(S)  == {None} \cup {Some(x) : x \in S}

Context == [n : Nat, flow : Nat, token : Opt(Nat), value : Value, after : SUBSET Nat]
Event   == [type : {"out"}, module : Modules, port : {"value", "err"}, msg : Context]
           \cup [type : {"external"}, channel : Channel, msg : Context]
Route   == [msg : Context, channel : Opt(Channel), nodes : Seq(Modules), edges : Seq(Modules \X Edge)]
Queueable == [type : {"config"}, chan : Name] \cup [type : {"input"}, msg : Context]

Lists(r)   == DOMAIN r \subseteq Channel /\ r \in [DOMAIN r -> Seq(Modules)]
Tokens(ts) == DOMAIN ts \subseteq Nat /\ ts \in [DOMAIN ts -> Nat]

RouterTypeOK ==
    /\ hub \in Seq(Event) /\ hubOpen \in BOOLEAN
    /\ route \in Opt(Route)
    /\ wires \in [Modules -> Seq(Edge)]
    /\ inbox \in [Modules -> Opt(Seq(Queueable))]
    /\ started \in [Modules -> BOOLEAN] /\ chan \in [Modules -> Name]
    /\ working \in [Modules -> Opt(Context)]
    /\ old \in [Modules -> Seq(Seq(Queueable) \ {<<>>})]
    /\ Lists(registered)
    /\ Tokens(flowTokens)
    /\ flows \in Nat /\ minted \in Nat /\ posted \in Nat
    /\ heard \in Seq([n : Nat, after : SUBSET Nat, channel : Channel])
    /\ seen \in [Modules -> Seq((Modules \X Edge) \X Nat)]

\* A module is listed once, for the channel it has, and only while it runs.
Listed(r, st, ch) ==
    \A c \in DOMAIN r :
       /\ Once(r[c])
       /\ \A i \in DOMAIN r[c] : LET m == r[c][i] IN IsInput(m) /\ st[m] /\ c = ChannelOf(m, ch[m])
ListedWhileStarted == Listed(registered, started, chan)

\* What was sent later is behind on the hub, and what has arrived was sent before.
Ahead(n, h, last) == n <= last /\ \A i \in DOMAIN h : n < h[i].msg.n
HubInOrder(h, last) ==
    \A i \in DOMAIN h : h[i].msg.n <= last /\ \A j \in DOMAIN h : i < j => h[i].msg.n < h[j].msg.n
SentInOrder ==
    /\ HubInOrder(hub, posted)
    /\ route # None => Ahead(route[1].msg.n, hub, posted)
    /\ \A m \in Modules : \A k \in DOMAIN seen[m] :
          /\ Ahead(seen[m][k][2], hub, posted)
          /\ route # None => seen[m][k][2] <= route[1].msg.n

\* Connections are distinct, and a message is still to go over those left.
ToTravel(nodes, edges, n, sn) ==
    /\ Once(nodes) /\ Once(edges)
    /\ \A k \in DOMAIN edges : \A i \in DOMAIN nodes : edges[k][1] # nodes[i]
    /\ \A m \in Modules : \A j \in DOMAIN sn[m] :
          sn[m][j][2] = n => /\ \A k \in DOMAIN edges : sn[m][j][1] # edges[k]
                             /\ \A i \in DOMAIN nodes : sn[m][j][1][1] # nodes[i]
Untravelled ==
    /\ \A m \in Modules : Once(wires[m])
    /\ route # None => ToTravel(route[1].nodes, route[1].edges, route[1].msg.n, seen)

\* The causes of a message are heard, or the write being delivered.
Announced == {heard[i].n : i \in DOMAIN heard}
Pending   == IF route # None /\ route[1].channel # None THEN {route[1].msg.n} ELSE {}
CausesKnown ==
    /\ \A c \in Contexts : c.after \subseteq Announced \cup Pending
    /\ route # None => route[1].msg.after \subseteq Announced

RouteInv == ListedWhileStarted /\ SentInOrder /\ Untravelled /\ CausesKnown /\ InOrder /\ CausesHeard
\* What an option holds.
LEMMA SomeHolds ==
    ASSUME NEW S, NEW o \in Opt(S), o # None
    PROVE  o[1] \in S /\ o = Some(o[1])
BY DEF Opt, None, Some

\* An option may hold any of its values.
LEMMA SomeIsOption ==
    ASSUME NEW S, NEW x \in S
    PROVE  Some(x) \in Opt(S)
BY DEF Opt

\* What is left when one element is taken out, or replaced.
LEMMA Removed1 ==
    ASSUME NEW T, NEW s \in Seq(T), NEW i \in 1 .. Len(s)
    PROVE  /\ RemoveAt(s, i) \in Seq(T)
           /\ \A k \in DOMAIN RemoveAt(s, i) : \E j \in DOMAIN s : RemoveAt(s, i)[k] = s[j]
<1>. DEFINE a == SubSeq(s, 1, i - 1)
<1>. DEFINE b == SubSeq(s, i + 1, Len(s))
<1>1. a \in Seq(T) /\ Len(a) = i - 1 /\ \A k \in 1 .. i - 1 : a[k] = s[k]
  OBVIOUS
<1>2. b \in Seq(T) /\ Len(b) = Len(s) - i /\ \A k \in 1 .. Len(s) - i : b[k] = s[k + i]
  OBVIOUS
<1>. HIDE DEF a, b
<1>3. /\ a \o b \in Seq(T) /\ Len(a \o b) = Len(s) - 1
      /\ \A k \in 1 .. Len(s) - 1 : (a \o b)[k] = IF k < i THEN s[k] ELSE s[k + 1]
  <2>1. a \o b \in Seq(T) /\ Len(a \o b) = Len(s) - 1
    <3>0. a \in Seq(T) /\ b \in Seq(T)
      BY <1>1, <1>2
    <3>1. a \o b \in Seq(T) /\ Len(a \o b) = Len(a) + Len(b)
      BY <3>0
    <3>2. (i - 1) + (Len(s) - i) = Len(s) - 1
      OBVIOUS
    <3>. QED
      BY <1>1, <1>2, <3>1, <3>2
  <2>2. ASSUME NEW k \in 1 .. Len(s) - 1 PROVE (a \o b)[k] = IF k < i THEN s[k] ELSE s[k + 1]
    <3>1. CASE k < i
      BY <1>1, <1>2, <3>1
    <3>2. CASE ~(k < i)
      <4>1. (a \o b)[k] = b[k - (i - 1)]
        BY <1>1, <1>2, <3>2
      <4>2. k - (i - 1) \in 1 .. Len(s) - i
        BY <3>2
      <4>3. b[k - (i - 1)] = s[(k - (i - 1)) + i]
        BY <1>2, <4>2
      <4>4. (k - (i - 1)) + i = k + 1
        OBVIOUS
      <4>. QED
        BY <3>2, <4>1, <4>3, <4>4
    <3>. QED
      BY <3>1, <3>2
  <2>. QED
    BY <2>1, <2>2
<1>4. RemoveAt(s, i) = a \o b
  BY DEF RemoveAt, a, b
<1>5. \A k \in 1 .. Len(s) - 1 : k \in DOMAIN s /\ k + 1 \in DOMAIN s
  OBVIOUS
<1>. DEFINE w == a \o b
<1>. HIDE DEF w
<1>6. w \in Seq(T) /\ Len(w) = Len(s) - 1 /\ \A k \in 1 .. Len(s) - 1 : w[k] = s[k] \/ w[k] = s[k + 1]
  BY <1>3 DEF w
<1>7. DOMAIN w = 1 .. Len(s) - 1
  BY <1>6
<1>. QED
  BY <1>4, <1>5, <1>6, <1>7 DEF w

\* A sequence with one element replaced.
LEMMA Replaced ==
    ASSUME NEW T, NEW s \in Seq(T), NEW i \in 1 .. Len(s), NEW e \in T
    PROVE  [s EXCEPT ![i] = e] \in Seq(T)
OBVIOUS

\* The router starts well typed.
LEMMA RouterStarts == RouterInit => RouterTypeOK
<1>. SUFFICES ASSUME RouterInit PROVE RouterTypeOK
  OBVIOUS
<1>. USE RouterAssumption
<1>1. PICK s \in RouterSetups :
          LET inputs == {m \in s.running : IsInput(m)}
              Called(m) == ChannelOf(m, s.names[m])
          IN /\ wires = s.wires /\ chan = s.names /\ budget = s.budget
             /\ started = [m \in Modules |-> m \in s.running]
             /\ inbox = [m \in Modules |-> IF m \in s.running THEN Some(<<>>) ELSE None]
             /\ registered = [c \in {Called(m) : m \in inputs} |->
                                SetToSeq({m \in inputs : Called(m) = c})]
  BY DEF RouterInit
<1>2. wires \in [Modules -> Seq(Edge)]
  <2>1. \A m \in Modules : wires[m] \in Seq(Range(s.wires[m])) /\ Range(s.wires[m]) \subseteq Edge
    <3>1. \A m \in Modules : wires[m] = s.wires[m] /\ s.wires[m] \in Seq(Range(s.wires[m]))
      BY <1>1
    <3>2. \A m \in Modules : Range(s.wires[m]) \subseteq Edge
      BY DEF Edge
    <3>. QED
      BY <3>1, <3>2
  <2>2. s.wires \in [Modules -> Range(s.wires)] /\ wires = s.wires
    BY <1>1
  <2>. QED
    BY <2>1, <2>2
<1>n. \A m \in Modules : s.names[m] \in Name
  <2>1. \A m \in Modules : s.names[m] \in {s.names[x] : x \in Modules}
    OBVIOUS
  <2>2. {s.names[x] : x \in Modules} \in {{t.names[x] : x \in Modules} : t \in RouterSetups}
    OBVIOUS
  <2>3. {s.names[x] : x \in Modules} \subseteq UNION {{t.names[x] : x \in Modules} : t \in RouterSetups}
    BY <2>2
  <2>. QED
    BY <2>1, <2>3 DEF Name
<1>3. chan \in [Modules -> Name]
  <2>2. s.names \in [Modules -> Range(s.names)] /\ chan = s.names
    BY <1>1
  <2>. QED
    BY <1>n, <2>2
<1>4. /\ inbox \in [Modules -> Opt(Seq(Queueable))]
      /\ started \in [Modules -> BOOLEAN]
  <2>1. <<>> \in Seq(Queueable) /\ None \in Opt(Seq(Queueable))
    BY DEF Opt
  <2>2. Some(<<>>) \in Opt(Seq(Queueable))
    BY <2>1 DEF Opt
  <2>. QED
    BY <1>1, <2>1, <2>2
<1>5. Lists(registered)
  <2>. DEFINE inputs == {m \in s.running : IsInput(m)}
  <2>. DEFINE At(c) == {m \in inputs : ChannelOf(m, s.names[m]) = c}
  <2>1. registered = [c \in {ChannelOf(m, s.names[m]) : m \in inputs} |-> SetToSeq(At(c))]
    BY <1>1
  <2>2. ASSUME NEW c PROVE SetToSeq(At(c)) \in Seq(Modules)
    <3>1. At(c) \in SUBSET Modules
      OBVIOUS
    <3>. DEFINE A == At(c)
    <3>. HIDE DEF At, A
    <3>2. A \in SUBSET Modules
      BY <3>1 DEF A
    <3>3. IsFiniteSet(A)
      BY <3>2, FS_Subset
    <3>4. SetToSeq(A) \in Seq(A)
      BY <3>3, SetInOrder
    <3>5. SetToSeq(A) \in Seq(Modules)
      BY <3>2, <3>4
    <3>. QED
      BY <3>5 DEF A
  <2>3. \A m \in inputs : ChannelOf(m, s.names[m]) \in Channel
    <3>2. \A m \in Modules : \A n \in Name : ChannelOf(m, n) \in Channel
      BY DEF Channel
    <3>. QED
      BY <1>n, <3>2
  <2>. HIDE DEF inputs, At
  <2>. QED
    BY <2>1, <2>2, <2>3 DEF Lists
<1>6. /\ hub \in Seq(Event) /\ hubOpen \in BOOLEAN /\ route \in Opt(Route)
      /\ heard \in Seq([n : Nat, after : SUBSET Nat, channel : Channel])
  BY DEF RouterInit, Opt
<1>7. /\ working \in [Modules -> Opt(Context)]
      /\ old \in [Modules -> Seq(Seq(Queueable) \ {<<>>})]
      /\ seen \in [Modules -> Seq((Modules \X Edge) \X Nat)]
  BY DEF RouterInit, Opt
<1>8. /\ Tokens(flowTokens)
      /\ flows \in Nat /\ minted \in Nat /\ posted \in Nat
  BY DEF RouterInit, Tokens
<1>. QED
  BY <1>2, <1>3, <1>4, <1>5, <1>6, <1>7, <1>8 DEF RouterTypeOK

\* A message has a number of its own.
LEMMA MessageTypes ==
    ASSUME posted \in Nat, NEW f \in Nat, NEW t \in Opt(Nat), NEW v \in Value, NEW a \in SUBSET Nat
    PROVE  Message(f, t, v, a) \in Context
BY DEF Message, Context

\* The parts of a context.
LEMMA ContextParts ==
    ASSUME NEW c \in Context
    PROVE  /\ c.n \in Nat /\ c.flow \in Nat /\ c.token \in Opt(Nat)
           /\ c.value \in Value /\ c.after \in SUBSET Nat
BY DEF Context

\* Listening to a channel, and leaving it.
LEMMA ListTypes ==
    ASSUME NEW r, Lists(r), NEW m \in Modules, NEW c \in Channel
    PROVE  Lists(Listen(r, m, c)) /\ Lists(Leave(r, m, c)) /\ Listening(r, c) \in Seq(Modules)
<1>1. Listening(r, c) \in Seq(Modules)
  BY DEF Listening, Lists
<1>2. Lists(Listen(r, m, c))
  <2>1. Append(Listening(r, c), m) \in Seq(Modules)
    BY <1>1
  <2>. HIDE DEF Listening
  <2>. QED
    BY <2>1 DEF Listen, Lists
<1>3. Lists(Leave(r, m, c))
  <2>1. \A d \in DOMAIN r : Within(r[d], Modules \ {m}) \in Seq(Modules)
    <3>. TAKE d \in DOMAIN r
    <3>1. r[d] \in Seq(Modules)
      BY DEF Lists
    <3>. QED
      BY <3>1, WithinKeeps
  <2>. QED
    BY <2>1 DEF Leave, Lists
<1>. QED
  BY <1>1, <1>2, <1>3

\* The lists of channels, when an input moves to another one.
LEMMA MovedTypes ==
    ASSUME RouterTypeOK, NEW m \in Modules, NEW n \in Name
    PROVE  Lists(Moved(m, n))
<1>1. ChannelOf(m, n) \in Channel /\ ChannelOf(m, chan[m]) \in Channel
  <2>1. chan[m] \in Name
    BY DEF RouterTypeOK
  <2>2. \A x \in Name : ChannelOf(m, x) \in Channel
    BY DEF Channel
  <2>. QED
    BY <2>1, <2>2
<1>2. Lists(registered)
  BY DEF RouterTypeOK
<1>3. Lists(Listen(Leave(registered, m, ChannelOf(m, chan[m])), m, ChannelOf(m, n)))
  <2>1. Lists(Leave(registered, m, ChannelOf(m, chan[m])))
    BY <1>1, <1>2, ListTypes
  <2>. QED
    BY <1>1, <2>1, ListTypes
<1>. QED
  BY <1>2, <1>3 DEF Moved

\* The token of a flow.
LEMMA TokenTypes ==
    ASSUME RouterTypeOK, NEW f \in Nat
    PROVE  /\ TokenFor(f) \in Nat
           /\ ContextToken(f) => Tokens(flowTokens)' /\ minted' \in Nat
<1>1. TokenFor(f) \in Nat
  BY DEF TokenFor, Tracked, RouterTypeOK, Tokens
<1>2. ASSUME ContextToken(f) PROVE Tokens(flowTokens)' /\ minted' \in Nat
  <2>1. CASE Tracked(f)
    BY <1>2, <2>1 DEF ContextToken, RouterTypeOK, Tokens
  <2>2. CASE ~Tracked(f)
    <3>. DEFINE kept == IF Cardinality(DOMAIN flowTokens) >= PruneAt THEN Prune(flowTokens) ELSE flowTokens
    <3>1. /\ flowTokens' = [g \in DOMAIN kept \cup {f} |-> IF g = f THEN minted + 1 ELSE kept[g]]
          /\ minted' = minted + 1
      BY <1>2, <2>2 DEF ContextToken
    <3>2. Tokens(kept)
      BY DEF Prune, RouterTypeOK, Tokens
    <3>3. minted \in Nat
      BY DEF RouterTypeOK
    <3>. HIDE DEF kept
    <3>. QED
      BY <3>1, <3>2, <3>3 DEF Tokens
  <2>. QED
    BY <2>1, <2>2
<1>. QED
  BY <1>1, <1>2

\* What process() sends: an event with the context of its input.
LEMMA OutcomeTypes ==
    ASSUME RouterTypeOK, NEW m \in Modules, NEW d \in Context
    PROVE  \A e \in Outcome(m, d) : /\ e \in Event
                                   /\ e.msg = Message(d.flow, d.token, d.value, d.after)
                                   /\ e.msg.n = posted + 1
<1>. DEFINE out == Message(d.flow, d.token, d.value, d.after)
<1>1. ModuleKind[m] \in {"ExternalInput", "LocalInput", "ExternalOutput", "LocalOutput", "Relay", "Failing"}
  BY RouterAssumption
<1>2. out \in Context /\ out.n = posted + 1
  <2>1. posted \in Nat
    BY DEF RouterTypeOK
  <2>2. d.flow \in Nat /\ d.token \in Opt(Nat) /\ d.value \in Value /\ d.after \in SUBSET Nat
    BY ContextParts
  <2>3. out \in Context
    BY <2>1, <2>2, MessageTypes
  <2>. QED
    BY <2>3 DEF Message
<1>3. ChannelOf(m, chan[m]) \in Channel
  BY DEF Channel, RouterTypeOK
<1>4. Outcome(m, d) =
        CASE IsInput(m) -> {}
          [] ModuleKind[m] \in {"ExternalOutput", "LocalOutput"} ->
                IF chan[m] = "" THEN {} ELSE {ChannelWrite(ChannelOf(m, chan[m]), out)}
          [] ModuleKind[m] = "Relay"   -> {ModuleOut(m, "value", out)}
          [] ModuleKind[m] = "Failing" -> {ModuleOut(m, "err", out)}
  BY DEF Outcome
<1>. HIDE DEF out
<1>5. \A e \in Outcome(m, d) : \/ e = ChannelWrite(ChannelOf(m, chan[m]), out)
                               \/ e = ModuleOut(m, "value", out)
                               \/ e = ModuleOut(m, "err", out)
  BY <1>1, <1>4 DEF IsInput
<1>6. \A e \in Outcome(m, d) : e \in Event /\ e.msg = out
  BY <1>2, <1>3, <1>5 DEF ChannelWrite, ModuleOut, Event
<1>. QED
  BY <1>2, <1>6 DEF out

\* Every step of the router keeps the types.
LEMMA RouterKeepsTypes == RouterTypeOK /\ [RouterNext]_routerVars => RouterTypeOK'
<1>. SUFFICES ASSUME RouterTypeOK, [RouterNext]_routerVars PROVE RouterTypeOK'
  OBVIOUS
<1>1. ASSUME NEW w \in Writes, Write(w[1], w[2]) PROVE RouterTypeOK'
  <2>1. w[1] \in Channel /\ w[2] \in Value /\ {} \in SUBSET Nat /\ None \in Opt(Nat)
    BY DEF Channel, Value, Opt
  <2>2. Message(flows', None, w[2], {}) \in Context
    <3>1. flows' \in Nat /\ posted \in Nat
      BY <1>1 DEF Write, RouterTypeOK
    <3>. QED
      BY <2>1, <3>1, MessageTypes
  <2>3. ChannelWrite(w[1], Message(flows', None, w[2], {})) \in Event
    BY <2>1, <2>2 DEF Event, ChannelWrite
  <2>. QED
    BY <1>1, <2>3 DEF Write, Post, RouterTypeOK
<1>2. ASSUME NEW e \in NameEdits, SetNameTo(e[1], e[2]) PROVE RouterTypeOK'
  <2>1. e[1] \in Modules /\ e[2] \in Name
    BY RouterAssumption DEF Name
  <2>2. Lists(Moved(e[1], e[2]))
    BY <2>1, MovedTypes
  <2>3. [type |-> "config", chan |-> e[2]] \in Queueable
    BY <2>1 DEF Queueable
  <2>4. Lists(registered)' /\ chan' \in [Modules -> Name]
    BY <1>2, <2>1, <2>2 DEF SetNameTo, SetConfig, RouterTypeOK
  <2>5. inbox' \in [Modules -> Opt(Seq(Queueable))]
    <3>1. CASE inbox[e[1]] = None
      BY <1>2, <3>1 DEF SetNameTo, RouterTypeOK
    <3>2. CASE inbox[e[1]] # None
      <4>1. inbox[e[1]][1] \in Seq(Queueable)
        BY <2>1, <3>2, SomeHolds DEF RouterTypeOK
      <4>2. Some(Append(inbox[e[1]][1], [type |-> "config", chan |-> e[2]])) \in Opt(Seq(Queueable))
        <5>1. Append(inbox[e[1]][1], [type |-> "config", chan |-> e[2]]) \in Seq(Queueable)
          BY <2>3, <4>1
        <5>. QED
          BY <5>1, SomeIsOption
      <4>. QED
        BY <1>2, <2>1, <3>2, <4>2 DEF SetNameTo, RouterTypeOK
    <3>. QED
      BY <3>1, <3>2
  <2>. QED
    BY <1>2, <2>4, <2>5 DEF SetNameTo, RouterTypeOK
<1>3. CASE Quit
  BY <1>3 DEF Quit, RouterTypeOK
<1>4. ASSUME NEW f \in 1 .. flows, Abort(f) PROVE RouterTypeOK'
  BY <1>4 DEF Abort, RouterTypeOK
<1>5. ASSUME NEW m \in Modules, StartModule(m) PROVE RouterTypeOK'
  <2>1. Some(<<>>) \in Opt(Seq(Queueable))
    <3>1. <<>> \in Seq(Queueable)
      OBVIOUS
    <3>. QED
      BY <3>1 DEF Opt
  <2>. QED
    BY <1>5, <2>1 DEF StartModule, RouterTypeOK
<1>6. ASSUME NEW m \in Modules, Started(m) PROVE RouterTypeOK'
  <2>1. Lists(registered) /\ ChannelOf(m, chan[m]) \in Channel
    BY DEF RouterTypeOK, Channel
  <2>2. Lists(Listen(registered, m, ChannelOf(m, chan[m])))
    BY <2>1, ListTypes
  <2>. QED
    BY <1>6, <2>1, <2>2 DEF Started, RouterTypeOK
<1>7. ASSUME NEW m \in Modules, StopModule(m) PROVE RouterTypeOK'
  <2>1. Lists(registered) /\ ChannelOf(m, chan[m]) \in Channel
    BY DEF RouterTypeOK, Channel
  <2>2. Lists(Leave(registered, m, ChannelOf(m, chan[m])))
    BY <2>1, ListTypes
  <2>3. inbox[m][1] \in Seq(Queueable)
    BY <1>7, SomeHolds DEF StopModule, RouterTypeOK
  <2>4. old' \in [Modules -> Seq(Seq(Queueable))]
    BY <1>7, <2>3 DEF StopModule, RouterTypeOK
  <2>5. /\ inbox' \in [Modules -> Opt(Seq(Queueable))]
        /\ working' \in [Modules -> Opt(Context)]
    BY <1>7 DEF StopModule, RouterTypeOK, Opt
  <2>. QED
    BY <1>7, <2>1, <2>2, <2>4, <2>5 DEF StopModule, RouterTypeOK
<1>8. ASSUME NEW m \in Modules, Rewire(m, <<>>) PROVE RouterTypeOK'
  <2>1. <<>> \in Seq(Edge)
    OBVIOUS
  <2>. QED
    BY <1>8, <2>1 DEF Rewire, RouterTypeOK
<1>9. ASSUME NEW m \in Modules, BeginProcess(m) PROVE RouterTypeOK'
  <2>1. inbox[m][1] \in Seq(Queueable) /\ inbox[m][1] # <<>>
    BY <1>9, SomeHolds DEF BeginProcess, RouterTypeOK
  <2>. DEFINE msg == Head(inbox[m][1]).msg
  <2>2. msg \in Context
    BY <1>9, <2>1 DEF BeginProcess, Queueable
  <2>3. msg.flow \in Nat
    BY <2>2, ContextParts
  <2>4. TokenFor(msg.flow) \in Nat
    BY <2>3, TokenTypes
  <2>5. Some(Tail(inbox[m][1])) \in Opt(Seq(Queueable))
    <3>1. Tail(inbox[m][1]) \in Seq(Queueable)
      BY <2>1
    <3>. QED
      BY <3>1, SomeIsOption
  <2>6. inbox' \in [Modules -> Opt(Seq(Queueable))]
    BY <1>9, <2>5 DEF BeginProcess, RouterTypeOK
  <2>7. /\ Some(msg) \in Opt(Context)
        /\ Some([msg EXCEPT !.token = Some(TokenFor(msg.flow))]) \in Opt(Context)
    <3>1. Some(TokenFor(msg.flow)) \in Opt(Nat)
      BY <2>4 DEF Opt
    <3>. HIDE DEF msg
    <3>2. [msg EXCEPT !.token = Some(TokenFor(msg.flow))] \in Context
      BY <2>2, <3>1 DEF Context
    <3>. QED
      BY <2>2, <3>2 DEF Opt
  <2>8. \/ working' = [working EXCEPT ![m] = Some(msg)] /\ UNCHANGED <<flowTokens, minted>>
        \/ /\ working' = [working EXCEPT ![m] = Some([msg EXCEPT !.token = Some(TokenFor(msg.flow))])]
           /\ ContextToken(msg.flow)
    BY <1>9 DEF BeginProcess
  <2>. HIDE DEF msg
  <2>9. working' \in [Modules -> Opt(Context)]
    BY <2>7, <2>8 DEF RouterTypeOK
  <2>10. Tokens(flowTokens)' /\ minted' \in Nat
    <3>1. CASE UNCHANGED <<flowTokens, minted>>
      BY <3>1 DEF RouterTypeOK, Tokens
    <3>2. CASE ContextToken(msg.flow)
      BY <2>3, <3>2, TokenTypes
    <3>. QED
      BY <2>8, <3>1, <3>2
  <2>. QED
    BY <1>9, <2>6, <2>9, <2>10 DEF BeginProcess, RouterTypeOK, Lists
<1>10. ASSUME NEW m \in Modules, FinishProcess(m) PROVE RouterTypeOK'
  <2>1. working[m][1] \in Context
    BY <1>10, SomeHolds DEF FinishProcess, RouterTypeOK
  <2>2. \A e \in Outcome(m, working[m][1]) : e \in Event
    BY <2>1, OutcomeTypes
  <2>3. hub' \in Seq(Event) /\ posted' \in Nat
    <3>1. hub \in Seq(Event) /\ posted \in Nat
      BY DEF RouterTypeOK
    <3>2. \/ \E e \in Outcome(m, working[m][1]) : Post(e)
          \/ UNCHANGED <<hub, posted>>
      BY <1>10 DEF FinishProcess
    <3>. QED
      BY <2>2, <3>1, <3>2 DEF Post
  <2>4. working' \in [Modules -> Opt(Context)]
    BY <1>10 DEF FinishProcess, RouterTypeOK, Opt
  <2>. QED
    BY <1>10, <2>3, <2>4 DEF FinishProcess, RouterTypeOK
<1>11. ASSUME NEW m \in Modules, Apply(m) PROVE RouterTypeOK'
  <2>1. inbox[m][1] \in Seq(Queueable) /\ inbox[m][1] # <<>>
    BY <1>11, SomeHolds DEF Apply, RouterTypeOK
  <2>2. Head(inbox[m][1]).chan \in Name
    BY <1>11, <2>1 DEF Apply, Queueable
  <2>3. Lists(Moved(m, Head(inbox[m][1]).chan))
    BY <2>2, MovedTypes
  <2>4. Some(Tail(inbox[m][1])) \in Opt(Seq(Queueable))
    <3>1. Tail(inbox[m][1]) \in Seq(Queueable)
      BY <2>1
    <3>. QED
      BY <3>1, SomeIsOption
  <2>. QED
    BY <1>11, <2>2, <2>3, <2>4 DEF Apply, SetConfig, RouterTypeOK
<1>12. ASSUME NEW m \in Modules, NEW i \in DOMAIN old[m], Drain(m, i) PROVE RouterTypeOK'
  <2>. DEFINE item == Head(old[m][i])
  <2>. DEFINE Q == Seq(Queueable) \ {<<>>}
  <2>1. old[m] \in Seq(Q) /\ old[m][i] \in Q /\ i \in 1 .. Len(old[m])
    BY DEF RouterTypeOK
  <2>2. old' \in [Modules -> Seq(Q)]
    <3>1. RemoveAt(old[m], i) \in Seq(Q)
      <4>. HIDE DEF Q
      <4>. QED
        BY <2>1, Removed1
    <3>2. ASSUME Len(old[m][i]) # 1 PROVE [old[m] EXCEPT ![i] = Tail(old[m][i])] \in Seq(Q)
      <4>1. Tail(old[m][i]) \in Q
        <5>1. old[m][i] \in Seq(Queueable) /\ old[m][i] # <<>>
          BY <2>1
        <5>. DEFINE o == old[m][i]
        <5>. HIDE DEF o
        <5>2. o \in Seq(Queueable) /\ Len(o) # 0 /\ Len(o) # 1
          BY <3>2, <5>1 DEF o
        <5>3. Tail(o) \in Seq(Queueable) /\ Len(Tail(o)) = Len(o) - 1
          BY <5>2
        <5>4. Tail(o) # <<>>
          <6>1. Len(o) - 1 # 0
            BY <5>2
          <6>. QED
            BY <5>3, <6>1
        <5>. QED
          BY <5>3, <5>4 DEF o
      <4>. HIDE DEF Q
      <4>. QED
        BY <2>1, <4>1, Replaced
    <3>3. old' = [old EXCEPT ![m] = IF Len(old[m][i]) = 1 THEN RemoveAt(old[m], i)
                                     ELSE [old[m] EXCEPT ![i] = Tail(old[m][i])]]
      BY <1>12 DEF Drain, Shortened
    <3>4. old \in [Modules -> Seq(Q)]
      BY DEF RouterTypeOK
    <3>. HIDE DEF Q
    <3>. QED
      BY <3>1, <3>2, <3>3, <3>4
  <2>3. Lists(registered)' /\ chan' \in [Modules -> Name] /\ Tokens(flowTokens)' /\ minted' \in Nat
    <3>1. item \in Queueable
      BY <2>1
    <3>2. CASE item.type = "config"
      <4>1. SetConfig(m, item.chan) /\ UNCHANGED <<flowTokens, minted>>
        BY <1>12, <3>2 DEF Drain
      <4>2. item.chan \in Name
        BY <3>1, <3>2 DEF Queueable
      <4>. HIDE DEF item
      <4>3. Lists(Moved(m, item.chan))
        BY <4>2, MovedTypes
      <4>. QED
        BY <4>1, <4>2, <4>3 DEF SetConfig, RouterTypeOK, Tokens
    <3>3. CASE item.type # "config"
      <4>1. /\ UNCHANGED <<chan, registered>>
            /\ ContextToken(item.msg.flow) \/ UNCHANGED <<flowTokens, minted>>
        BY <1>12, <3>3 DEF Drain
      <4>2. item.msg.flow \in Nat
        BY <3>1, <3>3, ContextParts DEF Queueable
      <4>. HIDE DEF item
      <4>3. Tokens(flowTokens)' /\ minted' \in Nat
        <5>1. CASE ContextToken(item.msg.flow)
          BY <4>2, <5>1, TokenTypes
        <5>2. CASE UNCHANGED <<flowTokens, minted>>
          BY <5>2 DEF RouterTypeOK, Tokens
        <5>. QED
          BY <4>1, <5>1, <5>2
      <4>. QED
        BY <4>1, <4>3 DEF RouterTypeOK, Lists
    <3>. QED
      BY <3>2, <3>3
  <2>. QED
    BY <1>12, <2>2, <2>3 DEF Drain, RouterTypeOK
<1>13. CASE TakeOut
  <2>. DEFINE e == Head(hub)
  <2>1. e \in Event /\ Tail(hub) \in Seq(Event) /\ e.type = "out"
    BY <1>13 DEF TakeOut, RouterTypeOK
  <2>2. e.msg \in Context /\ e.module \in Modules
    BY <2>1 DEF Event
  <2>. DEFINE own == wires[e.module]
  <2>. DEFINE matching == Within(own, {w \in Range(own) : w[2] = e.port})
  <2>. DEFINE edges == [i \in DOMAIN matching |-> <<e.module, matching[i]>>]
  <2>3. matching \in Seq(Edge)
    <3>1. own \in Seq(Edge)
      BY <2>2 DEF RouterTypeOK
    <3>. QED
      BY <3>1, WithinKeeps
  <2>4. edges \in Seq(Modules \X Edge)
    <3>. HIDE DEF matching
    <3>. QED
      BY <2>2, <2>3
  <2>. HIDE DEF edges
  <2>5. route' = Some([msg |-> e.msg, channel |-> None, nodes |-> <<>>, edges |-> edges])
    BY <1>13 DEF TakeOut, edges
  <2>6. [msg |-> e.msg, channel |-> None, nodes |-> <<>>, edges |-> edges] \in Route
    BY <2>2, <2>4 DEF Route, Opt
  <2>7. route' \in Opt(Route)
    BY <2>5, <2>6 DEF Opt
  <2>. QED
    BY <1>13, <2>1, <2>7 DEF TakeOut, RouterTypeOK
<1>14. CASE TakeExternal
  <2>. DEFINE e == Head(hub)
  <2>1. e \in Event /\ Tail(hub) \in Seq(Event) /\ e.type = "external"
    BY <1>14 DEF TakeExternal, RouterTypeOK
  <2>2. e.msg \in Context /\ e.channel \in Channel
    BY <2>1 DEF Event
  <2>3. Listening(registered, e.channel) \in Seq(Modules)
    BY <2>2, ListTypes DEF RouterTypeOK, Listening, Lists
  <2>. DEFINE r == [msg |-> e.msg, channel |-> Some(e.channel),
                    nodes |-> Listening(registered, e.channel), edges |-> <<>>]
  <2>4. r \in Route
    BY <2>2, <2>3 DEF Route, Opt
  <2>5. route' = Some(r)
    BY <1>14 DEF TakeExternal
  <2>. HIDE DEF r
  <2>6. route' \in Opt(Route)
    BY <2>4, <2>5 DEF Opt
  <2>. QED
    BY <1>14, <2>1, <2>6 DEF TakeExternal, RouterTypeOK
<1>15. CASE NextNode
  <2>1. route[1] \in Route /\ route[1].nodes # <<>>
    BY <1>15, SomeHolds DEF NextNode, RouterTypeOK
  <2>. DEFINE m == Head(route[1].nodes)
  <2>2. m \in Modules /\ Tail(route[1].nodes) \in Seq(Modules)
    BY <2>1 DEF Route
  <2>3. [i \in DOMAIN wires[m] |-> <<m, wires[m][i]>>] \in Seq(Modules \X Edge)
    <3>1. wires[m] \in Seq(Edge)
      BY <2>2 DEF RouterTypeOK
    <3>. HIDE DEF m
    <3>. QED
      BY <2>2, <3>1
  <2>. DEFINE r == [route[1] EXCEPT !.nodes = Tail(@), !.edges = [i \in DOMAIN wires[m] |-> <<m, wires[m][i]>>]]
  <2>4. r \in Route
    BY <2>1, <2>2, <2>3 DEF Route
  <2>5. route' = Some(r)
    BY <1>15 DEF NextNode
  <2>. HIDE DEF r
  <2>6. route' \in Opt(Route)
    BY <2>4, <2>5 DEF Opt
  <2>. QED
    BY <1>15, <2>6 DEF NextNode, RouterTypeOK
<1>16. CASE Deliver
  <2>1. route[1] \in Route /\ route[1].edges # <<>>
    BY <1>16, SomeHolds DEF Deliver, RouterTypeOK
  <2>. DEFINE edge == Head(route[1].edges)
  <2>. DEFINE m == edge[2][1]
  <2>. DEFINE msg == [route[1].msg EXCEPT !.after = IF route[1].channel = None THEN @ ELSE @ \cup {route[1].msg.n}]
  <2>2. edge \in Modules \X Edge /\ Tail(route[1].edges) \in Seq(Modules \X Edge)
    BY <2>1 DEF Route
  <2>3. route' = Some([route[1] EXCEPT !.edges = Tail(@)])
    BY <1>16 DEF Deliver
  <2>4. route' \in Opt(Route)
    <3>. DEFINE r == [route[1] EXCEPT !.edges = Tail(@)]
    <3>1. r \in Route
      BY <2>1, <2>2 DEF Route
    <3>2. route' = Some(r)
      BY <2>3
    <3>. HIDE DEF r
    <3>. QED
      BY <3>1, <3>2 DEF Opt
  <2>5. msg \in Context
    <3>1. route[1].msg \in Context
      BY <2>1 DEF Route
    <3>. QED
      BY <3>1 DEF Context
  <2>6. /\ msg.value \in Value /\ msg.value \in Name /\ msg.n \in Nat
        /\ Item(edge, msg) \in Queueable
    <3>. HIDE DEF msg, edge
    <3>1. msg.value \in Value /\ msg.n \in Nat
      BY <2>5, ContextParts
    <3>2. msg.value \in Name
      BY <3>1 DEF Name
    <3>. QED
      BY <2>5, <3>1, <3>2 DEF Item, Queueable
  <2>. HIDE DEF msg, edge
  <2>7. CASE m \in Modules /\ inbox[m] # None
    <3>1. /\ inbox' = [inbox EXCEPT ![m] = Some(Append(@[1], Item(edge, msg)))]
          /\ seen' = IF ToConfig(edge) THEN seen ELSE [seen EXCEPT ![m] = Append(@, <<edge, msg.n>>)]
          /\ UNCHANGED <<chan, registered>>
      BY <1>16, <2>7 DEF Deliver, edge, msg
    <3>. HIDE DEF m
    <3>2. inbox[m][1] \in Seq(Queueable)
      BY <2>7, SomeHolds DEF RouterTypeOK
    <3>3. Some(Append(inbox[m][1], Item(edge, msg))) \in Opt(Seq(Queueable))
      <4>1. Append(inbox[m][1], Item(edge, msg)) \in Seq(Queueable)
        BY <2>6, <3>2
      <4>. QED
        BY <4>1, SomeIsOption
    <3>4. inbox' \in [Modules -> Opt(Seq(Queueable))]
      BY <3>1, <3>3 DEF RouterTypeOK
    <3>5. seen' \in [Modules -> Seq((Modules \X Edge) \X Nat)]
      <4>1. seen \in [Modules -> Seq((Modules \X Edge) \X Nat)] /\ m \in Modules
        BY <2>7 DEF RouterTypeOK
      <4>2. seen[m] \in Seq((Modules \X Edge) \X Nat) /\ <<edge, msg.n>> \in (Modules \X Edge) \X Nat
        BY <2>2, <2>6, <4>1
      <4>3. Append(seen[m], <<edge, msg.n>>) \in Seq((Modules \X Edge) \X Nat)
        BY <4>2
      <4>. QED
        BY <3>1, <4>1, <4>3
    <3>. QED
      BY <1>16, <2>4, <3>1, <3>4, <3>5 DEF Deliver, RouterTypeOK, Lists
  <2>8. CASE ~(m \in Modules /\ inbox[m] # None)
    <3>1. /\ IF m \in Modules /\ ToConfig(edge) THEN SetConfig(m, msg.value)
                                                ELSE UNCHANGED <<chan, registered>>
          /\ UNCHANGED <<inbox, seen>>
      BY <1>16, <2>8 DEF Deliver, edge, msg
    <3>2. Lists(registered)' /\ chan' \in [Modules -> Name]
      <4>. HIDE DEF m
      <4>1. CASE m \in Modules /\ ToConfig(edge)
        <5>1. SetConfig(m, msg.value)
          BY <3>1, <4>1
        <5>2. Lists(Moved(m, msg.value))
          BY <2>6, <4>1, MovedTypes
        <5>. QED
          BY <2>6, <4>1, <5>1, <5>2 DEF SetConfig, RouterTypeOK
      <4>2. CASE ~(m \in Modules /\ ToConfig(edge))
        BY <3>1, <4>2 DEF RouterTypeOK, Lists
      <4>. QED
        BY <4>1, <4>2
    <3>. QED
      BY <1>16, <2>4, <3>1, <3>2 DEF Deliver, RouterTypeOK
  <2>. QED
    BY <2>7, <2>8
<1>17. CASE EndRoute
  <2>1. route[1] \in Route
    BY <1>17, SomeHolds DEF EndRoute, RouterTypeOK
  <2>2. route[1].msg \in Context /\ route[1].channel \in Opt(Channel)
    BY <2>1 DEF Route
  <2>3. Announce(route[1]) => [n |-> route[1].msg.n, after |-> route[1].msg.after, channel |-> route[1].channel[1]]
                                 \in [n : Nat, after : SUBSET Nat, channel : Channel]
    BY <2>2, SomeHolds, ContextParts DEF Announce
  <2>4. heard' \in Seq([n : Nat, after : SUBSET Nat, channel : Channel])
    <3>. DEFINE R == [n : Nat, after : SUBSET Nat, channel : Channel]
    <3>. DEFINE h == [n |-> route[1].msg.n, after |-> route[1].msg.after, channel |-> route[1].channel[1]]
    <3>1. heard \in Seq(R) /\ (Announce(route[1]) => h \in R)
      BY <2>3 DEF RouterTypeOK
    <3>2. heard' = IF Announce(route[1]) THEN Append(heard, h) ELSE heard
      BY <1>17 DEF EndRoute
    <3>. HIDE DEF R, h
    <3>3. heard' \in Seq(R)
      BY <3>1, <3>2
    <3>. QED
      BY <3>3 DEF R
  <2>5. route' \in Opt(Route)
    BY <1>17 DEF EndRoute, Opt
  <2>. QED
    BY <1>17, <2>4, <2>5 DEF EndRoute, RouterTypeOK, Lists, Tokens
<1>18. CASE UNCHANGED routerVars
  BY <1>18 DEF routerVars, RouterTypeOK, Lists, Tokens
<1>. QED
  BY <1>1, <1>2, <1>3, <1>4, <1>5, <1>6, <1>7, <1>8, <1>9, <1>10, <1>11, <1>12, <1>13, <1>14,
     <1>15, <1>16, <1>17, <1>18 DEF RouterNext

\* The state of the message loop is well typed.
THEOREM RouterTypeCorrect == RouterSpec => []RouterTypeOK
BY RouterStarts, RouterKeepsTypes, PTL DEF RouterSpec

-----------------------------------------------------------------------------
(* The contexts there are, by where they are.                               *)

\* The contexts on the hub, when its first event is taken.
LEMMA HubShrinks ==
    ASSUME NEW h \in Seq(Event), h # <<>>
    PROVE  OnHub(Tail(h)) \subseteq OnHub(h) /\ Head(h).msg \in OnHub(h)
<1>1. Head(h).msg \in OnHub(h)
  <2>1. 1 \in DOMAIN h /\ Head(h) = h[1]
    OBVIOUS
  <2>. QED
    BY <2>1 DEF OnHub
<1>2. ASSUME NEW i \in DOMAIN Tail(h) PROVE Tail(h)[i].msg \in OnHub(h)
  <2>1. i + 1 \in DOMAIN h /\ Tail(h)[i] = h[i + 1]
    OBVIOUS
  <2>. QED
    BY <2>1 DEF OnHub
<1>. QED
  BY <1>1, <1>2 DEF OnHub

\* The contexts in an inbox, when its first message is taken.
LEMMA QueueShrinks ==
    ASSUME NEW q \in Seq(Queueable), q # <<>>
    PROVE  /\ Queued(Tail(q)) \subseteq Queued(q)
           /\ Head(q).type = "input" => Head(q).msg \in Queued(q)
<1>1. Head(q).type = "input" => Head(q).msg \in Queued(q)
  <2>1. 1 \in DOMAIN q /\ Head(q) = q[1]
    OBVIOUS
  <2>. QED
    BY <2>1 DEF Queued
<1>2. ASSUME NEW i \in DOMAIN Tail(q), Tail(q)[i].type = "input" PROVE Tail(q)[i].msg \in Queued(q)
  <2>1. i + 1 \in DOMAIN q /\ Tail(q)[i] = q[i + 1]
    OBVIOUS
  <2>. QED
    BY <1>2, <2>1 DEF Queued
<1>. QED
  BY <1>1, <1>2 DEF Queued

\* One inbox changes.
LEMMA InboxChanges ==
    ASSUME NEW b, DOMAIN b = Modules, b = [m \in Modules |-> b[m]], NEW m \in Modules, NEW x
    PROVE  /\ Waiting([b EXCEPT ![m] = None]) \subseteq Waiting(b)
           /\ Waiting([b EXCEPT ![m] = Some(x)]) \subseteq Waiting(b) \cup Queued(x)
           /\ b[m] # None => Queued(b[m][1]) \subseteq Waiting(b)
<1>1. b[m] # None => Queued(b[m][1]) \subseteq Waiting(b)
  BY DEF Waiting
<1>2. ASSUME NEW y, NEW c \in Waiting([b EXCEPT ![m] = y])
      PROVE  c \in Waiting(b) \/ (y # None /\ c \in Queued(y[1]))
  <2>. DEFINE a == [b EXCEPT ![m] = y]
  <2>1. PICK k \in Modules : a[k] # None /\ c \in Queued(a[k][1])
    BY <1>2 DEF Waiting
  <2>2. CASE k = m
    BY <2>1, <2>2
  <2>3. CASE k # m
    <3>1. b[k] # None /\ c \in Queued(b[k][1])
      BY <2>1, <2>3
    <3>. QED
      BY <3>1 DEF Waiting
  <2>. QED
    BY <2>2, <2>3
<1>3. Some(x) # None /\ Some(x)[1] = x
  BY DEF Some, None
<1>. QED
  BY <1>1, <1>2, <1>3

\* A loop is left behind with its queue, or goes on with it.
LEMMA BehindGrows ==
    ASSUME NEW o \in [Modules -> Seq(Seq(Queueable) \ {<<>>})], NEW m \in Modules,
           NEW q \in Seq(Queueable) \ {<<>>}
    PROVE  Behind([o EXCEPT ![m] = Append(@, q)]) \subseteq Behind(o) \cup Queued(q)
<1>. DEFINE Q == Seq(Queueable) \ {<<>>}
<1>. DEFINE a == [o EXCEPT ![m] = Append(@, q)]
<1>. SUFFICES ASSUME NEW c \in Behind(a) PROVE c \in Behind(o) \cup Queued(q)
  OBVIOUS
<1>1. PICK k \in Modules : \E i \in DOMAIN a[k] : c \in Queued(a[k][i])
  BY DEF Behind
<1>2. PICK i \in DOMAIN a[k] : c \in Queued(a[k][i])
  BY <1>1
<1>3. CASE k # m
  <2>1. a[k] = o[k]
    BY <1>3
  <2>. QED
    BY <1>2, <2>1 DEF Behind
<1>4. CASE k = m
  <2>1. a[m] = Append(o[m], q) /\ o[m] \in Seq(Q)
    OBVIOUS
  <2>. HIDE DEF a, Q
  <2>2. (i \in DOMAIN o[m] /\ a[m][i] = o[m][i]) \/ a[m][i] = q
    BY <1>4, <2>1
  <2>. QED
    BY <1>2, <1>4, <2>2 DEF Behind
<1>. QED
  BY <1>3, <1>4

\* The contexts in the inboxes of stopped loops, when one is drained.
LEMMA BehindShrinks ==
    ASSUME NEW o \in [Modules -> Seq(Seq(Queueable) \ {<<>>})], NEW m \in Modules, NEW i \in DOMAIN o[m]
    PROVE  /\ Behind([o EXCEPT ![m] = Shortened(@, i)]) \subseteq Behind(o)
           /\ Queued(o[m][i]) \subseteq Behind(o)
<1>. DEFINE Q == Seq(Queueable) \ {<<>>}
<1>. DEFINE a == [o EXCEPT ![m] = Shortened(@, i)]
<1>1. o[m] \in Seq(Q) /\ i \in 1 .. Len(o[m]) /\ o[m][i] \in Q
  OBVIOUS
<1>2. Queued(o[m][i]) \subseteq Behind(o)
  BY DEF Behind
<1>3. Queued(Tail(o[m][i])) \subseteq Queued(o[m][i])
  BY <1>1, QueueShrinks
<1>4. ASSUME NEW k \in DOMAIN Shortened(o[m], i)
      PROVE  \E j \in DOMAIN o[m] : Queued(Shortened(o[m], i)[k]) \subseteq Queued(o[m][j])
  <2>. HIDE DEF Q
  <2>1. CASE Len(o[m][i]) = 1
    <3>1. Shortened(o[m], i) = RemoveAt(o[m], i)
      BY <2>1 DEF Shortened
    <3>. QED
      BY <1>1, <1>4, <3>1, Removed1
  <2>2. CASE Len(o[m][i]) # 1
    <3>1. Shortened(o[m], i) = [o[m] EXCEPT ![i] = Tail(o[m][i])]
      BY <2>2 DEF Shortened
    <3>2. k \in DOMAIN o[m]
      BY <1>1, <1>4, <3>1
    <3>3. CASE k = i
      BY <1>1, <1>3, <3>1, <3>3
    <3>4. CASE k # i
      BY <1>1, <3>1, <3>2, <3>4
    <3>. QED
      BY <3>3, <3>4
  <2>. QED
    BY <2>1, <2>2
<1>5. ASSUME NEW c \in Behind(a) PROVE c \in Behind(o)
  <2>1. PICK k \in Modules : \E j \in DOMAIN a[k] : c \in Queued(a[k][j])
    BY <1>5 DEF Behind
  <2>2. PICK j \in DOMAIN a[k] : c \in Queued(a[k][j])
    BY <2>1
  <2>3. CASE k # m
    <3>1. a[k] = o[k]
      BY <2>3
    <3>. QED
      BY <2>2, <3>1 DEF Behind
  <2>4. CASE k = m
    <3>1. a[m] = Shortened(o[m], i)
      OBVIOUS
    <3>. HIDE DEF a
    <3>2. PICK l \in DOMAIN o[m] : Queued(a[m][j]) \subseteq Queued(o[m][l])
      BY <1>4, <2>2, <2>4, <3>1
    <3>. QED
      BY <2>2, <2>4, <3>2 DEF Behind
  <2>. QED
    BY <2>3, <2>4
<1>. QED
  BY <1>2, <1>5

\* One module takes up a context, or is done with it.
LEMMA WorkChanges ==
    ASSUME NEW w, DOMAIN w = Modules, w = [m \in Modules |-> w[m]], NEW m \in Modules, NEW x
    PROVE  /\ AtWork([w EXCEPT ![m] = None]) \subseteq AtWork(w)
           /\ AtWork([w EXCEPT ![m] = Some(x)]) \subseteq AtWork(w) \cup {x}
           /\ w[m] # None => w[m][1] \in AtWork(w)
<1>1. w[m] # None => w[m][1] \in AtWork(w)
  BY DEF AtWork
<1>2. ASSUME NEW y, NEW c \in AtWork([w EXCEPT ![m] = y])
      PROVE  c \in AtWork(w) \/ (y # None /\ c = y[1])
  <2>. DEFINE a == [w EXCEPT ![m] = y]
  <2>1. PICK k \in Modules : a[k] # None /\ c = a[k][1]
    BY <1>2 DEF AtWork
  <2>2. CASE k = m
    BY <2>1, <2>2
  <2>3. CASE k # m
    <3>1. w[k] # None /\ c = w[k][1]
      BY <2>1, <2>3
    <3>. QED
      BY <3>1 DEF AtWork
  <2>. QED
    BY <2>2, <2>3
<1>3. Some(x) # None /\ Some(x)[1] = x
  BY DEF Some, None
<1>. QED
  BY <1>1, <1>2, <1>3

\* The contexts after a step: those there were, but for one that is written,
\* delivered, taken up or sent.
LEMMA ContextsMove ==
    ASSUME RouterTypeOK, NEW c \in Contexts'
    PROVE  /\ \A w \in Writes : Write(w[1], w[2]) =>
                 c \in Contexts \/ c = Message(flows', None, w[2], {})
           /\ Deliver => \/ c \in Contexts
                         \/ c = [route[1].msg EXCEPT !.after =
                                   IF route[1].channel = None THEN @ ELSE @ \cup {route[1].msg.n}]
           /\ \A m \in Modules : BeginProcess(m) =>
                 \/ c \in Contexts
                 \/ LET msg == Head(inbox[m][1]).msg
                    IN /\ msg \in Contexts /\ msg.token = None
                       /\ c = [msg EXCEPT !.token = Some(TokenFor(msg.flow))]
           /\ \A m \in Modules : FinishProcess(m) =>
                 \/ c \in Contexts
                 \/ \E d \in Contexts : c = Message(d.flow, d.token, d.value, d.after)
           /\ \/ \E m \in Modules : \/ StartModule(m) \/ Started(m) \/ StopModule(m) \/ Rewire(m, <<>>) \/ Apply(m)
                                    \/ \E i \in DOMAIN old[m] : Drain(m, i)
              \/ \E e \in NameEdits : SetNameTo(e[1], e[2])
              \/ \E f \in 1 .. flows : Abort(f)
              \/ Quit \/ TakeOut \/ TakeExternal \/ NextNode \/ EndRoute
              \/ UNCHANGED routerVars
              => c \in Contexts
<1>. DEFINE D == DOMAIN inbox = Modules
<1>0. /\ DOMAIN inbox = Modules /\ inbox = [m \in Modules |-> inbox[m]]
      /\ DOMAIN working = Modules /\ working = [m \in Modules |-> working[m]]
      /\ hub \in Seq(Event) /\ old \in [Modules -> Seq(Seq(Queueable) \ {<<>>})]
      /\ \A m \in Modules : inbox[m] # None => inbox[m][1] \in Seq(Queueable)
  BY SomeHolds DEF RouterTypeOK
<1>1. ASSUME NEW w \in Writes, Write(w[1], w[2])
      PROVE  c \in Contexts \/ c = Message(flows', None, w[2], {})
  <2>. DEFINE msg == Message(flows', None, w[2], {})
  <2>1. hub' = Append(hub, ChannelWrite(w[1], msg)) /\ UNCHANGED <<route, inbox, working, old>>
    BY <1>1 DEF Write, Post
  <2>2. hub' \in Seq(Event)
    BY <1>1, RouterKeepsTypes DEF RouterNext, RouterTypeOK
  <2>3. OnHub(hub') \subseteq OnHub(hub) \cup {msg}
    BY <1>0, <2>1 DEF OnHub, ChannelWrite
  <2>. HIDE DEF msg
  <2>. QED
    BY <2>1, <2>3 DEF Contexts, msg
<1>2. ASSUME Deliver
      PROVE  \/ c \in Contexts
             \/ c = [route[1].msg EXCEPT !.after =
                        IF route[1].channel = None THEN @ ELSE @ \cup {route[1].msg.n}]
  <2>. DEFINE edge == Head(route[1].edges)
  <2>. DEFINE m == edge[2][1]
  <2>. DEFINE msg == [route[1].msg EXCEPT !.after = IF route[1].channel = None THEN @ ELSE @ \cup {route[1].msg.n}]
  <2>1. UNCHANGED <<hub, working, old>> /\ OnRoute(route') = OnRoute(route)
    <3>. DEFINE r == [route[1] EXCEPT !.edges = Tail(@)]
    <3>1. route # None /\ route' = Some(r) /\ UNCHANGED <<hub, working, old>>
      BY <1>2 DEF Deliver
    <3>2. route[1] \in Route
      BY <3>1, SomeHolds DEF RouterTypeOK
    <3>3. r.msg = route[1].msg
      BY <3>2 DEF Route
    <3>. HIDE DEF r
    <3>. QED
      BY <3>1, <3>3 DEF OnRoute, Some, None
  <2>2. Waiting(inbox') \subseteq Waiting(inbox) \cup {msg}
    <3>1. \/ UNCHANGED inbox
          \/ /\ m \in Modules /\ inbox[m] # None
             /\ inbox' = [inbox EXCEPT ![m] = Some(Append(@[1], Item(edge, msg)))]
      BY <1>2 DEF Deliver
    <3>2. CASE UNCHANGED inbox
      BY <3>2
    <3>3. CASE /\ m \in Modules /\ inbox[m] # None
               /\ inbox' = [inbox EXCEPT ![m] = Some(Append(@[1], Item(edge, msg)))]
      <4>. DEFINE q == Append(inbox[m][1], Item(edge, msg))
      <4>1. inbox' = [inbox EXCEPT ![m] = Some(q)]
        BY <3>3
      <4>2. Queued(q) \subseteq Queued(inbox[m][1]) \cup {msg}
        <5>1. inbox[m][1] \in Seq(Queueable)
          BY <1>0, <3>3
        <5>2. Item(edge, msg).type = "input" => Item(edge, msg).msg = msg
          BY DEF Item
        <5>. HIDE DEF msg, edge, m
        <5>. QED
          BY <5>1, <5>2 DEF Queued
      <4>3. Queued(inbox[m][1]) \subseteq Waiting(inbox)
        BY <3>3 DEF Waiting
      <4>. HIDE DEF q, msg, m, edge
      <4>4. Waiting([inbox EXCEPT ![m] = Some(q)]) \subseteq Waiting(inbox) \cup Queued(q)
        BY <1>0, <3>3, InboxChanges
      <4>. QED
        BY <4>1, <4>2, <4>3, <4>4
    <3>. QED
      BY <3>1, <3>2, <3>3
  <2>. HIDE DEF msg, edge, m
  <2>. QED
    BY <2>1, <2>2 DEF Contexts, msg
<1>3. ASSUME NEW m \in Modules, BeginProcess(m)
      PROVE  \/ c \in Contexts
             \/ LET msg == Head(inbox[m][1]).msg
                IN /\ msg \in Contexts /\ msg.token = None
                   /\ c = [msg EXCEPT !.token = Some(TokenFor(msg.flow))]
  <2>. DEFINE msg == Head(inbox[m][1]).msg
  <2>1. /\ UNCHANGED <<hub, route, old>>
        /\ inbox[m] # None /\ inbox[m][1] # <<>> /\ Head(inbox[m][1]).type = "input"
        /\ inbox' = [inbox EXCEPT ![m] = Some(Tail(inbox[m][1]))]
    BY <1>3 DEF BeginProcess
  <2>2. /\ msg \in Queued(inbox[m][1]) /\ Queued(Tail(inbox[m][1])) \subseteq Queued(inbox[m][1])
        /\ Queued(inbox[m][1]) \subseteq Waiting(inbox)
    BY <1>0, <2>1, QueueShrinks, InboxChanges
  <2>3. Waiting(inbox') \subseteq Waiting(inbox)
    <3>. DEFINE q == Tail(inbox[m][1])
    <3>. HIDE DEF q
    <3>1. Waiting([inbox EXCEPT ![m] = Some(q)]) \subseteq Waiting(inbox) \cup Queued(q)
      BY <1>0, InboxChanges
    <3>. QED
      BY <2>1, <2>2, <3>1 DEF q
  <2>4. \/ msg.token # None /\ working' = [working EXCEPT ![m] = Some(msg)]
        \/ msg.token = None /\ working' = [working EXCEPT ![m] = Some([msg EXCEPT !.token = Some(TokenFor(msg.flow))])]
    BY <1>3 DEF BeginProcess
  <2>. DEFINE taken == [msg EXCEPT !.token = Some(TokenFor(msg.flow))]
  <2>. HIDE DEF msg, taken
  <2>5. \/ AtWork(working') \subseteq AtWork(working) \cup {msg}
        \/ msg.token = None /\ AtWork(working') \subseteq AtWork(working) \cup {taken}
    <3>1. AtWork([working EXCEPT ![m] = Some(msg)]) \subseteq AtWork(working) \cup {msg}
      BY <1>0, WorkChanges
    <3>2. AtWork([working EXCEPT ![m] = Some(taken)]) \subseteq AtWork(working) \cup {taken}
      BY <1>0, WorkChanges
    <3>. QED
      BY <2>4, <3>1, <3>2 DEF taken
  <2>6. msg \in Contexts
    BY <2>2 DEF Contexts
  <2>. QED
    BY <2>1, <2>3, <2>5, <2>6 DEF Contexts, msg, taken
<1>4. ASSUME NEW m \in Modules, FinishProcess(m)
      PROVE  c \in Contexts \/ \E d \in Contexts : c = Message(d.flow, d.token, d.value, d.after)
  <2>. DEFINE d == working[m][1]
  <2>. DEFINE out == Message(d.flow, d.token, d.value, d.after)
  <2>1. /\ UNCHANGED <<route, inbox, old>> /\ working[m] # None
        /\ working' = [working EXCEPT ![m] = None]
        /\ \/ UNCHANGED hub
           \/ \E e \in Outcome(m, d) : hub' = Append(hub, e)
    BY <1>4 DEF FinishProcess, Post
  <2>2. d \in AtWork(working) /\ AtWork(working') \subseteq AtWork(working)
    BY <1>0, <2>1, WorkChanges
  <2>3. d \in Contexts
    BY <2>2 DEF Contexts
  <2>4. \A e \in Outcome(m, d) : e.msg = out
    <3>1. d \in Context
      BY <2>1, SomeHolds DEF RouterTypeOK
    <3>. QED
      BY <3>1, OutcomeTypes
  <2>. HIDE DEF out, d
  <2>5. OnHub(hub') \subseteq OnHub(hub) \cup {out}
    <3>1. CASE UNCHANGED hub
      BY <3>1
    <3>2. ASSUME NEW e \in Outcome(m, d), hub' = Append(hub, e)
          PROVE  OnHub(hub') \subseteq OnHub(hub) \cup {out}
      <4>1. e.msg = out
        BY <2>4
      <4>. QED
        BY <1>0, <3>2, <4>1 DEF OnHub
    <3>. QED
      BY <2>1, <3>1, <3>2
  <2>. QED
    BY <2>1, <2>2, <2>3, <2>5 DEF Contexts, out
<1>5. ASSUME NEW m \in Modules, StartModule(m) \/ Started(m) \/ StopModule(m) \/ Rewire(m, <<>>) \/ Apply(m)
      PROVE  c \in Contexts
  <2>1. CASE StartModule(m)
    <3>1. Queued(<<>>) = {}
      BY DEF Queued
    <3>2. Waiting([inbox EXCEPT ![m] = Some(<<>>)]) \subseteq Waiting(inbox) \cup Queued(<<>>)
      BY <1>0, InboxChanges
    <3>3. Waiting(inbox') \subseteq Waiting(inbox) /\ UNCHANGED <<hub, route, old, working>>
      BY <2>1, <3>1, <3>2 DEF StartModule
    <3>. QED
      BY <3>3 DEF Contexts
  <2>2. CASE Started(m) \/ Rewire(m, <<>>)
    BY <2>2 DEF Started, Rewire, Contexts
  <2>3. CASE StopModule(m)
    <3>1. /\ UNCHANGED <<hub, route>> /\ inbox[m] # None
          /\ inbox' = [inbox EXCEPT ![m] = None] /\ working' = [working EXCEPT ![m] = None]
          /\ \/ UNCHANGED old
             \/ inbox[m][1] # <<>> /\ old' = [old EXCEPT ![m] = Append(@, inbox[m][1])]
      BY <2>3 DEF StopModule
    <3>2. Waiting(inbox') \subseteq Waiting(inbox) /\ Queued(inbox[m][1]) \subseteq Waiting(inbox)
      BY <1>0, <3>1, InboxChanges
    <3>3. AtWork(working') \subseteq AtWork(working)
      BY <1>0, <3>1, WorkChanges
    <3>4. Behind(old') \subseteq Behind(old) \cup Queued(inbox[m][1])
      <4>1. CASE UNCHANGED old
        BY <4>1
      <4>2. CASE inbox[m][1] # <<>> /\ old' = [old EXCEPT ![m] = Append(@, inbox[m][1])]
        <5>. DEFINE q == inbox[m][1]
        <5>1. q \in Seq(Queueable) \ {<<>>}
          BY <1>0, <3>1, <4>2
        <5>. HIDE DEF q
        <5>2. Behind([old EXCEPT ![m] = Append(@, q)]) \subseteq Behind(old) \cup Queued(q)
          BY <1>0, <5>1, BehindGrows
        <5>. QED
          BY <4>2, <5>2 DEF q
      <4>. QED
        BY <3>1, <4>1, <4>2
    <3>. QED
      BY <3>1, <3>2, <3>3, <3>4 DEF Contexts
  <2>4. CASE Apply(m)
    <3>. DEFINE q == Tail(inbox[m][1])
    <3>1. /\ UNCHANGED <<hub, route, old, working>> /\ inbox[m] # None /\ inbox[m][1] # <<>>
          /\ inbox' = [inbox EXCEPT ![m] = Some(q)]
      BY <2>4 DEF Apply
    <3>2. Queued(q) \subseteq Queued(inbox[m][1]) /\ Queued(inbox[m][1]) \subseteq Waiting(inbox)
      BY <1>0, <3>1, QueueShrinks, InboxChanges
    <3>. HIDE DEF q
    <3>3. Waiting([inbox EXCEPT ![m] = Some(q)]) \subseteq Waiting(inbox) \cup Queued(q)
      BY <1>0, InboxChanges
    <3>. QED
      BY <3>1, <3>2, <3>3 DEF Contexts
  <2>. QED
    BY <1>5, <2>1, <2>2, <2>3, <2>4
<1>6. ASSUME NEW m \in Modules, NEW i \in DOMAIN old[m], Drain(m, i)
      PROVE  c \in Contexts
  <2>1. /\ UNCHANGED <<hub, route, inbox, working>>
        /\ old' = [old EXCEPT ![m] = Shortened(@, i)]
    BY <1>6 DEF Drain
  <2>2. Behind([old EXCEPT ![m] = Shortened(@, i)]) \subseteq Behind(old)
    BY <1>0, BehindShrinks
  <2>. QED
    BY <2>1, <2>2 DEF Contexts
<1>7. ASSUME NEW e \in NameEdits, SetNameTo(e[1], e[2])
      PROVE  c \in Contexts
  <2>. DEFINE m == e[1]
  <2>1. m \in Modules
    BY RouterAssumption
  <2>. DEFINE item == [type |-> "config", chan |-> e[2]]
  <2>. DEFINE q == Append(inbox[m][1], item)
  <2>2. /\ UNCHANGED <<hub, route, old, working>>
        /\ \/ UNCHANGED inbox
           \/ inbox[m] # None /\ inbox' = [inbox EXCEPT ![m] = Some(q)]
    BY <1>7 DEF SetNameTo
  <2>3. inbox[m] # None => Queued(q) \subseteq Queued(inbox[m][1]) /\ Queued(inbox[m][1]) \subseteq Waiting(inbox)
    <3>1. item.type # "input"
      OBVIOUS
    <3>. HIDE DEF m, item
    <3>2. ASSUME inbox[m] # None PROVE Queued(q) \subseteq Queued(inbox[m][1])
      <4>1. inbox[m][1] \in Seq(Queueable)
        BY <1>0, <2>1, <3>2
      <4>. QED
        BY <3>1, <4>1 DEF Queued
    <3>. QED
      BY <1>0, <2>1, <3>2, InboxChanges
  <2>. HIDE DEF q, m, item
  <2>4. Waiting([inbox EXCEPT ![m] = Some(q)]) \subseteq Waiting(inbox) \cup Queued(q)
    BY <1>0, <2>1, InboxChanges
  <2>. QED
    BY <2>2, <2>3, <2>4 DEF Contexts
<1>8. ASSUME (\E f \in 1 .. flows : Abort(f)) \/ Quit \/ UNCHANGED routerVars
      PROVE  c \in Contexts
  BY <1>8 DEF Abort, Quit, routerVars, Contexts
<1>9. ASSUME TakeOut \/ TakeExternal
      PROVE  c \in Contexts
  <2>1. hub # <<>> /\ hub' = Tail(hub) /\ UNCHANGED <<inbox, old, working>>
    BY <1>9 DEF TakeOut, TakeExternal
  <2>2. OnRoute(route') \subseteq {Head(hub).msg}
    BY <1>9 DEF TakeOut, TakeExternal, OnRoute, Some, None
  <2>3. OnHub(hub') \subseteq OnHub(hub) /\ Head(hub).msg \in OnHub(hub)
    BY <1>0, <2>1, HubShrinks
  <2>. QED
    BY <2>1, <2>2, <2>3 DEF Contexts
<1>10. ASSUME NextNode \/ EndRoute
       PROVE  c \in Contexts
  <2>1. UNCHANGED <<hub, inbox, old, working>> /\ OnRoute(route') \subseteq OnRoute(route)
    <3>1. CASE NextNode
      <4>. DEFINE r == [route[1] EXCEPT !.nodes = Tail(@),
                           !.edges = [i \in DOMAIN wires[Head(route[1].nodes)] |->
                                        <<Head(route[1].nodes), wires[Head(route[1].nodes)][i]>>]]
      <4>1. route # None /\ route' = Some(r) /\ UNCHANGED <<hub, inbox, old, working>>
        BY <3>1 DEF NextNode
      <4>2. route[1] \in Route
        BY <4>1, SomeHolds DEF RouterTypeOK
      <4>3. r.msg = route[1].msg
        BY <4>2 DEF Route
      <4>. HIDE DEF r
      <4>. QED
        BY <4>1, <4>3 DEF OnRoute, Some, None
    <3>2. CASE EndRoute
      BY <3>2 DEF EndRoute, OnRoute
    <3>. QED
      BY <1>10, <3>1, <3>2
  <2>. QED
    BY <2>1 DEF Contexts
<1>. QED
  BY <1>1, <1>2, <1>3, <1>4, <1>5, <1>6, <1>7, <1>8, <1>9, <1>10

-----------------------------------------------------------------------------
(* One token for each flow.                                                 *)

Agrees(c, ts) == c.token # None => c.flow \in DOMAIN ts /\ Some(ts[c.flow]) = c.token

\* Asking for the token of a flow leaves the others what they have, whatever
\* it prunes, for a context that has a token keeps its entry alive.
LEMMA TokensStay ==
    ASSUME OneToken, NEW f, ContextToken(f)
    PROVE  /\ \A c \in Contexts : Agrees(c, flowTokens')
           /\ f \in DOMAIN flowTokens' /\ flowTokens'[f] = TokenFor(f)
<1>1. CASE Tracked(f)
  BY <1>1 DEF ContextToken, TokenFor, OneToken, Agrees, Tracked
<1>2. CASE ~Tracked(f)
  <2>. DEFINE kept == IF Cardinality(DOMAIN flowTokens) >= PruneAt THEN Prune(flowTokens) ELSE flowTokens
  <2>1. flowTokens' = [g \in DOMAIN kept \cup {f} |-> IF g = f THEN minted + 1 ELSE kept[g]]
    BY <1>2 DEF ContextToken
  <2>2. ASSUME NEW c \in Contexts, c.token # None
        PROVE  c.flow # f /\ c.flow \in DOMAIN kept /\ kept[c.flow] = flowTokens[c.flow]
    <3>1. c.flow \in DOMAIN flowTokens /\ Some(flowTokens[c.flow]) = c.token
      BY <2>2 DEF OneToken
    <3>2. LiveContexts(flowTokens[c.flow])
      BY <3>1 DEF LiveContexts
    <3>3. c.flow # f
      BY <1>2, <3>1, <3>2 DEF Tracked
    <3>. QED
      BY <3>1, <3>2, <3>3 DEF Prune
  <2>. HIDE DEF kept
  <2>3. \A c \in Contexts : Agrees(c, flowTokens')
    <3>. TAKE c \in Contexts
    <3>1. CASE c.token = None
      BY <3>1 DEF Agrees
    <3>2. CASE c.token # None
      <4>1. c.flow \in DOMAIN flowTokens' /\ flowTokens'[c.flow] = flowTokens[c.flow]
        BY <2>1, <2>2, <3>2
      <4>2. Some(flowTokens[c.flow]) = c.token
        BY <3>2 DEF OneToken
      <4>. QED
        BY <4>1, <4>2 DEF Agrees
    <3>. QED
      BY <3>1, <3>2
  <2>4. f \in DOMAIN flowTokens' /\ flowTokens'[f] = minted + 1 /\ TokenFor(f) = minted + 1
    BY <1>2, <2>1 DEF TokenFor
  <2>. QED
    BY <2>3, <2>4
<1>. QED
  BY <1>1, <1>2

\* Every step leaves a flow with one token: the registry drops an entry only
\* when no context holds its token.
LEMMA OneTokenStays == RouterTypeOK /\ OneToken /\ [RouterNext]_routerVars => OneToken'
<1>. SUFFICES ASSUME RouterTypeOK, OneToken, [RouterNext]_routerVars, NEW c \in Contexts'
              PROVE  Agrees(c, flowTokens')
  BY DEF OneToken, Agrees
<1>0. \A d \in Contexts : Agrees(d, flowTokens)
  BY DEF OneToken, Agrees
<1>1. ASSUME NEW w \in Writes, Write(w[1], w[2]) PROVE Agrees(c, flowTokens')
  <2>1. flowTokens' = flowTokens
    BY <1>1 DEF Write
  <2>2. c \in Contexts \/ c = Message(flows', None, w[2], {})
    BY <1>1, ContextsMove
  <2>3. Message(flows', None, w[2], {}).token = None
    BY DEF Message
  <2>. QED
    BY <1>0, <2>1, <2>2, <2>3 DEF Agrees
<1>2. CASE Deliver
  <2>1. flowTokens' = flowTokens
    BY <1>2 DEF Deliver
  <2>. DEFINE msg == [route[1].msg EXCEPT !.after = IF route[1].channel = None THEN @ ELSE @ \cup {route[1].msg.n}]
  <2>2. c \in Contexts \/ c = msg
    BY <1>2, ContextsMove
  <2>3. route[1].msg \in Contexts /\ route[1].msg \in Context
    BY <1>2, SomeHolds DEF Deliver, Contexts, OnRoute, RouterTypeOK, Route
  <2>4. msg.token = route[1].msg.token /\ msg.flow = route[1].msg.flow
    BY <2>3 DEF Context
  <2>. HIDE DEF msg
  <2>. QED
    BY <1>0, <2>1, <2>2, <2>3, <2>4 DEF Agrees
<1>3. ASSUME NEW m \in Modules, BeginProcess(m) PROVE Agrees(c, flowTokens')
  <2>. DEFINE msg == Head(inbox[m][1]).msg
  <2>. DEFINE taken == [msg EXCEPT !.token = Some(TokenFor(msg.flow))]
  <2>1. c \in Contexts \/ (msg \in Contexts /\ msg.token = None /\ c = taken)
    BY <1>3, ContextsMove
  <2>2. \/ msg.token # None /\ UNCHANGED flowTokens
        \/ msg.token = None /\ ContextToken(msg.flow)
    BY <1>3 DEF BeginProcess
  <2>3. msg \in Context
    <3>1. inbox[m][1] \in Seq(Queueable) /\ inbox[m][1] # <<>> /\ Head(inbox[m][1]).type = "input"
      BY <1>3, SomeHolds DEF BeginProcess, RouterTypeOK
    <3>. QED
      BY <3>1 DEF Queueable
  <2>. HIDE DEF msg
  <2>4. taken.token = Some(TokenFor(msg.flow)) /\ taken.flow = msg.flow
    BY <2>3 DEF Context
  <2>. HIDE DEF taken
  <2>5. CASE msg.token # None
    BY <1>0, <2>1, <2>2, <2>5
  <2>6. CASE msg.token = None
    <3>1. /\ \A d \in Contexts : Agrees(d, flowTokens')
          /\ msg.flow \in DOMAIN flowTokens' /\ flowTokens'[msg.flow] = TokenFor(msg.flow)
      BY <2>2, <2>6, TokensStay
    <3>2. Agrees(taken, flowTokens')
      BY <2>4, <3>1 DEF Agrees
    <3>. QED
      BY <2>1, <3>1, <3>2
  <2>. QED
    BY <2>5, <2>6
<1>4. ASSUME NEW m \in Modules, FinishProcess(m) PROVE Agrees(c, flowTokens')
  <2>1. flowTokens' = flowTokens
    BY <1>4 DEF FinishProcess
  <2>2. c \in Contexts \/ \E d \in Contexts : c = Message(d.flow, d.token, d.value, d.after)
    BY <1>4, ContextsMove
  <2>3. \A d \in Contexts : Agrees(Message(d.flow, d.token, d.value, d.after), flowTokens)
    <3>. TAKE d \in Contexts
    <3>1. Agrees(d, flowTokens)
      BY <1>0
    <3>. QED
      BY <3>1 DEF Agrees, Message
  <2>. QED
    BY <1>0, <2>1, <2>2, <2>3
<1>5. ASSUME NEW m \in Modules, NEW i \in DOMAIN old[m], Drain(m, i) PROVE Agrees(c, flowTokens')
  <2>1. c \in Contexts
    BY <1>5, ContextsMove
  <2>2. \/ UNCHANGED flowTokens
        \/ ContextToken(Head(old[m][i]).msg.flow)
    BY <1>5 DEF Drain
  <2>. QED
    BY <1>0, <2>1, <2>2, TokensStay
<1>6. ASSUME \/ \E m \in Modules : StartModule(m) \/ Started(m) \/ StopModule(m) \/ Rewire(m, <<>>) \/ Apply(m)
             \/ \E e \in NameEdits : SetNameTo(e[1], e[2])
             \/ \E f \in 1 .. flows : Abort(f)
             \/ Quit \/ TakeOut \/ TakeExternal \/ NextNode \/ EndRoute
             \/ UNCHANGED routerVars
      PROVE  Agrees(c, flowTokens')
  <2>1. flowTokens' = flowTokens
    BY <1>6 DEF StartModule, Started, StopModule, Rewire, Apply, SetNameTo, Abort, Quit, TakeOut, TakeExternal,
                NextNode, EndRoute, routerVars
  <2>2. c \in Contexts
    BY <1>6, ContextsMove
  <2>. QED
    BY <1>0, <2>1, <2>2
<1>. QED
  BY <1>1, <1>2, <1>3, <1>4, <1>5, <1>6 DEF RouterNext

\* At the start there is no context.
LEMMA NoContextsYet == RouterInit => Contexts = {}
<1>. SUFFICES ASSUME RouterInit PROVE Contexts = {}
  OBVIOUS
<1>1. OnHub(hub) = {} /\ OnRoute(route) = {}
  BY DEF RouterInit, OnHub, OnRoute
<1>2. Behind(old) = {} /\ AtWork(working) = {}
  BY DEF RouterInit, Behind, AtWork
<1>3. Waiting(inbox) = {}
  <2>1. \A m \in Modules : inbox[m] = None \/ inbox[m][1] = <<>>
    BY DEF RouterInit, Some
  <2>. QED
    BY <2>1 DEF Waiting, Queued
<1>. QED
  BY <1>1, <1>2, <1>3 DEF Contexts

\* However its contexts spread over queues, modules and loops, a flow has one
\* token, and abort_context finds it: through expiry, pruning and stops.
THEOREM OneTokenHolds == RouterSpec => []OneToken
<1>1. RouterInit => OneToken
  BY NoContextsYet DEF OneToken
<1>. QED
  BY <1>1, RouterTypeCorrect, OneTokenStays, PTL DEF RouterSpec

-----------------------------------------------------------------------------
(* The registrations.                                                       *)

NotListed(r, m) == \A d \in DOMAIN r : \A i \in DOMAIN r[d] : r[d][i] # m

\* Who leaves its channel is listed no more.
LEMMA LeaveMeans ==
    ASSUME NEW r, Lists(r), NEW st, NEW ch, Listed(r, st, ch), NEW m \in Modules
    PROVE  LET l == Leave(r, m, ChannelOf(m, ch[m])) IN Listed(l, st, ch) /\ NotListed(l, m)
<1>. DEFINE c == ChannelOf(m, ch[m])
<1>. DEFINE l == Leave(r, m, c)
<1>1. DOMAIN l = DOMAIN r
  BY DEF Leave
<1>2. ASSUME NEW d \in DOMAIN r
      PROVE  /\ Once(l[d])
             /\ \A i \in DOMAIN l[d] : l[d][i] # m /\ \E j \in DOMAIN r[d] : l[d][i] = r[d][j]
  <2>1. r[d] \in Seq(Modules) /\ Once(r[d])
    BY DEF Lists, Listed
  <2>2. CASE d = c
    <3>. DEFINE w == Within(r[d], Modules \ {m})
    <3>1. l[d] = w
      BY <2>2 DEF Leave
    <3>2. Once(w)
      BY <2>1, WithinOnce
    <3>3. \A i \in DOMAIN w : w[i] \in Modules \ {m}
      BY <2>1, WithinKeeps
    <3>4. \A i \in DOMAIN w : \E j \in DOMAIN r[d] : w[i] = r[d][j]
      BY <2>1, WithinFrom
    <3>. HIDE DEF w, l
    <3>. QED
      BY <3>1, <3>2, <3>3, <3>4
  <2>3. CASE d # c
    <3>1. l[d] = r[d]
      BY <2>3 DEF Leave
    <3>2. \A j \in DOMAIN r[d] : r[d][j] # m
      BY <2>3 DEF Listed
    <3>. HIDE DEF l
    <3>. QED
      BY <2>1, <3>1, <3>2
  <2>. QED
    BY <2>2, <2>3
<1>. HIDE DEF l
<1>3. Listed(l, st, ch)
  BY <1>1, <1>2 DEF Listed
<1>4. NotListed(l, m)
  BY <1>1, <1>2 DEF NotListed
<1>. QED
  BY <1>3, <1>4 DEF l

\* Who is not listed may be stopped, started and renamed.
LEMMA OthersListed ==
    ASSUME NEW r, NEW st \in [Modules -> BOOLEAN], NEW ch \in [Modules -> Name], Lists(r), Listed(r, st, ch),
           NEW m \in Modules, NotListed(r, m), NEW b, NEW n
    PROVE  Listed(r, [st EXCEPT ![m] = b], [ch EXCEPT ![m] = n])
<1>. SUFFICES ASSUME NEW c \in DOMAIN r, NEW i \in DOMAIN r[c]
              PROVE  /\ IsInput(r[c][i]) /\ [st EXCEPT ![m] = b][r[c][i]]
                     /\ c = ChannelOf(r[c][i], [ch EXCEPT ![m] = n][r[c][i]])
  BY DEF Listed
<1>1. r[c][i] # m /\ r[c][i] \in Modules
  BY DEF NotListed, Lists
<1>2. IsInput(r[c][i]) /\ st[r[c][i]] /\ c = ChannelOf(r[c][i], ch[r[c][i]])
  BY DEF Listed
<1>3. [st EXCEPT ![m] = b][r[c][i]] = st[r[c][i]] /\ [ch EXCEPT ![m] = n][r[c][i]] = ch[r[c][i]]
  BY <1>1
<1>. QED
  BY <1>2, <1>3

\* Who is not listed and runs may listen to its channel.
LEMMA ListenMeans ==
    ASSUME NEW r, Lists(r), NEW st, NEW ch, Listed(r, st, ch),
           NEW m \in Modules, NotListed(r, m), IsInput(m), st[m], ChannelOf(m, ch[m]) \in Channel
    PROVE  Listed(Listen(r, m, ChannelOf(m, ch[m])), st, ch)
<1>. DEFINE c == ChannelOf(m, ch[m])
<1>. DEFINE l == Listen(r, m, c)
<1>1. DOMAIN l = DOMAIN r \cup {c}
  BY DEF Listen
<1>2. ASSUME NEW d \in DOMAIN r, d # c
      PROVE  l[d] = r[d]
  BY <1>2 DEF Listen
<1>3. /\ Once(l[c])
      /\ \A i \in DOMAIN l[c] : l[c][i] = m \/ (c \in DOMAIN r /\ \E j \in DOMAIN r[c] : l[c][i] = r[c][j])
  <2>. DEFINE s == Listening(r, c)
  <2>1. l[c] = Append(s, m)
    BY DEF Listen
  <2>2. s \in Seq(Modules)
    BY ListTypes
  <2>3. Once(s) /\ \A j \in DOMAIN s : s[j] # m /\ c \in DOMAIN r /\ s[j] = r[c][j] /\ j \in DOMAIN r[c]
    BY DEF Listening, Listed, NotListed, Once
  <2>. HIDE DEF s, l
  <2>4. DOMAIN l[c] = 1 .. Len(s) + 1 /\ DOMAIN s = 1 .. Len(s) /\ l[c][Len(s) + 1] = m
        /\ \A j \in 1 .. Len(s) : l[c][j] = s[j]
    BY <2>1, <2>2
  <2>. QED
    BY <2>2, <2>3, <2>4 DEF Once
<1>. HIDE DEF l
<1>4. ASSUME NEW d \in DOMAIN l
      PROVE  /\ Once(l[d])
             /\ \A i \in DOMAIN l[d] :
                   IsInput(l[d][i]) /\ st[l[d][i]] /\ d = ChannelOf(l[d][i], ch[l[d][i]])
  <2>1. CASE d = c
    BY <1>3, <2>1 DEF Listed
  <2>2. CASE d # c
    BY <1>1, <1>2, <2>2 DEF Listed
  <2>. QED
    BY <2>1, <2>2
<1>. QED
  BY <1>4 DEF Listed, l

\* A config that is set leaves the lists right.
LEMMA MovedMeans ==
    ASSUME RouterTypeOK, ListedWhileStarted, NEW m \in Modules, NEW n \in Name
    PROVE  Listed(Moved(m, n), started, [chan EXCEPT ![m] = n])
<1>. DEFINE ch == [chan EXCEPT ![m] = n]
<1>0. /\ started \in [Modules -> BOOLEAN] /\ chan \in [Modules -> Name] /\ Lists(registered)
      /\ Listed(registered, started, chan) /\ started = [started EXCEPT ![m] = started[m]] /\ ch[m] = n
  BY DEF RouterTypeOK, ListedWhileStarted
<1>1. CASE chan[m] = n
  <2>1. ch = chan /\ Moved(m, n) = registered
    BY <1>0, <1>1 DEF Moved
  <2>. QED
    BY <1>0, <2>1
<1>2. CASE ~IsInput(m) \/ ~started[m]
  <2>1. NotListed(registered, m) /\ Moved(m, n) = registered
    BY <1>0, <1>2 DEF NotListed, Listed, Moved
  <2>2. Listed(registered, [started EXCEPT ![m] = started[m]], ch)
    BY <1>0, <2>1, OthersListed
  <2>. QED
    BY <1>0, <2>1, <2>2
<1>3. CASE IsInput(m) /\ started[m] /\ chan[m] # n
  <2>. DEFINE c == ChannelOf(m, chan[m])
  <2>. DEFINE l == Leave(registered, m, c)
  <2>1. ChannelOf(m, n) \in Channel /\ c \in Channel
    BY <1>0 DEF Channel
  <2>2. Lists(l)
    BY <1>0, <2>1, ListTypes
  <2>3. Listed(l, started, chan) /\ NotListed(l, m)
    BY <1>0, LeaveMeans
  <2>. HIDE DEF l
  <2>4. Listed(l, [started EXCEPT ![m] = started[m]], ch)
    BY <1>0, <2>2, <2>3, OthersListed
  <2>. HIDE DEF ch
  <2>5. Listed(Listen(l, m, ChannelOf(m, ch[m])), started, ch)
    BY <1>0, <1>3, <2>1, <2>2, <2>3, <2>4, ListenMeans
  <2>6. Moved(m, n) = Listen(l, m, ChannelOf(m, n))
    BY <1>3 DEF Moved, l
  <2>. QED
    BY <1>0, <2>5, <2>6 DEF ch
<1>. QED
  BY <1>1, <1>2, <1>3

\* Every step leaves an input listed, once, where it listens while it is started.
LEMMA ListedStays == RouterTypeOK /\ ListedWhileStarted /\ [RouterNext]_routerVars => ListedWhileStarted'
<1>. SUFFICES ASSUME RouterTypeOK, ListedWhileStarted, [RouterNext]_routerVars PROVE ListedWhileStarted'
  OBVIOUS
<1>0. /\ started \in [Modules -> BOOLEAN] /\ chan \in [Modules -> Name] /\ Lists(registered)
      /\ Listed(registered, started, chan)
  BY DEF RouterTypeOK, ListedWhileStarted
<1>1. ASSUME NEW m \in Modules, NEW n \in Name, SetConfig(m, n), UNCHANGED started PROVE ListedWhileStarted'
  <2>1. Listed(Moved(m, n), started, [chan EXCEPT ![m] = n])
    BY MovedMeans
  <2>. QED
    BY <1>1, <2>1 DEF SetConfig, ListedWhileStarted
<1>2. ASSUME NEW e \in NameEdits, SetNameTo(e[1], e[2]) PROVE ListedWhileStarted'
  <2>1. e[1] \in Modules /\ e[2] \in Name
    BY RouterAssumption DEF Name
  <2>2. SetConfig(e[1], e[2]) \/ UNCHANGED <<chan, registered>>
    BY <1>2 DEF SetNameTo
  <2>3. UNCHANGED started
    BY <1>2 DEF SetNameTo
  <2>. QED
    BY <1>1, <2>1, <2>2, <2>3 DEF ListedWhileStarted
<1>3. ASSUME NEW m \in Modules, Started(m) PROVE ListedWhileStarted'
  <2>1. NotListed(registered, m)
    BY <1>0, <1>3 DEF Started, NotListed, Listed
  <2>2. chan = [chan EXCEPT ![m] = chan[m]] /\ started' = [started EXCEPT ![m] = TRUE]
    BY <1>0, <1>3 DEF Started
  <2>3. Listed(registered, started', chan)
    <3>1. Listed(registered, [started EXCEPT ![m] = TRUE], [chan EXCEPT ![m] = chan[m]])
      BY <1>0, <2>1, OthersListed
    <3>. QED
      BY <2>2, <3>1
  <2>4. CASE IsInput(m)
    <3>1. started'[m] /\ ChannelOf(m, chan[m]) \in Channel
      BY <1>0, <2>2 DEF Channel
    <3>2. Listed(Listen(registered, m, ChannelOf(m, chan[m])), started', chan)
      BY <1>0, <2>1, <2>3, <2>4, <3>1, ListenMeans
    <3>. QED
      BY <1>3, <2>4, <3>2 DEF Started, ListedWhileStarted
  <2>5. CASE ~IsInput(m)
    BY <1>3, <2>3, <2>5 DEF Started, ListedWhileStarted
  <2>. QED
    BY <2>4, <2>5
<1>4. ASSUME NEW m \in Modules, StopModule(m) PROVE ListedWhileStarted'
  <2>1. chan = [chan EXCEPT ![m] = chan[m]] /\ started' = [started EXCEPT ![m] = FALSE] /\ UNCHANGED chan
    BY <1>0, <1>4 DEF StopModule
  <2>2. CASE IsInput(m) /\ started[m]
    <3>. DEFINE l == Leave(registered, m, ChannelOf(m, chan[m]))
    <3>1. Listed(l, started, chan) /\ NotListed(l, m)
      BY <1>0, LeaveMeans
    <3>2. ChannelOf(m, chan[m]) \in Channel
      BY <1>0 DEF Channel
    <3>3. Lists(l)
      BY <1>0, <3>2, ListTypes
    <3>4. registered' = l
      BY <1>4, <2>2 DEF StopModule
    <3>. HIDE DEF l
    <3>5. Listed(l, started', chan)
      <4>1. Listed(l, [started EXCEPT ![m] = FALSE], [chan EXCEPT ![m] = chan[m]])
        BY <1>0, <3>1, <3>3, OthersListed
      <4>. QED
        BY <2>1, <4>1
    <3>. QED
      BY <2>1, <3>4, <3>5 DEF ListedWhileStarted
  <2>3. CASE ~(IsInput(m) /\ started[m])
    <3>1. NotListed(registered, m) /\ registered' = registered
      BY <1>0, <1>4, <2>3 DEF NotListed, Listed, StopModule
    <3>2. Listed(registered, started', chan)
      <4>1. Listed(registered, [started EXCEPT ![m] = FALSE], [chan EXCEPT ![m] = chan[m]])
        BY <1>0, <3>1, OthersListed
      <4>. QED
        BY <2>1, <4>1
    <3>. QED
      BY <2>1, <3>1, <3>2 DEF ListedWhileStarted
  <2>. QED
    BY <2>2, <2>3
<1>5. ASSUME NEW m \in Modules, Apply(m) PROVE ListedWhileStarted'
  <2>1. inbox[m][1] \in Seq(Queueable) /\ inbox[m][1] # <<>>
    BY <1>5, SomeHolds DEF Apply, RouterTypeOK
  <2>2. Head(inbox[m][1]).chan \in Name
    BY <1>5, <2>1 DEF Apply, Queueable
  <2>3. SetConfig(m, Head(inbox[m][1]).chan) /\ UNCHANGED started
    BY <1>5 DEF Apply
  <2>. QED
    BY <1>1, <2>2, <2>3
<1>6. ASSUME NEW m \in Modules, NEW i \in DOMAIN old[m], Drain(m, i) PROVE ListedWhileStarted'
  <2>. DEFINE item == Head(old[m][i])
  <2>1. item \in Queueable
    BY DEF RouterTypeOK
  <2>2. UNCHANGED started
    BY <1>6 DEF Drain
  <2>3. CASE item.type = "config"
    <3>1. item.chan \in Name
      BY <2>1, <2>3 DEF Queueable
    <3>2. SetConfig(m, item.chan)
      BY <1>6, <2>3 DEF Drain
    <3>. QED
      BY <1>1, <2>2, <3>1, <3>2
  <2>4. CASE item.type # "config"
    <3>1. UNCHANGED <<chan, registered>>
      BY <1>6, <2>4 DEF Drain
    <3>. QED
      BY <2>2, <3>1 DEF ListedWhileStarted
  <2>. QED
    BY <2>3, <2>4
<1>7. CASE Deliver
  <2>. DEFINE edge == Head(route[1].edges)
  <2>. DEFINE m == edge[2][1]
  <2>. DEFINE msg == [route[1].msg EXCEPT !.after = IF route[1].channel = None THEN @ ELSE @ \cup {route[1].msg.n}]
  <2>1. \/ UNCHANGED <<chan, registered>>
        \/ m \in Modules /\ SetConfig(m, msg.value)
    BY <1>7 DEF Deliver
  <2>2. route[1].msg \in Context
    BY <1>7, SomeHolds DEF Deliver, RouterTypeOK, Route
  <2>3. msg.value \in Value
    BY <2>2 DEF Context
  <2>. HIDE DEF msg, m
  <2>4. msg.value \in Name
    BY <2>3 DEF Name
  <2>5. UNCHANGED started
    BY <1>7 DEF Deliver
  <2>. QED
    BY <1>1, <2>1, <2>4, <2>5 DEF ListedWhileStarted
<1>8. ASSUME \/ \E w \in Writes : Write(w[1], w[2])
             \/ \E f \in 1 .. flows : Abort(f)
             \/ \E m \in Modules : StartModule(m) \/ Rewire(m, <<>>) \/ BeginProcess(m) \/ FinishProcess(m)
             \/ Quit \/ TakeOut \/ TakeExternal \/ NextNode \/ EndRoute
             \/ UNCHANGED routerVars
      PROVE  ListedWhileStarted'
  <2>1. UNCHANGED <<registered, started, chan>>
    BY <1>8 DEF Write, Abort, StartModule, Rewire, BeginProcess, FinishProcess, Quit, TakeOut, TakeExternal,
                NextNode, EndRoute, routerVars
  <2>. QED
    BY <2>1 DEF ListedWhileStarted
<1>. QED
  BY <1>2, <1>3, <1>4, <1>5, <1>6, <1>7, <1>8 DEF RouterNext

-----------------------------------------------------------------------------
(* The order of what is sent.                                               *)

\* What is posted goes behind all there is.
LEMMA PostedLast ==
    ASSUME NEW h \in Seq(Event), NEW e \in Event, NEW p \in Nat, HubInOrder(h, p), e.msg.n = p + 1
    PROVE  /\ HubInOrder(Append(h, e), p + 1)
           /\ \A n \in Nat : Ahead(n, h, p) => Ahead(n, Append(h, e), p + 1)
<1>. DEFINE a == Append(h, e)
<1>1. /\ DOMAIN a = 1 .. Len(h) + 1 /\ DOMAIN h = 1 .. Len(h) /\ Len(h) \in Nat
      /\ \A i \in 1 .. Len(h) : a[i] = h[i]
      /\ a[Len(h) + 1] = e
  OBVIOUS
<1>2. \A i \in DOMAIN h : h[i].msg.n \in Nat
  BY DEF Event, Context
<1>. HIDE DEF a
<1>3. HubInOrder(a, p + 1)
  <2>1. ASSUME NEW i \in DOMAIN a PROVE a[i].msg.n <= p + 1
    BY <1>1, <1>2 DEF HubInOrder
  <2>2. ASSUME NEW i \in DOMAIN a, NEW j \in DOMAIN a, i < j PROVE a[i].msg.n < a[j].msg.n
    <3>1. i \in 1 .. Len(h)
      BY <1>1, <2>2
    <3>2. CASE j \in 1 .. Len(h)
      BY <1>1, <2>2, <3>1, <3>2 DEF HubInOrder
    <3>3. CASE j = Len(h) + 1
      <4>1. a[i].msg.n <= p /\ a[i].msg.n \in Nat /\ a[j].msg.n = p + 1
        BY <1>1, <1>2, <3>1, <3>3 DEF HubInOrder
      <4>. QED
        BY <4>1
    <3>. QED
      BY <1>1, <3>2, <3>3
  <2>. QED
    BY <2>1, <2>2 DEF HubInOrder
<1>4. ASSUME NEW n \in Nat, Ahead(n, h, p) PROVE Ahead(n, a, p + 1)
  BY <1>1, <1>4 DEF Ahead
<1>. QED
  BY <1>3, <1>4 DEF a

\* What is taken is the first, and ahead of the rest.
LEMMA TakenFirst ==
    ASSUME NEW h \in Seq(Event), h # <<>>, NEW p \in Nat, HubInOrder(h, p)
    PROVE  /\ HubInOrder(Tail(h), p)
           /\ Ahead(Head(h).msg.n, Tail(h), p)
           /\ \A n \in Nat : Ahead(n, h, p) => Ahead(n, Tail(h), p) /\ n < Head(h).msg.n
<1>1. /\ Len(h) \in Nat \ {0} /\ DOMAIN h = 1 .. Len(h) /\ Head(h) = h[1]
      /\ DOMAIN Tail(h) = 1 .. Len(h) - 1
      /\ \A i \in 1 .. Len(h) - 1 : Tail(h)[i] = h[i + 1]
  OBVIOUS
<1>. DEFINE t == Tail(h)
<1>. HIDE DEF t
<1>2. /\ DOMAIN t = 1 .. Len(h) - 1 /\ 1 \in DOMAIN h
      /\ \A i \in DOMAIN t : t[i] = h[i + 1] /\ i + 1 \in DOMAIN h /\ 1 < i + 1 /\ i \in Nat
  BY <1>1 DEF t
<1>3. HubInOrder(t, p)
  <2>1. ASSUME NEW i \in DOMAIN t, NEW j \in DOMAIN t, i < j PROVE t[i].msg.n < t[j].msg.n
    <3>1. i + 1 < j + 1
      BY <1>2, <2>1
    <3>. QED
      BY <1>2, <3>1 DEF HubInOrder
  <2>. QED
    BY <1>2, <2>1 DEF HubInOrder
<1>4. Ahead(Head(h).msg.n, t, p)
  BY <1>1, <1>2 DEF HubInOrder, Ahead
<1>5. \A n \in Nat : Ahead(n, h, p) => Ahead(n, t, p) /\ n < Head(h).msg.n
  BY <1>1, <1>2 DEF Ahead
<1>. QED
  BY <1>3, <1>4, <1>5 DEF t

\* A delivery takes the first wire left, and what it hands over is the last
\* its target has seen.
LEMMA SeenGrows ==
    ASSUME RouterTypeOK, Deliver
    PROVE  /\ route # None /\ route[1] \in Route /\ route[1].edges # <<>>
           /\ UNCHANGED <<hub, posted, wires, heard>>
           /\ route' = Some([route[1] EXCEPT !.edges = Tail(@)])
           /\ \A x \in Modules : \A k \in DOMAIN seen'[x] :
                 \/ k \in DOMAIN seen[x] /\ seen'[x][k] = seen[x][k]
                 \/ /\ k = Len(seen[x]) + 1
                    /\ seen'[x][k] = <<Head(route[1].edges), route[1].msg.n>>
<1>. DEFINE edge == Head(route[1].edges)
<1>. DEFINE m == edge[2][1]
<1>. DEFINE msg == [route[1].msg EXCEPT !.after = IF route[1].channel = None THEN @ ELSE @ \cup {route[1].msg.n}]
<1>1. /\ route # None /\ route[1] \in Route /\ route[1].edges # <<>>
      /\ UNCHANGED <<hub, posted, wires, heard>>
      /\ route' = Some([route[1] EXCEPT !.edges = Tail(@)])
  BY SomeHolds DEF Deliver, RouterTypeOK
<1>2. \/ UNCHANGED seen
      \/ m \in Modules /\ seen' = [seen EXCEPT ![m] = Append(@, <<edge, msg.n>>)]
  BY DEF Deliver
<1>3. msg.n = route[1].msg.n
  BY <1>1 DEF Route, Context
<1>. HIDE DEF msg, m, edge
<1>. SUFFICES ASSUME NEW x \in Modules, NEW k \in DOMAIN seen'[x]
              PROVE  \/ k \in DOMAIN seen[x] /\ seen'[x][k] = seen[x][k]
                     \/ k = Len(seen[x]) + 1 /\ seen'[x][k] = <<edge, route[1].msg.n>>
  BY <1>1 DEF edge
<1>4. CASE UNCHANGED seen \/ x # m
  <2>1. seen'[x] = seen[x]
    BY <1>2, <1>4 DEF RouterTypeOK
  <2>. QED
    BY <2>1
<1>5. CASE seen' = [seen EXCEPT ![m] = Append(@, <<edge, msg.n>>)] /\ x = m
  <2>. DEFINE s == seen[x]
  <2>. DEFINE e == <<edge, msg.n>>
  <2>1. s \in Seq((Modules \X Edge) \X Nat) /\ seen'[x] = Append(s, e) /\ e = <<edge, route[1].msg.n>>
    BY <1>3, <1>5 DEF RouterTypeOK
  <2>. HIDE DEF s, e
  <2>2. /\ DOMAIN Append(s, e) = 1 .. Len(s) + 1 /\ DOMAIN s = 1 .. Len(s) /\ Len(s) \in Nat
        /\ \A i \in 1 .. Len(s) : Append(s, e)[i] = s[i]
        /\ Append(s, e)[Len(s) + 1] = e
    BY <2>1
  <2>3. k \in 1 .. Len(s) \/ k = Len(s) + 1
    BY <2>1, <2>2
  <2>4. k \in 1 .. Len(s) => k \in DOMAIN s /\ seen'[x][k] = s[k]
    BY <2>1, <2>2
  <2>5. k = Len(s) + 1 => seen'[x][k] = <<edge, route[1].msg.n>>
    BY <2>1, <2>2
  <2>. QED
    BY <2>3, <2>4, <2>5 DEF s
<1>. QED
  BY <1>2, <1>4, <1>5

\* The order of what is sent is kept.
LEMMA SentStays == RouterTypeOK /\ SentInOrder /\ [RouterNext]_routerVars => SentInOrder'
<1>. SUFFICES ASSUME RouterTypeOK, SentInOrder, [RouterNext]_routerVars PROVE SentInOrder'
  OBVIOUS
<1>0. /\ hub \in Seq(Event) /\ posted \in Nat
      /\ route # None => route[1] \in Route /\ route[1].msg.n \in Nat
      /\ \A m \in Modules : \A k \in DOMAIN seen[m] : seen[m][k][2] \in Nat
  <2>1. route # None => route[1] \in Route
    BY SomeHolds DEF RouterTypeOK
  <2>2. route # None => route[1].msg.n \in Nat
    BY <2>1 DEF Route, Context
  <2>. QED
    BY <2>1, <2>2 DEF RouterTypeOK
<1>1. ASSUME NEW e \in Event, e.msg.n = posted + 1, Post(e), UNCHANGED <<route, seen>> PROVE SentInOrder'
  <2>1. hub' = Append(hub, e) /\ posted' = posted + 1
    BY <1>1 DEF Post
  <2>2. /\ HubInOrder(hub', posted')
        /\ \A n \in Nat : Ahead(n, hub, posted) => Ahead(n, hub', posted')
    BY <1>0, <1>1, <2>1, PostedLast DEF SentInOrder
  <2>3. route # None => Ahead(route[1].msg.n, hub', posted')
    BY <1>0, <2>2 DEF SentInOrder
  <2>4. \A m \in Modules : \A k \in DOMAIN seen[m] :
           /\ Ahead(seen[m][k][2], hub', posted')
           /\ route # None => seen[m][k][2] <= route[1].msg.n
    BY <1>0, <2>2 DEF SentInOrder
  <2>5. route' = route /\ seen' = seen
    BY <1>1
  <2>. QED
    BY <2>2, <2>3, <2>4, <2>5 DEF SentInOrder
<1>2. ASSUME NEW w \in Writes, Write(w[1], w[2]) PROVE SentInOrder'
  <2>. DEFINE msg == Message(flows', None, w[2], {})
  <2>1. w[1] \in Channel /\ w[2] \in Value /\ {} \in SUBSET Nat /\ None \in Opt(Nat)
    BY DEF Channel, Value, Opt
  <2>2. msg \in Context
    <3>1. flows' \in Nat
      BY <1>2 DEF Write, RouterTypeOK
    <3>. QED
      BY <1>0, <2>1, <3>1, MessageTypes
  <2>3. msg.n = posted + 1
    BY DEF Message
  <2>4. Post(ChannelWrite(w[1], msg)) /\ UNCHANGED <<route, seen>>
    BY <1>2 DEF Write
  <2>. HIDE DEF msg
  <2>5. ChannelWrite(w[1], msg) \in Event /\ ChannelWrite(w[1], msg).msg = msg
    BY <2>1, <2>2 DEF Event, ChannelWrite
  <2>. QED
    BY <1>1, <2>3, <2>4, <2>5
<1>3. ASSUME NEW m \in Modules, FinishProcess(m) PROVE SentInOrder'
  <2>1. UNCHANGED <<route, seen>>
    BY <1>3 DEF FinishProcess
  <2>2. \/ UNCHANGED <<hub, posted>>
        \/ \E e \in Outcome(m, working[m][1]) : Post(e)
    BY <1>3 DEF FinishProcess
  <2>3. \A e \in Outcome(m, working[m][1]) : e \in Event /\ e.msg.n = posted + 1
    <3>1. working[m][1] \in Context
      BY <1>3, SomeHolds DEF FinishProcess, RouterTypeOK
    <3>. QED
      BY <3>1, OutcomeTypes
  <2>4. CASE UNCHANGED <<hub, posted>>
    BY <2>1, <2>4 DEF SentInOrder
  <2>. QED
    BY <1>1, <2>1, <2>2, <2>3, <2>4
<1>4. CASE TakeOut \/ TakeExternal
  <2>1. /\ route = None /\ hub # <<>> /\ hub' = Tail(hub) /\ UNCHANGED <<posted, seen>>
        /\ route'[1].msg = Head(hub).msg
    BY <1>4 DEF TakeOut, TakeExternal, Some
  <2>2. /\ HubInOrder(hub', posted) /\ Ahead(Head(hub).msg.n, hub', posted)
        /\ \A n \in Nat : Ahead(n, hub, posted) => Ahead(n, hub', posted) /\ n < Head(hub).msg.n
    BY <1>0, <2>1, TakenFirst DEF SentInOrder
  <2>3. Head(hub).msg.n \in Nat
    BY <1>0, <2>1 DEF Event, Context
  <2>4. \A m \in Modules : \A k \in DOMAIN seen[m] :
           /\ Ahead(seen[m][k][2], hub', posted)
           /\ seen[m][k][2] <= Head(hub).msg.n
    BY <1>0, <2>2, <2>3 DEF SentInOrder
  <2>. QED
    BY <2>1, <2>2, <2>4 DEF SentInOrder
<1>5. CASE NextNode
  <2>1. UNCHANGED <<hub, posted, seen>> /\ route # None /\ route'[1].msg = route[1].msg
    <3>. DEFINE r == [route[1] EXCEPT !.nodes = Tail(@),
                           !.edges = [i \in DOMAIN wires[Head(route[1].nodes)] |->
                                        <<Head(route[1].nodes), wires[Head(route[1].nodes)][i]>>]]
    <3>1. route # None /\ route' = Some(r) /\ UNCHANGED <<hub, posted, seen>>
      BY <1>5 DEF NextNode
    <3>2. r.msg = route[1].msg
      BY <1>0, <3>1 DEF Route
    <3>. HIDE DEF r
    <3>. QED
      BY <3>1, <3>2 DEF Some
  <2>. QED
    BY <2>1 DEF SentInOrder
<1>6. CASE Deliver
  <2>. DEFINE n == route[1].msg.n
  <2>1. /\ UNCHANGED <<hub, posted>> /\ route # None /\ route'[1].msg = route[1].msg
        /\ \A x \in Modules : \A k \in DOMAIN seen'[x] :
              \/ k \in DOMAIN seen[x] /\ seen'[x][k] = seen[x][k]
              \/ seen'[x][k][2] = n
    <3>. DEFINE r == [route[1] EXCEPT !.edges = Tail(@)]
    <3>1. /\ route # None /\ route[1] \in Route /\ route' = Some(r)
      BY <1>6, SeenGrows
    <3>2. r.msg = route[1].msg
      BY <3>1 DEF Route
    <3>. HIDE DEF r
    <3>3. route'[1].msg = route[1].msg
      BY <3>1, <3>2 DEF Some
    <3>. QED
      BY <1>6, <3>1, <3>3, SeenGrows
  <2>. HIDE DEF n
  <2>2. Ahead(n, hub, posted) /\ n <= n
    BY <1>0, <2>1 DEF SentInOrder, n
  <2>3. \A x \in Modules : \A k \in DOMAIN seen[x] : Ahead(seen[x][k][2], hub, posted) /\ seen[x][k][2] <= n
    BY <2>1 DEF SentInOrder, n
  <2>4. \A x \in Modules : \A k \in DOMAIN seen'[x] : Ahead(seen'[x][k][2], hub, posted) /\ seen'[x][k][2] <= n
    BY <2>1, <2>2, <2>3
  <2>. QED
    BY <2>1, <2>2, <2>4 DEF SentInOrder, n
<1>7. CASE EndRoute
  BY <1>7 DEF EndRoute, SentInOrder
<1>8. ASSUME \/ \E m \in Modules : StartModule(m) \/ Started(m) \/ StopModule(m) \/ Rewire(m, <<>>) \/ Apply(m)
                                   \/ BeginProcess(m) \/ \E i \in DOMAIN old[m] : Drain(m, i)
             \/ \E e \in NameEdits : SetNameTo(e[1], e[2])
             \/ \E f \in 1 .. flows : Abort(f)
             \/ Quit \/ UNCHANGED routerVars
      PROVE  SentInOrder'
  <2>1. UNCHANGED <<hub, posted, route, seen>>
    BY <1>8 DEF StartModule, Started, StopModule, Rewire, Apply, BeginProcess, Drain, SetNameTo, Abort, Quit, routerVars
  <2>. QED
    BY <2>1 DEF SentInOrder
<1>. QED
  BY <1>2, <1>3, <1>4, <1>5, <1>6, <1>7, <1>8 DEF RouterNext

-----------------------------------------------------------------------------
(* What is left to deliver.                                                 *)

\* A list without repetitions has its first element only there.
LEMMA TailOnce ==
    ASSUME NEW T, NEW s \in Seq(T), s # <<>>, Once(s)
    PROVE  /\ Once(Tail(s))
           /\ \A i \in DOMAIN Tail(s) : Tail(s)[i] # Head(s) /\ \E j \in DOMAIN s : Tail(s)[i] = s[j]
           /\ \E j \in DOMAIN s : Head(s) = s[j]
<1>. DEFINE t == Tail(s)
<1>1. /\ Len(s) \in Nat \ {0} /\ DOMAIN s = 1 .. Len(s) /\ Head(s) = s[1]
      /\ DOMAIN t = 1 .. Len(s) - 1
      /\ \A i \in 1 .. Len(s) - 1 : t[i] = s[i + 1]
  OBVIOUS
<1>. HIDE DEF t
<1>2. /\ \A i \in DOMAIN t : t[i] = s[i + 1] /\ i + 1 \in DOMAIN s /\ i + 1 # 1 /\ i \in Int
      /\ 1 \in DOMAIN s
  BY <1>1
<1>3. Once(t)
  <2>. SUFFICES ASSUME NEW i \in DOMAIN t, NEW j \in DOMAIN t, t[i] = t[j] PROVE i = j
    BY DEF Once
  <2>1. i + 1 = j + 1
    BY <1>2 DEF Once
  <2>. QED
    BY <1>2, <2>1
<1>4. \A i \in DOMAIN t : t[i] # Head(s) /\ \E j \in DOMAIN s : t[i] = s[j]
  BY <1>1, <1>2 DEF Once
<1>. QED
  BY <1>1, <1>2, <1>3, <1>4 DEF t

\* The wires of a module, which are distinct, are taken up when it is its turn.
LEMMA TravelsFromNext ==
    ASSUME NEW nodes \in Seq(Modules), nodes # <<>>, NEW w \in Seq(Edge), Once(w), NEW n, NEW sn,
           ToTravel(nodes, <<>>, n, sn)
    PROVE  ToTravel(Tail(nodes), [i \in DOMAIN w |-> <<Head(nodes), w[i]>>], n, sn)
<1>. DEFINE t == Tail(nodes)
<1>. DEFINE m == Head(nodes)
<1>. DEFINE edges == [i \in DOMAIN w |-> <<m, w[i]>>]
<1>1. /\ Once(t)
      /\ \A i \in DOMAIN t : t[i] # m /\ \E j \in DOMAIN nodes : t[i] = nodes[j]
      /\ \E j \in DOMAIN nodes : m = nodes[j]
  BY TailOnce DEF ToTravel
<1>2. DOMAIN edges = DOMAIN w /\ \A k \in DOMAIN edges : edges[k][1] = m /\ edges[k][2] = w[k]
  OBVIOUS
<1>. HIDE DEF t, m, edges
<1>3. Once(edges)
  BY <1>2 DEF Once
<1>4. \A x \in Modules : \A j \in DOMAIN sn[x] :
         sn[x][j][2] = n => sn[x][j][1][1] # m /\ \A i \in DOMAIN t : sn[x][j][1][1] # t[i]
  BY <1>1 DEF ToTravel
<1>5. \A x \in Modules : \A j \in DOMAIN sn[x] :
         sn[x][j][2] = n => \A k \in DOMAIN edges : sn[x][j][1] # edges[k]
  BY <1>2, <1>4
<1>6. \A k \in DOMAIN edges : \A i \in DOMAIN t : edges[k][1] # t[i]
  BY <1>1, <1>2
<1>. QED
  BY <1>1, <1>3, <1>4, <1>5, <1>6 DEF ToTravel, t, m, edges

\* The first wire is travelled, the others are left.
LEMMA TravelsOn ==
    ASSUME NEW nodes \in Seq(Modules), NEW edges \in Seq(Modules \X Edge), edges # <<>>, NEW n, NEW sn, NEW later,
           ToTravel(nodes, edges, n, sn),
           \A x \in Modules : \A k \in DOMAIN later[x] :
              \/ k \in DOMAIN sn[x] /\ later[x][k] = sn[x][k]
              \/ later[x][k][1] = Head(edges)
    PROVE  ToTravel(nodes, Tail(edges), n, later)
<1>. DEFINE t == Tail(edges)
<1>. DEFINE e == Head(edges)
<1>1. /\ Once(t)
      /\ \A i \in DOMAIN t : t[i] # e /\ \E j \in DOMAIN edges : t[i] = edges[j]
      /\ \E j \in DOMAIN edges : e = edges[j]
  BY TailOnce DEF ToTravel
<1>. HIDE DEF t, e
<1>2. /\ Once(nodes)
      /\ \A k \in DOMAIN t : \A i \in DOMAIN nodes : t[k][1] # nodes[i]
      /\ \A i \in DOMAIN nodes : e[1] # nodes[i]
  BY <1>1 DEF ToTravel
<1>3. ASSUME NEW x \in Modules, NEW j \in DOMAIN later[x], later[x][j][2] = n
      PROVE  /\ \A k \in DOMAIN t : later[x][j][1] # t[k]
             /\ \A i \in DOMAIN nodes : later[x][j][1][1] # nodes[i]
  <2>1. CASE j \in DOMAIN sn[x] /\ later[x][j] = sn[x][j]
    <3>1. /\ \A k \in DOMAIN edges : sn[x][j][1] # edges[k]
          /\ \A i \in DOMAIN nodes : sn[x][j][1][1] # nodes[i]
      BY <1>3, <2>1 DEF ToTravel
    <3>. QED
      BY <1>1, <2>1, <3>1
  <2>2. CASE later[x][j][1] = e
    BY <1>1, <1>2, <2>2
  <2>. QED
    BY <2>1, <2>2 DEF e
<1>. QED
  BY <1>1, <1>2, <1>3 DEF ToTravel, t

\* Every message is still to go over the wires left to it, whatever is started,
\* stopped, registered or disconnected under it.
LEMMA UntravelledStays ==
    RouterTypeOK /\ ListedWhileStarted /\ SentInOrder /\ Untravelled /\ [RouterNext]_routerVars => Untravelled'
<1>. SUFFICES ASSUME RouterTypeOK, ListedWhileStarted, SentInOrder, Untravelled, [RouterNext]_routerVars
              PROVE  Untravelled'
  OBVIOUS
<1>0. /\ hub \in Seq(Event) /\ wires \in [Modules -> Seq(Edge)] /\ Lists(registered)
      /\ route # None => route[1] \in Route
      /\ \A m \in Modules : Once(wires[m])
  <2>1. route # None => route[1] \in Route
    BY SomeHolds DEF RouterTypeOK
  <2>. QED
    BY <2>1 DEF RouterTypeOK, Untravelled
<1>1. ASSUME hub # <<>>, NEW k \in Modules, NEW j \in DOMAIN seen[k] PROVE seen[k][j][2] # Head(hub).msg.n
  <2>1. seen[k][j][2] < hub[1].msg.n /\ Head(hub) = hub[1]
    BY <1>0, <1>1 DEF SentInOrder, Ahead
  <2>2. seen[k][j][2] \in Nat
    BY DEF RouterTypeOK
  <2>3. hub[1].msg.n \in Nat
    BY <1>0, <1>1 DEF Event, Context
  <2>. QED
    BY <2>1, <2>2, <2>3
<1>2. CASE TakeOut
  <2>. DEFINE e == Head(hub)
  <2>. DEFINE own == wires[e.module]
  <2>. DEFINE matching == Within(own, {w \in Range(own) : w[2] = e.port})
  <2>. DEFINE edges == [i \in DOMAIN matching |-> <<e.module, matching[i]>>]
  <2>1. /\ hub # <<>> /\ e.module \in Modules /\ UNCHANGED <<wires, seen>>
        /\ route' = Some([msg |-> e.msg, channel |-> None, nodes |-> <<>>, edges |-> edges])
    BY <1>0, <1>2 DEF TakeOut, Event
  <2>2. Once(matching)
    <3>1. own \in Seq(Edge) /\ Once(own)
      BY <1>0, <2>1
    <3>. QED
      BY <3>1, WithinOnce
  <2>. HIDE DEF matching
  <2>3. Once(edges)
    BY <2>2 DEF Once
  <2>. HIDE DEF edges
  <2>4. ToTravel(<<>>, edges, e.msg.n, seen)
    BY <1>1, <2>1, <2>3 DEF ToTravel, Once
  <2>5. route'[1].nodes = <<>> /\ route'[1].edges = edges /\ route'[1].msg = e.msg
    BY <2>1 DEF Some
  <2>. QED
    BY <1>0, <2>1, <2>4, <2>5 DEF Untravelled
<1>3. CASE TakeExternal
  <2>. DEFINE e == Head(hub)
  <2>. DEFINE nodes == Listening(registered, e.channel)
  <2>1. /\ hub # <<>> /\ UNCHANGED <<wires, seen>>
        /\ route' = Some([msg |-> e.msg, channel |-> Some(e.channel), nodes |-> nodes, edges |-> <<>>])
    BY <1>3 DEF TakeExternal
  <2>2. Once(nodes)
    BY DEF ListedWhileStarted, Listed, Listening, Once
  <2>. HIDE DEF nodes
  <2>4. ToTravel(nodes, <<>>, e.msg.n, seen)
    BY <1>1, <2>1, <2>2 DEF ToTravel, Once
  <2>5. route'[1].nodes = nodes /\ route'[1].edges = <<>> /\ route'[1].msg = e.msg
    BY <2>1 DEF Some
  <2>. QED
    BY <1>0, <2>1, <2>4, <2>5 DEF Untravelled
<1>4. CASE NextNode
  <2>. DEFINE m == Head(route[1].nodes)
  <2>. DEFINE w == wires[m]
  <2>. DEFINE edges == [i \in DOMAIN w |-> <<m, w[i]>>]
  <2>. DEFINE r == [route[1] EXCEPT !.nodes = Tail(@), !.edges = edges]
  <2>1. /\ route # None /\ route[1].edges = <<>> /\ route[1].nodes # <<>>
        /\ route' = Some(r) /\ UNCHANGED <<wires, seen>>
    BY <1>4 DEF NextNode
  <2>2. route[1] \in Route /\ route[1].nodes \in Seq(Modules)
    BY <1>0, <2>1 DEF Route
  <2>3. r.nodes = Tail(route[1].nodes) /\ r.edges = edges /\ r.msg = route[1].msg
    BY <2>2 DEF Route
  <2>4. w \in Seq(Edge) /\ Once(w)
    <3>1. m \in Modules
      BY <2>1, <2>2
    <3>. QED
      BY <1>0, <3>1
  <2>5. ToTravel(route[1].nodes, <<>>, route[1].msg.n, seen)
    BY <2>1 DEF Untravelled
  <2>6. ToTravel(Tail(route[1].nodes), edges, route[1].msg.n, seen)
    <3>. HIDE DEF w
    <3>. QED
      BY <2>1, <2>2, <2>4, <2>5, TravelsFromNext
  <2>. HIDE DEF r, edges
  <2>7. route'[1] = r
    BY <2>1 DEF Some
  <2>. QED
    BY <1>0, <2>1, <2>3, <2>6, <2>7 DEF Untravelled
<1>5. CASE Deliver
  <2>. DEFINE r == [route[1] EXCEPT !.edges = Tail(@)]
  <2>1. /\ route # None /\ route[1] \in Route /\ route[1].edges # <<>>
        /\ UNCHANGED wires /\ route' = Some(r)
        /\ \A x \in Modules : \A k \in DOMAIN seen'[x] :
              \/ k \in DOMAIN seen[x] /\ seen'[x][k] = seen[x][k]
              \/ seen'[x][k][1] = Head(route[1].edges)
    BY <1>5, SeenGrows
  <2>2. r.nodes = route[1].nodes /\ r.edges = Tail(route[1].edges) /\ r.msg = route[1].msg
    BY <2>1 DEF Route
  <2>3. ToTravel(route[1].nodes, route[1].edges, route[1].msg.n, seen)
    BY <2>1 DEF Untravelled
  <2>4. ToTravel(route[1].nodes, Tail(route[1].edges), route[1].msg.n, seen')
    <3>1. route[1].nodes \in Seq(Modules) /\ route[1].edges \in Seq(Modules \X Edge)
      BY <2>1 DEF Route
    <3>. QED
      BY <2>1, <2>3, <3>1, TravelsOn
  <2>. HIDE DEF r
  <2>5. route'[1] = r
    BY <2>1 DEF Some
  <2>. QED
    BY <1>0, <2>1, <2>2, <2>4, <2>5 DEF Untravelled
<1>6. CASE EndRoute
  BY <1>6 DEF EndRoute, Untravelled
<1>7. ASSUME NEW m \in Modules, Rewire(m, <<>>) PROVE Untravelled'
  <2>1. Once(<<>>)
    BY DEF Once
  <2>2. \A x \in Modules : Once(wires'[x])
    BY <1>0, <1>7, <2>1 DEF Rewire
  <2>. QED
    BY <1>7, <2>2 DEF Rewire, Untravelled
<1>8. ASSUME \/ \E w \in Writes : Write(w[1], w[2])
             \/ \E m \in Modules : StartModule(m) \/ Started(m) \/ StopModule(m) \/ Apply(m)
                                   \/ BeginProcess(m) \/ FinishProcess(m) \/ \E i \in DOMAIN old[m] : Drain(m, i)
             \/ \E e \in NameEdits : SetNameTo(e[1], e[2])
             \/ \E f \in 1 .. flows : Abort(f)
             \/ Quit \/ UNCHANGED routerVars
      PROVE  Untravelled'
  <2>1. UNCHANGED <<wires, route, seen>>
    BY <1>8 DEF Write, StartModule, Started, StopModule, Apply, BeginProcess, FinishProcess, Drain, SetNameTo, Abort, Quit, routerVars
  <2>. QED
    BY <2>1 DEF Untravelled
<1>. QED
  BY <1>2, <1>3, <1>4, <1>5, <1>6, <1>7, <1>8 DEF RouterNext

-----------------------------------------------------------------------------
(* What arrives, and what is heard.                                         *)

\* A wire is not travelled twice, and not by what was sent before.
LEMMA OrderStays ==
    RouterTypeOK /\ SentInOrder /\ Untravelled /\ InOrder /\ [RouterNext]_routerVars => InOrder'
<1>. SUFFICES ASSUME RouterTypeOK, SentInOrder, Untravelled, InOrder, [RouterNext]_routerVars
              PROVE  InOrder'
  OBVIOUS
<1>1. CASE Deliver
  <2>. DEFINE e == Head(route[1].edges)
  <2>. DEFINE n == route[1].msg.n
  <2>1. /\ route # None /\ route[1] \in Route /\ route[1].edges # <<>>
        /\ \A x \in Modules : \A k \in DOMAIN seen'[x] :
              \/ k \in DOMAIN seen[x] /\ seen'[x][k] = seen[x][k]
              \/ k = Len(seen[x]) + 1 /\ seen'[x][k] = <<e, n>>
    BY <1>1, SeenGrows
  <2>2. route[1].edges \in Seq(Modules \X Edge) /\ n \in Nat
    BY <2>1 DEF Route, Context
  <2>3. 1 \in DOMAIN route[1].edges /\ e = route[1].edges[1]
    BY <2>1, <2>2
  <2>4. ASSUME NEW x \in Modules, NEW i \in DOMAIN seen[x], seen[x][i][1] = e PROVE seen[x][i][2] < n
    <3>1. seen[x][i][2] <= n /\ seen[x][i][2] \in Nat
      BY <2>1 DEF SentInOrder, RouterTypeOK
    <3>2. seen[x][i][2] # n
      BY <2>1, <2>3, <2>4 DEF Untravelled, ToTravel
    <3>. QED
      BY <2>2, <3>1, <3>2
  <2>. SUFFICES ASSUME NEW x \in Modules, NEW i \in DOMAIN seen'[x], NEW j \in DOMAIN seen'[x],
                       i < j, seen'[x][i][1] = seen'[x][j][1]
                PROVE  seen'[x][i][2] < seen'[x][j][2]
    BY DEF InOrder
  <2>. HIDE DEF e, n
  <2>5. DOMAIN seen[x] = 1 .. Len(seen[x]) /\ Len(seen[x]) \in Nat
    BY DEF RouterTypeOK
  <2>6. i \in DOMAIN seen[x] /\ seen'[x][i] = seen[x][i]
    <3>1. CASE i = Len(seen[x]) + 1
      <4>1. j \in DOMAIN seen[x] \/ j = Len(seen[x]) + 1
        BY <2>1
      <4>. QED
        BY <2>5, <3>1, <4>1
    <3>. QED
      BY <2>1, <3>1
  <2>7. CASE j \in DOMAIN seen[x] /\ seen'[x][j] = seen[x][j]
    BY <2>6, <2>7 DEF InOrder
  <2>8. CASE seen'[x][j] = <<e, n>>
    BY <2>4, <2>6, <2>8
  <2>. QED
    BY <2>1, <2>7, <2>8
<1>2. ASSUME \/ \E w \in Writes : Write(w[1], w[2])
             \/ \E m \in Modules : StartModule(m) \/ Started(m) \/ StopModule(m) \/ Rewire(m, <<>>) \/ Apply(m)
                                   \/ BeginProcess(m) \/ FinishProcess(m) \/ \E i \in DOMAIN old[m] : Drain(m, i)
             \/ \E e \in NameEdits : SetNameTo(e[1], e[2])
             \/ \E f \in 1 .. flows : Abort(f)
             \/ Quit \/ TakeOut \/ TakeExternal \/ NextNode \/ EndRoute \/ UNCHANGED routerVars
      PROVE  InOrder'
  <2>1. UNCHANGED seen
    BY <1>2 DEF Write, StartModule, Started, StopModule, Rewire, Apply, BeginProcess, FinishProcess, Drain, SetNameTo,
                Abort, Quit, TakeOut, TakeExternal, NextNode, EndRoute, routerVars
  <2>. QED
    BY <2>1 DEF InOrder
<1>. QED
  BY <1>1, <1>2 DEF RouterNext

\* What is announced goes behind what was.
LEMMA AnnouncedLast ==
    ASSUME NEW T, NEW h \in Seq(T), NEW e, NEW a, a = Append(h, e)
    PROVE  /\ \A j \in DOMAIN a : \/ j \in DOMAIN h /\ a[j] = h[j]
                                  \/ j = Len(h) + 1 /\ a[j] = e
           /\ DOMAIN h = 1 .. Len(h) /\ Len(h) \in Nat
           /\ \A j \in DOMAIN h : j \in DOMAIN a /\ a[j] = h[j]
           /\ Len(h) + 1 \in DOMAIN a /\ a[Len(h) + 1] = e
<1>1. /\ DOMAIN a = 1 .. Len(h) + 1 /\ DOMAIN h = 1 .. Len(h) /\ Len(h) \in Nat
      /\ \A i \in 1 .. Len(h) : a[i] = h[i]
      /\ a[Len(h) + 1] = e
  OBVIOUS
<1>2. \A j \in DOMAIN a : (j \in DOMAIN h /\ a[j] = h[j]) \/ (j = Len(h) + 1 /\ a[j] = e)
  <2>. TAKE j \in DOMAIN a
  <2>1. j \in 1 .. Len(h) \/ j = Len(h) + 1
    BY <1>1
  <2>. QED
    BY <1>1, <2>1
<1>3. /\ \A j \in DOMAIN h : j \in DOMAIN a /\ a[j] = h[j]
      /\ Len(h) + 1 \in DOMAIN a
  BY <1>1
<1>. QED
  BY <1>1, <1>2, <1>3

\* What a message goes back to is known when it is on its way, and heard first.
LEMMA CausesStay ==
    RouterTypeOK /\ CausesKnown /\ CausesHeard /\ [RouterNext]_routerVars => CausesKnown' /\ CausesHeard'
<1>. SUFFICES ASSUME RouterTypeOK, CausesKnown, CausesHeard, [RouterNext]_routerVars
              PROVE  CausesKnown' /\ CausesHeard'
  OBVIOUS
<1>. DEFINE Known == Announced \cup Pending
<1>0. /\ \A c \in Contexts : c.after \subseteq Known
      /\ route # None => route[1] \in Route /\ route[1].msg \in Context /\ route[1].msg.after \subseteq Announced
  <2>1. route # None => route[1] \in Route
    BY SomeHolds DEF RouterTypeOK
  <2>. QED
    BY <2>1 DEF CausesKnown, Route
<1>1. ASSUME UNCHANGED <<route, heard>>, \A c \in Contexts' : c.after \subseteq Known
      PROVE  CausesKnown' /\ CausesHeard'
  <2>1. Announced' = Announced /\ Pending' = Pending
    BY <1>1 DEF Announced, Pending
  <2>. QED
    BY <1>0, <1>1, <2>1 DEF CausesKnown, CausesHeard
<1>2. ASSUME NEW w \in Writes, Write(w[1], w[2]) PROVE CausesKnown' /\ CausesHeard'
  <2>1. UNCHANGED <<route, heard>>
    BY <1>2 DEF Write
  <2>2. \A c \in Contexts' : c \in Contexts \/ c = Message(flows', None, w[2], {})
    BY <1>2, ContextsMove
  <2>3. Message(flows', None, w[2], {}).after = {}
    BY DEF Message
  <2>. HIDE DEF Known
  <2>4. \A c \in Contexts' : c.after \subseteq Known
    BY <1>0, <2>2, <2>3
  <2>. QED
    BY <1>1, <2>1, <2>4
<1>3. ASSUME NEW m \in Modules, BeginProcess(m) PROVE CausesKnown' /\ CausesHeard'
  <2>. DEFINE msg == Head(inbox[m][1]).msg
  <2>. DEFINE taken == [msg EXCEPT !.token = Some(TokenFor(msg.flow))]
  <2>1. UNCHANGED <<route, heard>>
    BY <1>3 DEF BeginProcess
  <2>2. \A c \in Contexts' : c \in Contexts \/ (msg \in Contexts /\ c = taken)
    BY <1>3, ContextsMove
  <2>3. msg \in Context
    <3>1. inbox[m][1] \in Seq(Queueable) /\ inbox[m][1] # <<>> /\ Head(inbox[m][1]).type = "input"
      BY <1>3, SomeHolds DEF BeginProcess, RouterTypeOK
    <3>. QED
      BY <3>1 DEF Queueable
  <2>. HIDE DEF msg
  <2>4. taken.after = msg.after
    BY <2>3 DEF Context
  <2>. HIDE DEF taken, Known
  <2>5. \A c \in Contexts' : c.after \subseteq Known
    BY <1>0, <2>2, <2>4
  <2>. QED
    BY <1>1, <2>1, <2>5
<1>4. ASSUME NEW m \in Modules, FinishProcess(m) PROVE CausesKnown' /\ CausesHeard'
  <2>1. UNCHANGED <<route, heard>>
    BY <1>4 DEF FinishProcess
  <2>2. \A c \in Contexts' : c \in Contexts \/ \E d \in Contexts : c = Message(d.flow, d.token, d.value, d.after)
    BY <1>4, ContextsMove
  <2>3. \A d \in Contexts : Message(d.flow, d.token, d.value, d.after).after = d.after
    BY DEF Message
  <2>. HIDE DEF Known
  <2>4. \A c \in Contexts' : c.after \subseteq Known
    BY <1>0, <2>2, <2>3
  <2>. QED
    BY <1>1, <2>1, <2>4
<1>5. CASE TakeOut \/ TakeExternal
  <2>1. /\ route = None /\ hub # <<>> /\ UNCHANGED heard /\ route'[1].msg = Head(hub).msg
    BY <1>5 DEF TakeOut, TakeExternal, Some
  <2>2. Head(hub).msg \in Contexts
    <3>1. hub \in Seq(Event)
      BY DEF RouterTypeOK
    <3>2. 1 \in DOMAIN hub /\ Head(hub) = hub[1]
      BY <2>1, <3>1
    <3>. QED
      BY <3>2 DEF Contexts, OnHub
  <2>3. \A c \in Contexts' : c \in Contexts
    BY <1>5, ContextsMove
  <2>4. Pending = {} /\ Announced' = Announced
    BY <2>1 DEF Pending, Announced
  <2>5. \A c \in Contexts : c.after \subseteq Announced
    BY <1>0, <2>4
  <2>6. CausesKnown'
    BY <2>1, <2>2, <2>3, <2>4, <2>5 DEF CausesKnown
  <2>. QED
    BY <2>1, <2>6 DEF CausesHeard
<1>6. ASSUME NextNode \/ Deliver, route'[1].msg = route[1].msg, route'[1].channel = route[1].channel,
             route # None, route' # None, UNCHANGED heard,
             \A c \in Contexts' : c.after \subseteq Known
      PROVE  CausesKnown' /\ CausesHeard'
  <2>1. Announced' = Announced /\ Pending' = Pending
    BY <1>6 DEF Announced, Pending
  <2>. QED
    BY <1>0, <1>6, <2>1 DEF CausesKnown, CausesHeard
<1>7. CASE NextNode
  <2>. DEFINE r == [route[1] EXCEPT !.nodes = Tail(@),
                         !.edges = [i \in DOMAIN wires[Head(route[1].nodes)] |->
                                      <<Head(route[1].nodes), wires[Head(route[1].nodes)][i]>>]]
  <2>1. route # None /\ route' = Some(r) /\ UNCHANGED heard
    BY <1>7 DEF NextNode
  <2>2. r.msg = route[1].msg /\ r.channel = route[1].channel
    BY <1>0, <2>1 DEF Route
  <2>. HIDE DEF r
  <2>3. route'[1] = r /\ route' # None
    BY <2>1 DEF Some, None
  <2>4. \A c \in Contexts' : c \in Contexts
    BY <1>7, ContextsMove
  <2>. QED
    BY <1>0, <1>6, <1>7, <2>1, <2>2, <2>3, <2>4
<1>8. CASE Deliver
  <2>. DEFINE r == [route[1] EXCEPT !.edges = Tail(@)]
  <2>. DEFINE msg == [route[1].msg EXCEPT !.after = IF route[1].channel = None THEN @ ELSE @ \cup {route[1].msg.n}]
  <2>1. route # None /\ route' = Some(r) /\ UNCHANGED heard
    BY <1>8 DEF Deliver
  <2>2. r.msg = route[1].msg /\ r.channel = route[1].channel
    BY <1>0, <2>1 DEF Route
  <2>. HIDE DEF r
  <2>3. route'[1] = r /\ route' # None
    BY <2>1 DEF Some, None
  <2>4. \A c \in Contexts' : c \in Contexts \/ c = msg
    BY <1>8, ContextsMove
  <2>5. msg.after = IF route[1].channel = None THEN route[1].msg.after ELSE route[1].msg.after \cup {route[1].msg.n}
    BY <1>0, <2>1 DEF Context
  <2>6. msg.after \subseteq Known
    BY <1>0, <2>1, <2>5 DEF Pending
  <2>. HIDE DEF msg, Known
  <2>. QED
    BY <1>0, <1>6, <1>8, <2>1, <2>2, <2>3, <2>4, <2>6
<1>9. CASE EndRoute
  <2>. DEFINE e == [n |-> route[1].msg.n, after |-> route[1].msg.after, channel |-> route[1].channel[1]]
  <2>. DEFINE H == [n : Nat, after : SUBSET Nat, channel : Channel]
  <2>0. route # None /\ route' = None /\ heard \in Seq(H) /\ e.n = route[1].msg.n /\ e.after = route[1].msg.after
    BY <1>9 DEF EndRoute, RouterTypeOK
  <2>1. \A c \in Contexts' : c \in Contexts
    BY <1>9, ContextsMove
  <2>2. CASE route[1].channel = None
    <3>1. heard' = heard /\ Pending = {} /\ Pending' = {}
      BY <1>9, <2>0, <2>2 DEF EndRoute, Announce, Pending
    <3>2. Announced' = Announced
      BY <3>1 DEF Announced
    <3>. QED
      BY <1>0, <2>0, <2>1, <3>1, <3>2 DEF CausesKnown, CausesHeard
  <2>3. CASE route[1].channel # None
    <3>1. heard' = Append(heard, e) /\ Pending = {route[1].msg.n}
      BY <1>9, <2>0, <2>3 DEF EndRoute, Announce, Pending
    <3>. HIDE DEF e, H
    <3>2. /\ \A j \in DOMAIN heard' : \/ j \in DOMAIN heard /\ heard'[j] = heard[j]
                                      \/ j = Len(heard) + 1 /\ heard'[j] = e
          /\ DOMAIN heard = 1 .. Len(heard) /\ Len(heard) \in Nat
          /\ \A j \in DOMAIN heard : j \in DOMAIN heard' /\ heard'[j] = heard[j]
          /\ Len(heard) + 1 \in DOMAIN heard' /\ heard'[Len(heard) + 1] = e
      BY <2>0, <3>1, AnnouncedLast
    <3>3. Known \subseteq Announced'
      <4>1. e.n \in Announced'
        BY <3>2 DEF Announced
      <4>2. Announced \subseteq Announced'
        BY <3>2 DEF Announced
      <4>. QED
        BY <2>0, <3>1, <4>1, <4>2
    <3>4. CausesKnown'
      <4>. HIDE DEF Known
      <4>. QED
        BY <1>0, <2>0, <2>1, <3>3 DEF CausesKnown
    <3>5. CausesHeard'
      <4>. SUFFICES ASSUME NEW j \in DOMAIN heard', NEW n \in heard'[j].after
                    PROVE  \E i \in 1 .. j - 1 : heard'[i].n = n
        BY DEF CausesHeard
      <4>1. CASE j \in DOMAIN heard /\ heard'[j] = heard[j]
        <5>1. PICK i \in 1 .. j - 1 : heard[i].n = n
          BY <4>1 DEF CausesHeard
        <5>2. i \in DOMAIN heard
          BY <3>2, <4>1
        <5>. QED
          BY <3>2, <5>1, <5>2
      <4>2. CASE j = Len(heard) + 1 /\ heard'[j] = e
        <5>1. n \in Announced
          BY <1>0, <2>0, <4>2
        <5>2. PICK i \in DOMAIN heard : heard[i].n = n
          BY <5>1 DEF Announced
        <5>3. i \in 1 .. j - 1
          BY <3>2, <4>2
        <5>. QED
          BY <3>2, <5>2, <5>3
      <4>. QED
        BY <3>2, <4>1, <4>2
    <3>. QED
      BY <3>4, <3>5
  <2>. QED
    BY <2>2, <2>3
<1>10. ASSUME \/ \E m \in Modules : \/ StartModule(m) \/ Started(m) \/ StopModule(m) \/ Rewire(m, <<>>) \/ Apply(m)
                                    \/ \E i \in DOMAIN old[m] : Drain(m, i)
              \/ \E e \in NameEdits : SetNameTo(e[1], e[2])
              \/ \E f \in 1 .. flows : Abort(f)
              \/ Quit \/ UNCHANGED routerVars
       PROVE  CausesKnown' /\ CausesHeard'
  <2>1. UNCHANGED <<route, heard>>
    BY <1>10 DEF StartModule, Started, StopModule, Rewire, Apply, Drain, SetNameTo, Abort, Quit, routerVars
  <2>2. \A c \in Contexts' : c \in Contexts
    BY <1>10, ContextsMove
  <2>. HIDE DEF Known
  <2>. QED
    BY <1>0, <1>1, <2>1, <2>2
<1>. QED
  BY <1>2, <1>3, <1>4, <1>5, <1>7, <1>8, <1>9, <1>10 DEF RouterNext

\* At the start the running inputs are listed, once, and nothing is on its way.
LEMMA RouteInvStarts == RouterInit => RouteInv
<1>. SUFFICES ASSUME RouterInit PROVE RouteInv
  OBVIOUS
<1>1. PICK s \in RouterSetups :
         LET inputs == {m \in s.running : IsInput(m)}
             Channel0(m) == ChannelOf(m, s.names[m])
         IN /\ wires = s.wires /\ chan = s.names
            /\ started = [m \in Modules |-> m \in s.running]
            /\ registered = [c \in {Channel0(m) : m \in inputs} |-> SetToSeq({m \in inputs : Channel0(m) = c})]
  BY DEF RouterInit
<1>2. s.running \subseteq Modules /\ IsFiniteSet(Modules) /\ \A m \in Modules : IsInjective(s.wires[m])
  BY RouterAssumption
<1>3. ListedWhileStarted
  <2>. DEFINE inputs == {m \in s.running : IsInput(m)}
  <2>. DEFINE On(c) == {m \in inputs : ChannelOf(m, s.names[m]) = c}
  <2>1. ASSUME NEW c PROVE SetToSeq(On(c)) \in Seq(On(c)) /\ Once(SetToSeq(On(c)))
    <3>. DEFINE S == On(c)
    <3>1. S \in SUBSET Modules
      BY <1>2
    <3>. HIDE DEF S
    <3>2. IsFiniteSet(S)
      BY <1>2, <3>1, FS_Subset
    <3>3. SetToSeq(S) \in Seq(S) /\ Once(SetToSeq(S))
      BY <3>2, SetInOrder
    <3>. QED
      BY <3>3 DEF S
  <2>2. ASSUME NEW c \in DOMAIN registered
        PROVE  Once(registered[c]) /\ \A i \in DOMAIN registered[c] : registered[c][i] \in On(c)
    <3>1. registered[c] = SetToSeq(On(c))
      BY <1>1, <2>2
    <3>. DEFINE S == On(c)
    <3>. HIDE DEF S
    <3>2. registered[c] \in Seq(S) /\ Once(registered[c])
      BY <2>1, <3>1 DEF S
    <3>3. \A i \in DOMAIN registered[c] : registered[c][i] \in S
      BY <3>2
    <3>. QED
      BY <3>2, <3>3 DEF S
  <2>3. ASSUME NEW c, NEW m \in On(c) PROVE IsInput(m) /\ started[m] /\ c = ChannelOf(m, chan[m])
    BY <1>1, <1>2
  <2>. HIDE DEF On
  <2>. QED
    BY <2>2, <2>3 DEF ListedWhileStarted, Listed
<1>4. /\ hub = <<>> /\ route = None /\ heard = <<>> /\ seen = [m \in Modules |-> <<>>]
      /\ inbox \in [Modules -> {None, Some(<<>>)}]
      /\ working = [m \in Modules |-> None] /\ old = [m \in Modules |-> <<>>]
  BY DEF RouterInit
<1>5. SentInOrder
  BY <1>4 DEF SentInOrder, HubInOrder
<1>6. Untravelled
  BY <1>1, <1>2, <1>4 DEF Untravelled, Once, IsInjective
<1>7. CausesKnown
  BY <1>4, NoContextsYet DEF CausesKnown
<1>8. InOrder /\ CausesHeard
  BY <1>4 DEF InOrder, CausesHeard
<1>. QED
  BY <1>3, <1>5, <1>6, <1>7, <1>8 DEF RouteInv

\* The invariant of the message loop: who is listed runs, what is sent later is
\* behind, and the causes of what is on its way are known.
THEOREM RouteInvHolds == RouterSpec => []RouteInv
<1>1. RouterTypeOK /\ RouteInv /\ [RouterNext]_routerVars => RouteInv'
  BY ListedStays, SentStays, UntravelledStays, OrderStays, CausesStay DEF RouteInv
<1>. QED
  BY <1>1, RouteInvStarts, RouterTypeCorrect, PTL DEF RouterSpec

\* Over a connection everything arrives once and in the order it was sent, and a
\* host hears of no consequence before its cause, for every patch, every edit
\* and every order of the loops.
THEOREM RoutedInOrderHolds == RouterSpec => []RoutedInOrder
<1>1. RouteInv => RoutedInOrder
  BY DEF RouteInv, RoutedInOrder
<1>. QED
  BY <1>1, RouteInvHolds, PTL

-----------------------------------------------------------------------------
(* The ring of the MCP server.                                              *)

Record == [seq : Nat, of : Nat]
Event_ == [kind : {"output", "error"}, of : {1}]

RingTypeOK ==
    /\ stream \in Seq(Event_)
    /\ missed \in Nat /\ seq \in Nat /\ dropped \in Nat /\ emitted \in Nat
    /\ errors \in Seq(Record) /\ outputs \in Seq(Record)
    /\ cursor \in [Sessions -> [Buffers -> Nat]]
    /\ got \in [Sessions -> [Buffers -> Seq(Nat)]]

\* Records are numbered as they come, and nobody is ahead of them.
Numbered(buffer, last) ==
    \A i \in DOMAIN buffer : /\ buffer[i].seq <= last
                             /\ \A j \in DOMAIN buffer : i < j => buffer[i].seq < buffer[j].seq
\* What a session had of a buffer lies up to its cursor, and all of that is there.
Whole(had, at, s, b, buffer) ==
    /\ \A i \in DOMAIN had : /\ had[i] <= at
                             /\ \A j \in DOMAIN had : i < j => had[i] < had[j]
    /\ \A i \in DOMAIN buffer :
          Wants(s, b, buffer[i]) => (buffer[i].seq <= at <=> buffer[i].seq \in Range(had))
PagesInv ==
    /\ \A b \in Buffers : Numbered(Buffer(b), seq)
    /\ \A s \in Sessions, b \in Buffers : cursor[s][b] <= seq /\ Whole(got[s][b], cursor[s][b], s, b, Buffer(b))
    /\ emitted = seq + dropped + missed + Len(stream)

\* What is within a set of a numbered buffer is numbered as it was.
LEMMA WithinNumbered ==
    ASSUME NEW buffer \in Seq(Record), NEW S, NEW last, Numbered(buffer, last)
    PROVE  Numbered(Within(buffer, S), last)
<1>1. PICK g \in [DOMAIN Within(buffer, S) -> DOMAIN buffer] :
         /\ \A k \in DOMAIN Within(buffer, S) : Within(buffer, S)[k] = buffer[g[k]]
         /\ \A k, l \in DOMAIN Within(buffer, S) : k < l => g[k] < g[l]
  BY WithinKeeps
<1>. DEFINE new == Within(buffer, S)
<1>. HIDE DEF new
<1>2. /\ g \in [DOMAIN new -> DOMAIN buffer]
      /\ \A k \in DOMAIN new : new[k] = buffer[g[k]]
      /\ \A k, l \in DOMAIN new : k < l => g[k] < g[l]
  BY <1>1 DEF new
<1>3. Numbered(new, last)
  BY <1>2 DEF Numbered
<1>. QED
  BY <1>3 DEF new

\* A page is of records the session wants from behind its cursor, in order, and
\* leaves out none before its last.
LEMMA PageMeans ==
    ASSUME RingTypeOK, PagesInv, NEW s \in Sessions, NEW b \in Buffers
    PROVE  LET p == Page(s, b) IN
           /\ p \in Seq(Record)
           /\ Numbered(p, seq)
           /\ \A i \in DOMAIN p : p[i].seq > cursor[s][b]
           /\ \A i \in DOMAIN Buffer(b) :
                 Wants(s, b, Buffer(b)[i]) /\ Buffer(b)[i].seq > cursor[s][b]
                 /\ p # <<>> /\ Buffer(b)[i].seq <= p[Len(p)].seq
                    => \E k \in DOMAIN p : p[k] = Buffer(b)[i]
<1>. DEFINE all == Buffer(b)
<1>. DEFINE S == {r \in Range(all) : r.seq > cursor[s][b] /\ Wants(s, b, r)}
<1>. DEFINE new == Within(all, S)
<1>. DEFINE n == Min({Limit, Len(new)})
<1>. DEFINE p == Page(s, b)
<1>1. all \in Seq(Record) /\ Numbered(all, seq) /\ seq \in Nat /\ cursor[s][b] \in Nat
  BY DEF Buffer, RingTypeOK, PagesInv
<1>2. \A i \in DOMAIN all : all[i] \in S <=> all[i].seq > cursor[s][b] /\ Wants(s, b, all[i])
  BY DEF Range
<1>3. \A r \in S : r.seq > cursor[s][b]
  OBVIOUS
<1>4. p = SubSeq(new, 1, n)
  BY DEF Page
<1>. HIDE DEF all, S, p, n
<1>5. /\ new \in Seq(Record) /\ Numbered(new, seq)
      /\ \A k \in DOMAIN new : new[k] \in S
      /\ \A i \in DOMAIN all : all[i] \in S => \E k \in DOMAIN new : new[k] = all[i]
  <2>1. /\ new \in Seq(Record)
        /\ \A k \in DOMAIN new : new[k] \in S
        /\ \A i \in DOMAIN all : all[i] \in S => \E k \in DOMAIN new : new[k] = all[i]
    BY <1>1, WithinKeeps
  <2>3. Numbered(new, seq)
    BY <1>1, WithinNumbered
  <2>. QED
    BY <2>1, <2>3
<1>. HIDE DEF new
<1>6. n \in Nat /\ n <= Len(new)
  <2>1. Limit \in Nat /\ Len(new) \in Nat
    BY <1>5, McpAssumption
  <2>2. \E x \in {Limit, Len(new)} : \A y \in {Limit, Len(new)} : x <= y
    BY <2>1
  <2>3. n \in {Limit, Len(new)} /\ \A y \in {Limit, Len(new)} : n <= y
    BY <2>2 DEF Min, n
  <2>. QED
    BY <2>1, <2>3
<1>7. /\ p \in Seq(Record) /\ Len(p) = n /\ DOMAIN p = 1 .. n /\ DOMAIN new = 1 .. Len(new) /\ Len(new) \in Nat
      /\ \A i \in 1 .. n : p[i] = new[i]
  BY <1>4, <1>5, <1>6
<1>8. \A i \in DOMAIN p : i \in DOMAIN new /\ p[i] = new[i]
  BY <1>6, <1>7
<1>9. Numbered(p, seq)
  BY <1>5, <1>8 DEF Numbered
<1>10. \A i \in DOMAIN p : p[i].seq > cursor[s][b]
  BY <1>3, <1>5, <1>8
<1>11. ASSUME NEW i \in DOMAIN all, all[i].seq > cursor[s][b], Wants(s, b, all[i]),
              p # <<>>, all[i].seq <= p[Len(p)].seq
       PROVE  \E k \in DOMAIN p : p[k] = all[i]
  <2>1. PICK k \in DOMAIN new : new[k] = all[i]
    BY <1>2, <1>5, <1>11
  <2>2. n # 0
    BY <1>7, <1>11
  <2>3. n \in DOMAIN new /\ p[Len(p)] = new[n]
    BY <1>6, <1>7, <2>2
  <2>4. ~(n < k)
    <3>1. new[k] \in Record /\ new[n] \in Record
      BY <1>5, <2>1, <2>3
    <3>2. new[k].seq <= new[n].seq /\ new[k].seq \in Nat /\ new[n].seq \in Nat
      BY <1>11, <2>1, <2>3, <3>1 DEF Record
    <3>. QED
      BY <1>5, <2>1, <2>3, <3>2 DEF Numbered
  <2>5. k \in 1 .. n
    BY <1>6, <1>7, <2>4
  <2>. QED
    BY <1>7, <2>1, <2>5
<1>. QED
  BY <1>7, <1>9, <1>10, <1>11 DEF p, all

-----------------------------------------------------------------------------
(* The tool calls: types.                                                   *)

ConfigKey   == (UNION {Declared[d] : d \in DOMAIN Declared}) \cup (UNION {DOMAIN a : a \in Asked}) \cup Generated(2)
ConfigValue == {0, 1} \cup UNION {Range(a) : a \in Asked}
ConfigSet   == {f \in UNION {[K -> ConfigValue] : K \in SUBSET ConfigKey} : "n" \in DOMAIN f => f["n"] \in 0 .. 2}
ModuleSet   == {m \in [patch : Nat, def : DOMAIN Declared, configs : ConfigSet] :
                   m.def = "numbered" => "n" \in DOMAIN m.configs}
               \cup {Gone}
CallSet(M, P) ==
    [step : {"idle"}]
    \cup [step : {"constructed"}, module : M, asked : ConfigSet]
    \cup [step : {"rollback"}, module : M]
    \cup [step : {"write"}, module : M, asked : ConfigSet, configs : ConfigSet]
    \cup [step : {"rename", "save", "drop"}, patch : P, name : Names, old : Names]

ToolTypeOK ==
    /\ menu \in Menus
    /\ patches \in Seq(Names)
    /\ modules \in Seq(ModuleSet)
    /\ DOMAIN files \subseteq Names /\ files \in [DOMAIN files -> DOMAIN patches]
    /\ call \in [Sessions -> CallSet(DOMAIN modules, DOMAIN patches)]
    /\ undone \subseteq DOMAIN modules
    /\ failures \in Nat

\* What configs are.
LEMMA ConfigsAre ==
    ASSUME NEW f
    PROVE  f \in ConfigSet <=> /\ DOMAIN f \subseteq ConfigKey /\ f \in [DOMAIN f -> ConfigValue]
                               /\ "n" \in DOMAIN f => f["n"] \in 0 .. 2
BY DEF ConfigSet

\* What a call asks for is configs, and so is a part of it.
LEMMA AskedTypes ==
    ASSUME NEW a \in Asked
    PROVE  /\ a \in ConfigSet
           /\ \A D : Restrict(a, D \cap DOMAIN a) \in ConfigSet
<1>1. DOMAIN a \subseteq ConfigKey
  BY DEF ConfigKey
<1>2. a \in [DOMAIN a -> Range(a)] /\ ("n" \in DOMAIN a => a["n"] \in 0 .. 2)
  BY McpAssumption
<1>3. Range(a) \subseteq ConfigValue
  BY DEF ConfigValue
<1>4. a \in [DOMAIN a -> ConfigValue]
  BY <1>2, <1>3
<1>5. a \in ConfigSet
  BY <1>1, <1>2, <1>4, ConfigsAre
<1>6. ASSUME NEW D PROVE Restrict(a, D \cap DOMAIN a) \in ConfigSet
  <2>. DEFINE r == Restrict(a, D \cap DOMAIN a)
  <2>1. DOMAIN r = D \cap DOMAIN a /\ \A k \in DOMAIN r : r[k] = a[k] /\ r[k] \in ConfigValue
    BY <1>4 DEF Restrict
  <2>2. r = [k \in DOMAIN r |-> r[k]]
    BY DEF Restrict
  <2>. HIDE DEF r
  <2>3. r \in [DOMAIN r -> ConfigValue]
    BY <2>1, <2>2
  <2>4. DOMAIN r \subseteq ConfigKey /\ ("n" \in DOMAIN r => r["n"] \in 0 .. 2)
    BY <1>1, <1>2, <2>1
  <2>5. r \in ConfigSet
    BY <2>3, <2>4, ConfigsAre
  <2>. QED
    BY <2>5 DEF r
<1>. QED
  BY <1>5, <1>6

\* Configs laid over configs.
LEMMA OverTypes ==
    ASSUME NEW f \in ConfigSet, NEW g \in ConfigSet
    PROVE  /\ Over(f, g) \in ConfigSet
           /\ DOMAIN Over(f, g) = DOMAIN f \cup DOMAIN g
<1>. DEFINE h == Over(f, g)
<1>1. /\ DOMAIN h = DOMAIN f \cup DOMAIN g
      /\ \A k \in DOMAIN h : h[k] = IF k \in DOMAIN f THEN f[k] ELSE g[k]
      /\ h = [k \in DOMAIN h |-> h[k]]
  BY DEF Over
<1>2. /\ DOMAIN f \subseteq ConfigKey /\ f \in [DOMAIN f -> ConfigValue] /\ ("n" \in DOMAIN f => f["n"] \in 0 .. 2)
      /\ DOMAIN g \subseteq ConfigKey /\ g \in [DOMAIN g -> ConfigValue] /\ ("n" \in DOMAIN g => g["n"] \in 0 .. 2)
  BY ConfigsAre
<1>. HIDE DEF h
<1>3. \A k \in DOMAIN h : h[k] \in ConfigValue
  BY <1>1, <1>2
<1>4. h \in [DOMAIN h -> ConfigValue]
  BY <1>1, <1>3
<1>5. DOMAIN h \subseteq ConfigKey /\ ("n" \in DOMAIN h => h["n"] \in 0 .. 2)
  BY <1>1, <1>2
<1>6. h \in ConfigSet
  BY <1>4, <1>5, ConfigsAre
<1>. QED
  BY <1>1, <1>6 DEF h

\* A numbered module has what it declares and its family, another what it has.
LEMMA SettleMeans ==
    ASSUME NEW d \in DOMAIN Declared, NEW c \in ConfigSet, d = "numbered" => "n" \in DOMAIN c
    PROVE  /\ Settle(d, c) \in ConfigSet
           /\ d = "numbered" => /\ DOMAIN Settle(d, c) = Declared[d] \cup Generated(Settle(d, c)["n"])
                                /\ "n" \in DOMAIN Settle(d, c)
           /\ d # "numbered" => Settle(d, c) = c
<1>1. CASE d = "numbered"
  <2>. DEFINE s == Settle(d, c)
  <2>1. /\ DOMAIN s = Declared[d] \cup Generated(c["n"])
        /\ \A k \in DOMAIN s : s[k] = IF k \in DOMAIN c THEN c[k] ELSE 0
        /\ s = [k \in DOMAIN s |-> s[k]]
    BY <1>1 DEF Settle
  <2>2. "n" \in DOMAIN c /\ c["n"] \in 0 .. 2 /\ c \in [DOMAIN c -> ConfigValue]
    BY <1>1, ConfigsAre
  <2>. HIDE DEF s
  <2>3. "n" \in DOMAIN s /\ s["n"] = c["n"]
    BY <1>1, <2>1, <2>2, McpAssumption
  <2>4. DOMAIN s \subseteq ConfigKey
    <3>1. Generated(c["n"]) \subseteq Generated(2)
      BY <2>2 DEF Generated
    <3>. QED
      BY <2>1, <3>1 DEF ConfigKey
  <2>5. \A k \in DOMAIN s : s[k] \in ConfigValue
    <3>1. 0 \in ConfigValue
      BY DEF ConfigValue
    <3>. QED
      BY <2>1, <2>2, <3>1
  <2>6. s \in [DOMAIN s -> ConfigValue]
    BY <2>1, <2>5
  <2>7. s \in ConfigSet
    BY <2>2, <2>3, <2>4, <2>6, ConfigsAre
  <2>. QED
    BY <1>1, <2>1, <2>3, <2>7 DEF s
<1>2. CASE d # "numbered"
  BY <1>2 DEF Settle
<1>. QED
  BY <1>1, <1>2

\* A key that is generated is not global.
LEMMA FamilyIsLocal == \A n \in 0 .. 2 : Generated(n) \cap Global["numbered"] = {}
<1>1. \A n \in 0 .. 2 : Generated(n) \subseteq Generated(2)
  BY DEF Generated
<1>. QED
  BY <1>1, McpAssumption

\* A call goes on, or ends, while modules and patches are added.
LEMMA CallGoesOn ==
    ASSUME ToolTypeOK, NEW s \in Sessions, NEW x \in CallSet(DOMAIN modules', DOMAIN patches'),
           call' = [call EXCEPT ![s] = x],
           DOMAIN modules \subseteq DOMAIN modules', DOMAIN patches \subseteq DOMAIN patches'
    PROVE  call' \in [Sessions -> CallSet(DOMAIN modules', DOMAIN patches')]
<1>1. CallSet(DOMAIN modules, DOMAIN patches) \subseteq CallSet(DOMAIN modules', DOMAIN patches')
  BY DEF CallSet
<1>2. call \in [Sessions -> CallSet(DOMAIN modules, DOMAIN patches)]
  BY DEF ToolTypeOK
<1>. QED
  BY <1>1, <1>2
\* A call stays as it is while modules and patches are added.
LEMMA CallsGoOn ==
    ASSUME ToolTypeOK, UNCHANGED call,
           DOMAIN modules \subseteq DOMAIN modules', DOMAIN patches \subseteq DOMAIN patches'
    PROVE  call' \in [Sessions -> CallSet(DOMAIN modules', DOMAIN patches')]
<1>1. CallSet(DOMAIN modules, DOMAIN patches) \subseteq CallSet(DOMAIN modules', DOMAIN patches')
  BY DEF CallSet
<1>2. call \in [Sessions -> CallSet(DOMAIN modules, DOMAIN patches)]
  BY DEF ToolTypeOK
<1>. QED
  BY <1>1, <1>2

\* Types are kept by every step of a tool call.
LEMMA ToolsKeepTypes == ToolTypeOK /\ [McpNext]_mcpVars => ToolTypeOK'
<1>. SUFFICES ASSUME ToolTypeOK, [McpNext]_mcpVars PROVE ToolTypeOK'
  OBVIOUS
<1>. DEFINE M == DOMAIN modules
<1>. DEFINE P == DOMAIN patches
<1>0. /\ patches \in Seq(Names) /\ modules \in Seq(ModuleSet)
      /\ call \in [Sessions -> CallSet(M, P)]
      /\ M = 1 .. Len(modules) /\ Len(modules) \in Nat /\ P = 1 .. Len(patches) /\ Len(patches) \in Nat
  BY DEF ToolTypeOK
<1>1. ASSUME NEW m \in M, Lives(m)
      PROVE  /\ modules[m].patch \in Nat /\ modules[m].def \in DOMAIN Declared /\ modules[m].configs \in ConfigSet
             /\ modules[m].def = "numbered" => "n" \in DOMAIN modules[m].configs
  <2>1. modules[m] \in ModuleSet /\ modules[m] # Gone
    BY <1>0, <1>1 DEF Lives
  <2>. QED
    BY <2>1 DEF ModuleSet
<1>2. ASSUME NEW s \in Sessions, NEW p \in P, NEW d \in DOMAIN Declared, NEW a \in Asked, AddModule(s, p, d, a)
      PROVE  ToolTypeOK'
  <2>. DEFINE given_   == [k \in Declared[d] |-> IF k \in DOMAIN a THEN a[k] ELSE 1]
  <2>. DEFINE deferred == Restrict(a, DOMAIN a \ Declared[d])
  <2>. DEFINE m        == Len(modules) + 1
  <2>. DEFINE new      == [patch |-> p, def |-> d, configs |-> Settle(d, given_)]
  <2>1. /\ modules' = Append(modules, new)
        /\ call' = [call EXCEPT ![s] = Idle] \/ call' = [call EXCEPT ![s] = [step |-> "constructed", module |-> m, asked |-> deferred]]
        /\ UNCHANGED <<menu, patches, files, undone, failures>>
    BY <1>2 DEF AddModule, Answer, Next_
  <2>2. given_ \in ConfigSet
    <3>1. a \in ConfigSet
      BY AskedTypes
    <3>2. a \in [DOMAIN a -> ConfigValue] /\ ("n" \in DOMAIN a => a["n"] \in 0 .. 2)
      BY <3>1, ConfigsAre
    <3>3. 1 \in ConfigValue /\ Declared[d] \subseteq ConfigKey
      BY DEF ConfigValue, ConfigKey
    <3>4. given_ \in [Declared[d] -> ConfigValue] /\ DOMAIN given_ = Declared[d]
      BY <3>2, <3>3
    <3>5. "n" \in DOMAIN given_ => given_["n"] \in 0 .. 2
      BY <3>2
    <3>. HIDE DEF given_
    <3>. QED
      BY <3>3, <3>4, <3>5, ConfigsAre
  <2>3. d = "numbered" => "n" \in DOMAIN given_
    BY McpAssumption
  <2>. HIDE DEF given_
  <2>4. new \in ModuleSet
    <3>1. /\ Settle(d, given_) \in ConfigSet
          /\ d = "numbered" => "n" \in DOMAIN Settle(d, given_)
          /\ d # "numbered" => Settle(d, given_) = given_
      BY <2>2, <2>3, SettleMeans
    <3>2. p \in Nat
      BY <1>0
    <3>. QED
      BY <3>1, <3>2 DEF ModuleSet
  <2>5. deferred \in ConfigSet
    <3>1. DOMAIN a \ Declared[d] = (DOMAIN a \ Declared[d]) \cap DOMAIN a
      OBVIOUS
    <3>2. Restrict(a, (DOMAIN a \ Declared[d]) \cap DOMAIN a) \in ConfigSet
      BY AskedTypes
    <3>. QED
      BY <3>1, <3>2
  <2>. HIDE DEF new, deferred
  <2>6. /\ modules' \in Seq(ModuleSet) /\ DOMAIN modules' = 1 .. m
    BY <1>0, <2>1, <2>4
  <2>7. M \subseteq DOMAIN modules' /\ m \in DOMAIN modules'
    BY <1>0, <2>6
  <2>8. call' \in [Sessions -> CallSet(DOMAIN modules', DOMAIN patches')]
    <3>1. Idle \in CallSet(DOMAIN modules', DOMAIN patches')
      BY DEF CallSet, Idle
    <3>2. [step |-> "constructed", module |-> m, asked |-> deferred] \in CallSet(DOMAIN modules', DOMAIN patches')
      BY <2>5, <2>7 DEF CallSet
    <3>. HIDE DEF m
    <3>. QED
      BY <2>1, <2>7, <3>1, <3>2, CallGoesOn
  <2>. QED
    BY <2>1, <2>6, <2>7, <2>8 DEF ToolTypeOK
<1>3. ASSUME NEW s \in Sessions, NEW x \in CallSet(M, P), Next_(s, x) \/ UNCHANGED call,
             UNCHANGED <<menu, patches, files, undone>>, failures' \in Nat,
             modules' \in Seq(ModuleSet), DOMAIN modules' = M
      PROVE  ToolTypeOK'
  <2>1. call' \in [Sessions -> CallSet(DOMAIN modules', DOMAIN patches')]
    BY <1>3, CallGoesOn, CallsGoOn DEF Next_
  <2>. QED
    BY <1>3, <2>1 DEF ToolTypeOK
<1>4. Idle \in CallSet(M, P)
  BY DEF CallSet, Idle
<1>5. ASSUME NEW s \in Sessions, Constructed(s) PROVE ToolTypeOK'
  <2>. DEFINE m == call[s].module
  <2>1. m \in M /\ call[s].asked \in ConfigSet
    <3>1. call[s] \in CallSet(M, P) /\ call[s].step = "constructed"
      BY <1>0, <1>5 DEF Constructed
    <3>. QED
      BY <3>1 DEF CallSet
  <2>. HIDE DEF m
  <2>2. \/ Next_(s, [step |-> "rollback", module |-> m])
        \/ /\ Lives(m)
           /\ Next_(s, [step |-> "write", module |-> m, asked |-> call[s].asked,
                        configs |-> Over(call[s].asked, modules[m].configs)])
    BY <1>5 DEF Constructed, m
  <2>3. UNCHANGED <<menu, patches, modules, files, undone, failures>>
    BY <1>5 DEF Constructed
  <2>4. [step |-> "rollback", module |-> m] \in CallSet(M, P)
    BY <2>1 DEF CallSet
  <2>5. ASSUME Lives(m)
        PROVE  [step |-> "write", module |-> m, asked |-> call[s].asked,
                configs |-> Over(call[s].asked, modules[m].configs)] \in CallSet(M, P)
    <3>1. Over(call[s].asked, modules[m].configs) \in ConfigSet
      BY <1>1, <2>1, <2>5, OverTypes
    <3>. QED
      BY <2>1, <3>1 DEF CallSet
  <2>6. failures \in Nat
    BY DEF ToolTypeOK
  <2>. HIDE DEF M, P
  <2>7. CASE Next_(s, [step |-> "rollback", module |-> m])
    BY <1>0, <1>3, <2>3, <2>4, <2>6, <2>7 DEF M
  <2>8. CASE Lives(m) /\ Next_(s, [step |-> "write", module |-> m, asked |-> call[s].asked,
                        configs |-> Over(call[s].asked, modules[m].configs)])
    BY <1>0, <1>3, <2>3, <2>5, <2>6, <2>8 DEF M
  <2>. QED
    BY <2>2, <2>7, <2>8
<1>6. ASSUME NEW m \in M PROVE Removed(m) \in Seq(ModuleSet) /\ DOMAIN Removed(m) = M
  <2>1. Gone \in ModuleSet
    BY DEF ModuleSet
  <2>2. modules \in [1 .. Len(modules) -> ModuleSet]
    BY <1>0
  <2>. DEFINE r == Removed(m)
  <2>3. r \in [1 .. Len(modules) -> ModuleSet]
    BY <2>1, <2>2 DEF Removed
  <2>. HIDE DEF r
  <2>4. r \in Seq(ModuleSet) /\ DOMAIN r = M
    BY <1>0, <2>3
  <2>. QED
    BY <2>4 DEF r
<1>7. ASSUME NEW s \in Sessions, Rollback(s) PROVE ToolTypeOK'
  <2>. DEFINE m == call[s].module
  <2>1. m \in M
    <3>1. call[s] \in CallSet(M, P) /\ call[s].step = "rollback"
      BY <1>0, <1>7 DEF Rollback
    <3>. QED
      BY <3>1 DEF CallSet
  <2>2. /\ modules' = Removed(m) /\ undone' = undone \cup {m} /\ call' = [call EXCEPT ![s] = Idle]
        /\ UNCHANGED <<menu, patches, files, failures>>
    BY <1>7 DEF Rollback, Answer
  <2>. HIDE DEF m
  <2>3. modules' \in Seq(ModuleSet) /\ DOMAIN modules' = M
    BY <1>6, <2>1, <2>2
  <2>4. call' \in [Sessions -> CallSet(DOMAIN modules', DOMAIN patches')]
    BY <1>4, <2>2, <2>3, CallGoesOn
  <2>. QED
    BY <2>1, <2>2, <2>3, <2>4 DEF ToolTypeOK
<1>8. ASSUME NEW s \in Sessions, WriteConfigs(s) PROVE ToolTypeOK'
  <2>. DEFINE m == call[s].module
  <2>. DEFINE over == Over(call[s].configs, modules[m].configs)
  <2>. DEFINE now == Settle(modules[m].def, over)
  <2>1. m \in M /\ call[s].configs \in ConfigSet
    <3>1. call[s] \in CallSet(M, P) /\ call[s].step = "write"
      BY <1>0, <1>8 DEF WriteConfigs
    <3>. QED
      BY <3>1 DEF CallSet
  <2>2. /\ \/ UNCHANGED modules
           \/ Lives(m) /\ modules' = [modules EXCEPT ![m].configs = now]
        /\ Next_(s, Idle) /\ UNCHANGED <<menu, patches, files, undone, failures>>
    BY <1>8 DEF WriteConfigs, Answer, Next_
  <2>3. ASSUME Lives(m), modules' = [modules EXCEPT ![m].configs = now]
        PROVE  modules' \in Seq(ModuleSet) /\ DOMAIN modules' = M
    <3>. DEFINE mod == modules[m]
    <3>1. /\ mod \in ModuleSet /\ mod # Gone
          /\ mod.def \in DOMAIN Declared /\ mod.configs \in ConfigSet
          /\ mod.def = "numbered" => "n" \in DOMAIN mod.configs
      BY <1>0, <1>1, <2>1, <2>3 DEF Lives
    <3>2. over \in ConfigSet /\ (mod.def = "numbered" => "n" \in DOMAIN over)
      BY <2>1, <3>1, OverTypes
    <3>3. now \in ConfigSet /\ (mod.def = "numbered" => "n" \in DOMAIN now)
      <4>. HIDE DEF over
      <4>1. /\ Settle(mod.def, over) \in ConfigSet
            /\ mod.def = "numbered" => "n" \in DOMAIN Settle(mod.def, over)
        BY <3>1, <3>2, SettleMeans
      <4>. QED
        BY <4>1
    <3>. DEFINE new == [mod EXCEPT !.configs = now]
    <3>4. new \in ModuleSet
      <4>. HIDE DEF now
      <4>1. mod \in [patch : Nat, def : DOMAIN Declared, configs : ConfigSet]
        <5>. HIDE DEF mod
        <5>. QED
          BY <3>1 DEF ModuleSet
      <4>. HIDE DEF mod
      <4>2. /\ new \in [patch : Nat, def : DOMAIN Declared, configs : ConfigSet]
            /\ new.def = mod.def /\ new.configs = now
        BY <3>3, <4>1
      <4>. HIDE DEF new
      <4>. QED
        BY <3>3, <4>2 DEF ModuleSet
    <3>5. modules' = [modules EXCEPT ![m] = new]
      <4>. HIDE DEF now
      <4>. QED
        BY <2>3
    <3>6. modules \in [1 .. Len(modules) -> ModuleSet]
      BY <1>0
    <3>. HIDE DEF new, m
    <3>7. modules' \in [1 .. Len(modules) -> ModuleSet]
      BY <3>4, <3>5, <3>6
    <3>. QED
      BY <1>0, <3>7
  <2>4. modules' \in Seq(ModuleSet) /\ DOMAIN modules' = M
    <3>1. CASE UNCHANGED modules
      BY <1>0, <3>1
    <3>. QED
      BY <2>2, <2>3, <3>1
  <2>5. failures' \in Nat
    BY <2>2 DEF ToolTypeOK
  <2>. HIDE DEF now, M, P, m
  <2>. QED
    BY <1>3, <1>4, <2>2, <2>4, <2>5
<1>9. ASSUME NEW s \in Sessions, NEW m \in M, RemoveModule(s, m) PROVE ToolTypeOK'
  <2>1. /\ modules' = Removed(m) /\ UNCHANGED <<menu, patches, files, call, undone, failures>>
    BY <1>9 DEF RemoveModule
  <2>2. failures' \in Nat
    BY <2>1 DEF ToolTypeOK
  <2>. HIDE DEF M, P
  <2>. QED
    BY <1>3, <1>4, <1>6, <2>1, <2>2
<1>10. ASSUME NEW s \in Sessions, NEW m \in M, NEW a \in Asked, NEW t \in {"set", "update"}, ReadConfigs(s, m, a, t)
       PROVE  ToolTypeOK'
  <2>. DEFINE cs == IF t = "set" THEN Over(a, modules[m].configs) ELSE a
  <2>. DEFINE x == [step |-> "write", module |-> m, asked |-> a, configs |-> cs]
  <2>1. /\ Lives(m) /\ Next_(s, x) /\ UNCHANGED <<menu, patches, modules, files, undone, failures>>
    BY <1>10 DEF ReadConfigs
  <2>2. a \in ConfigSet
    BY AskedTypes
  <2>3. cs \in ConfigSet
    BY <1>1, <2>1, <2>2, OverTypes
  <2>. HIDE DEF cs
  <2>4. x \in CallSet(M, P)
    BY <2>2, <2>3 DEF CallSet
  <2>5. failures' \in Nat
    BY <2>1 DEF ToolTypeOK
  <2>. HIDE DEF x, M, P
  <2>. QED
    BY <1>0, <1>3, <2>1, <2>4, <2>5 DEF M
<1>11. ASSUME NEW s \in Sessions, NEW name \in Names, CreatePatch(s, name) PROVE ToolTypeOK'
  <2>1. patches' = Append(patches, name) /\ UNCHANGED <<menu, modules, files, call, undone, failures>>
    BY <1>11 DEF CreatePatch
  <2>2. patches' \in Seq(Names) /\ DOMAIN patches' = 1 .. Len(patches) + 1
    BY <1>0, <2>1
  <2>3. P \subseteq DOMAIN patches'
    BY <1>0, <2>2
  <2>4. call' \in [Sessions -> CallSet(DOMAIN modules', DOMAIN patches')]
    BY <2>1, <2>3, CallsGoOn
  <2>. QED
    BY <2>1, <2>2, <2>3, <2>4 DEF ToolTypeOK
<1>12. ASSUME NEW s \in Sessions, NEW p \in P, NEW name \in Names, SavePatch(s, p, name) PROVE ToolTypeOK'
  <2>. DEFINE x == [step |-> IF name = patches[p] THEN "save" ELSE "rename", patch |-> p, name |-> name, old |-> patches[p]]
  <2>1. Next_(s, x) /\ UNCHANGED <<menu, patches, modules, files, undone, failures>>
    BY <1>12 DEF SavePatch
  <2>2. x \in CallSet(M, P)
    <3>1. patches[p] \in Names
      BY <1>0
    <3>. QED
      BY <3>1 DEF CallSet
  <2>3. failures' \in Nat
    BY <2>1 DEF ToolTypeOK
  <2>. HIDE DEF x, M, P
  <2>. QED
    BY <1>0, <1>3, <2>1, <2>2, <2>3 DEF M
<1>13. ASSUME NEW s \in Sessions, call[s].step \in {"rename", "save", "drop"}
       PROVE  /\ call[s].patch \in P /\ call[s].name \in Names /\ call[s].old \in Names
              /\ \A st \in {"rename", "save", "drop"} : [call[s] EXCEPT !.step = st] \in CallSet(M, P)
  <2>. DEFINE c == call[s]
  <2>1. c \in CallSet(M, P) /\ c.step \in {"rename", "save", "drop"}
    BY <1>0, <1>13
  <2>. HIDE DEF c
  <2>2. c \in [step : {"rename", "save", "drop"}, patch : P, name : Names, old : Names]
    BY <2>1 DEF CallSet
  <2>3. /\ c.patch \in P /\ c.name \in Names /\ c.old \in Names
        /\ \A st \in {"rename", "save", "drop"} :
              [c EXCEPT !.step = st] \in [step : {"rename", "save", "drop"}, patch : P, name : Names, old : Names]
    BY <2>2
  <2>. QED
    BY <2>3 DEF c, CallSet
<1>14. ASSUME NEW s \in Sessions, RenamePatch(s) PROVE ToolTypeOK'
  <2>1. \/ Next_(s, Idle) /\ UNCHANGED patches
        \/ /\ patches' = [patches EXCEPT ![call[s].patch] = call[s].name]
           /\ Next_(s, [call[s] EXCEPT !.step = "save"])
    BY <1>14 DEF RenamePatch, Answer, Next_
  <2>2. call[s].step = "rename" /\ UNCHANGED <<menu, modules, files, undone, failures>>
    BY <1>14 DEF RenamePatch
  <2>3. CASE Next_(s, Idle) /\ UNCHANGED patches
    <3>1. failures' \in Nat
      BY <2>2 DEF ToolTypeOK
    <3>. HIDE DEF M, P
    <3>. QED
      BY <1>0, <1>3, <1>4, <2>2, <2>3, <3>1 DEF M
  <2>4. CASE /\ patches' = [patches EXCEPT ![call[s].patch] = call[s].name]
             /\ Next_(s, [call[s] EXCEPT !.step = "save"])
    <3>1. patches' \in Seq(Names) /\ DOMAIN patches' = P
      <4>1. patches \in [1 .. Len(patches) -> Names]
        BY <1>0
      <4>2. patches' \in [1 .. Len(patches) -> Names]
        BY <1>13, <2>2, <2>4, <4>1
      <4>. QED
        BY <1>0, <4>2
    <3>2. [call[s] EXCEPT !.step = "save"] \in CallSet(M, P)
      BY <1>13, <2>2
    <3>3. call' \in [Sessions -> CallSet(DOMAIN modules', DOMAIN patches')]
      BY <2>2, <2>4, <3>1, <3>2, CallGoesOn DEF Next_
    <3>. QED
      BY <2>2, <3>1, <3>3 DEF ToolTypeOK
  <2>. QED
    BY <2>1, <2>3, <2>4
<1>15. ASSUME NEW s \in Sessions, WriteFile(s) PROVE ToolTypeOK'
  <2>1. /\ call[s].step = "save" /\ UNCHANGED <<menu, patches, modules, undone, failures>>
        /\ files' = [n \in DOMAIN files \cup {call[s].name} |-> IF n = call[s].name THEN call[s].patch ELSE files[n]]
        /\ Next_(s, Idle) \/ Next_(s, [call[s] EXCEPT !.step = "drop"])
    BY <1>15 DEF WriteFile, Answer, Next_
  <2>2. DOMAIN files' \subseteq Names /\ files' \in [DOMAIN files' -> DOMAIN patches']
    BY <1>13, <2>1 DEF ToolTypeOK
  <2>3. call' \in [Sessions -> CallSet(DOMAIN modules', DOMAIN patches')]
    BY <1>4, <1>13, <2>1, CallGoesOn DEF Next_
  <2>. QED
    BY <2>1, <2>2, <2>3 DEF ToolTypeOK
<1>16. ASSUME NEW s \in Sessions, DiskFails(s) PROVE ToolTypeOK'
  <2>1. Next_(s, Idle) /\ failures' = failures + 1 /\ UNCHANGED <<menu, patches, modules, files, undone>>
    BY <1>16 DEF DiskFails, Answer, Next_
  <2>2. failures' \in Nat
    BY <2>1 DEF ToolTypeOK
  <2>. HIDE DEF M, P
  <2>. QED
    BY <1>0, <1>3, <1>4, <2>1, <2>2 DEF M
<1>17. ASSUME NEW s \in Sessions, DropOld(s) PROVE ToolTypeOK'
  <2>1. /\ Next_(s, Idle) /\ files' = Dropped(files, call[s].old) /\ UNCHANGED <<menu, patches, modules, undone, failures>>
    BY <1>17 DEF DropOld, Answer, Next_
  <2>2. DOMAIN files' \subseteq Names /\ files' \in [DOMAIN files' -> DOMAIN patches']
    BY <2>1 DEF ToolTypeOK, Dropped, Restrict
  <2>3. call' \in [Sessions -> CallSet(DOMAIN modules', DOMAIN patches')]
    BY <1>4, <2>1, CallGoesOn DEF Next_
  <2>. QED
    BY <2>1, <2>2, <2>3 DEF ToolTypeOK
<1>18. ASSUME UNCHANGED <<menu, toolVars>> PROVE ToolTypeOK'
  BY <1>18 DEF ToolTypeOK, toolVars
<1>19. ASSUME \/ \E s \in Sessions : \E b \in Buffers : Poll(s, b)
              \/ Report([kind |-> "output", of |-> 1]) \/ Report([kind |-> "error", of |-> 1])
              \/ CollectLag \/ Collect \/ UNCHANGED mcpVars
       PROVE  UNCHANGED <<menu, toolVars>>
  BY <1>19 DEF Poll, Report, CollectLag, Collect, mcpVars, toolVars
<1>20. ASSUME NEW s \in Sessions, RollbackFails(s) PROVE ToolTypeOK'
  <2>1. Next_(s, Idle) /\ UNCHANGED <<menu, patches, modules, files, undone, failures>>
    BY <1>20 DEF RollbackFails, Answer, Next_
  <2>2. failures' \in Nat
    BY <2>1 DEF ToolTypeOK
  <2>. HIDE DEF M, P
  <2>. QED
    BY <1>0, <1>3, <1>4, <2>1, <2>2 DEF M
<1>. QED
  BY <1>2, <1>5, <1>7, <1>8, <1>9, <1>10, <1>11, <1>12, <1>14, <1>15, <1>16, <1>17, <1>18, <1>19, <1>20 DEF McpNext

\* The ring's part of a step: nothing, or one of these.
LEMMA RingMoves ==
    ASSUME [McpNext]_mcpVars
    PROVE  \/ UNCHANGED ringVars
           \/ \E s \in Sessions, b \in Buffers : Poll(s, b)
           \/ \E e \in Event_ : Report(e)
           \/ CollectLag \/ Collect
<1>1. CASE UNCHANGED mcpVars
  BY <1>1 DEF mcpVars, ringVars
<1>2. CASE McpNext
  <2>. DEFINE tools(s) ==
         \/ \E p \in DOMAIN patches, d \in DOMAIN Declared, a \in Asked : AddModule(s, p, d, a)
         \/ Constructed(s) \/ Rollback(s) \/ RollbackFails(s) \/ WriteConfigs(s)
         \/ \E m \in DOMAIN modules : RemoveModule(s, m) \/ \E a \in Asked, t \in {"set", "update"} : ReadConfigs(s, m, a, t)
         \/ \E name \in Names : CreatePatch(s, name) \/ \E p \in DOMAIN patches : SavePatch(s, p, name)
         \/ RenamePatch(s) \/ WriteFile(s) \/ DiskFails(s) \/ DropOld(s)
  <2>1. \/ \E s \in Sessions : tools(s)
        \/ \E s \in Sessions, b \in Buffers : Poll(s, b)
        \/ Report([kind |-> "output", of |-> 1]) \/ Report([kind |-> "error", of |-> 1])
        \/ CollectLag \/ Collect
    BY <1>2 DEF McpNext
  <2>2. ASSUME NEW s \in Sessions, tools(s) PROVE UNCHANGED ringVars
    <3>1. ASSUME NEW p, NEW d, NEW a, AddModule(s, p, d, a) PROVE UNCHANGED ringVars
      BY <3>1 DEF AddModule
    <3>2. ASSUME Constructed(s) \/ Rollback(s) \/ RollbackFails(s) \/ WriteConfigs(s) PROVE UNCHANGED ringVars
      BY <3>2 DEF Constructed, Rollback, RollbackFails, WriteConfigs
    <3>3. ASSUME NEW m, NEW a, NEW t, RemoveModule(s, m) \/ ReadConfigs(s, m, a, t) PROVE UNCHANGED ringVars
      BY <3>3 DEF RemoveModule, ReadConfigs
    <3>4. ASSUME NEW p, NEW name, CreatePatch(s, name) \/ SavePatch(s, p, name) PROVE UNCHANGED ringVars
      BY <3>4 DEF CreatePatch, SavePatch
    <3>5. ASSUME RenamePatch(s) \/ WriteFile(s) \/ DiskFails(s) \/ DropOld(s) PROVE UNCHANGED ringVars
      BY <3>5 DEF RenamePatch, WriteFile, DiskFails, DropOld
    <3>. QED
      BY <2>2, <3>1, <3>2, <3>3, <3>4, <3>5
  <2>3. [kind |-> "output", of |-> 1] \in Event_ /\ [kind |-> "error", of |-> 1] \in Event_
    BY DEF Event_
  <2>. QED
    BY <2>1, <2>2, <2>3
<1>. QED
  BY <1>1, <1>2

\* A record is pushed behind the others, the oldest of which may go.
LEMMA PushedLast ==
    ASSUME NEW h \in Seq(Record), NEW r \in Record
    PROVE  LET p == Pushed(h, r) IN
           /\ p \in Seq(Record)
           /\ \A i \in DOMAIN p : \/ i < Len(p) /\ \E j \in DOMAIN h : p[i] = h[j]
                                  \/ i = Len(p) /\ p[i] = r
           /\ Len(p) \in Nat
           /\ \A i, j \in DOMAIN p : i < j /\ j < Len(p) =>
                 \E k, l \in DOMAIN h : k < l /\ p[i] = h[k] /\ p[j] = h[l]
<1>. DEFINE p == Pushed(h, r)
<1>. DEFINE g == IF Len(h) >= RingCapacity THEN Tail(h) ELSE h
<1>1. /\ g \in Seq(Record) /\ Len(g) \in Nat /\ DOMAIN g = 1 .. Len(g)
      /\ \A i \in DOMAIN g : \E j \in DOMAIN h : g[i] = h[j]
      /\ \A i, j \in DOMAIN g : i < j => \E k, l \in DOMAIN h : k < l /\ g[i] = h[k] /\ g[j] = h[l]
  <2>0. Len(h) \in Nat /\ DOMAIN h = 1 .. Len(h) /\ RingCapacity \in Nat \ {0}
    BY McpAssumption
  <2>1. CASE Len(h) >= RingCapacity
    <3>. DEFINE t == Tail(h)
    <3>1. /\ t \in Seq(Record) /\ Len(t) = Len(h) - 1 /\ DOMAIN t = 1 .. Len(h) - 1
          /\ \A i \in 1 .. Len(h) - 1 : t[i] = h[i + 1]
      BY <2>0, <2>1
    <3>. HIDE DEF t
    <3>2. \A i \in DOMAIN t : i \in Int /\ t[i] = h[i + 1] /\ i + 1 \in DOMAIN h
      BY <2>0, <3>1
    <3>3. \A i, j \in DOMAIN t : i < j => i + 1 < j + 1
      BY <3>2
    <3>4. g = t
      BY <2>1 DEF t
    <3>. HIDE DEF g
    <3>5. Len(h) - 1 \in Nat
      BY <2>0, <2>1
    <3>. QED
      BY <3>1, <3>2, <3>3, <3>4, <3>5
  <2>2. CASE ~(Len(h) >= RingCapacity)
    BY <2>0, <2>2
  <2>. QED
    BY <2>1, <2>2
<1>2. p = Append(g, r)
  BY DEF Pushed
<1>. HIDE DEF g, p
<1>3. /\ p \in Seq(Record) /\ Len(p) = Len(g) + 1 /\ DOMAIN p = 1 .. Len(g) + 1
      /\ \A i \in 1 .. Len(g) : p[i] = g[i]
      /\ p[Len(g) + 1] = r
  BY <1>1, <1>2
<1>4. \A i \in DOMAIN p : \/ i < Len(p) /\ i \in DOMAIN g /\ p[i] = g[i]
                          \/ i = Len(p) /\ p[i] = r
  <2>. TAKE i \in DOMAIN p
  <2>1. i \in 1 .. Len(g) \/ i = Len(g) + 1
    BY <1>1, <1>3
  <2>. QED
    BY <1>1, <1>3, <2>1
<1>5. \A i \in DOMAIN p : \/ i < Len(p) /\ \E j \in DOMAIN h : p[i] = h[j]
                          \/ i = Len(p) /\ p[i] = r
  BY <1>1, <1>4
<1>6. ASSUME NEW i \in DOMAIN p, NEW j \in DOMAIN p, i < j, j < Len(p)
      PROVE  \E k, l \in DOMAIN h : k < l /\ p[i] = h[k] /\ p[j] = h[l]
  <2>1. i \in DOMAIN g /\ j \in DOMAIN g /\ p[i] = g[i] /\ p[j] = g[j]
    BY <1>1, <1>3, <1>6
  <2>. QED
    BY <1>1, <1>6, <2>1
<1>7. Len(p) \in Nat
  BY <1>1, <1>3
<1>. QED
  BY <1>3, <1>5, <1>6, <1>7 DEF p

\* Types of the ring are kept.
LEMMA RingKeepsTypes == ToolTypeOK /\ RingTypeOK /\ PagesInv /\ [McpNext]_mcpVars => RingTypeOK'
<1>. SUFFICES ASSUME ToolTypeOK, RingTypeOK, PagesInv, [McpNext]_mcpVars PROVE RingTypeOK'
  OBVIOUS
<1>1. ASSUME UNCHANGED ringVars PROVE RingTypeOK'
  BY <1>1 DEF ringVars, RingTypeOK
<1>2. ASSUME NEW s \in Sessions, NEW b \in Buffers, Poll(s, b) PROVE RingTypeOK'
  <2>. DEFINE p == Page(s, b)
  <2>. DEFINE seqs == [i \in DOMAIN p |-> p[i].seq]
  <2>1. p \in Seq(Record) /\ cursor[s][b] \in Nat
    BY PageMeans DEF RingTypeOK
  <2>. HIDE DEF p
  <2>2. seqs \in Seq(Nat)
    <3>1. p \in [1 .. Len(p) -> Record] /\ Len(p) \in Nat
      BY <2>1
    <3>2. seqs \in [1 .. Len(p) -> Nat]
      BY <3>1 DEF Record
    <3>. HIDE DEF seqs
    <3>. QED
      BY <3>1, <3>2
  <2>3. LatestSeq(s, b) \in Nat
    <3>1. CASE p = <<>>
      BY <2>1, <3>1 DEF LatestSeq, p
    <3>2. CASE p # <<>>
      <4>1. Len(p) \in DOMAIN p
        BY <2>1, <3>2
      <4>2. p[Len(p)] \in Record
        BY <2>1, <4>1
      <4>3. LatestSeq(s, b) = p[Len(p)].seq
        BY <3>2 DEF LatestSeq, Last, p
      <4>. QED
        BY <4>2, <4>3 DEF Record
    <3>. QED
      BY <3>1, <3>2
  <2>. DEFINE more == got[s][b] \o seqs
  <2>. HIDE DEF seqs
  <2>4. more \in Seq(Nat)
    BY <2>2 DEF RingTypeOK
  <2>. HIDE DEF more
  <2>5. /\ got' = [got EXCEPT ![s][b] = more] /\ cursor' = [cursor EXCEPT ![s][b] = LatestSeq(s, b)]
        /\ UNCHANGED <<stream, missed, errors, outputs, seq, dropped, emitted>>
    BY <1>2 DEF Poll, more, seqs, p
  <2>6. got' \in [Sessions -> [Buffers -> Seq(Nat)]]
    <3>1. got' = [got EXCEPT ![s] = [got[s] EXCEPT ![b] = more]]
      BY <2>5
    <3>2. [got[s] EXCEPT ![b] = more] \in [Buffers -> Seq(Nat)]
      BY <2>4 DEF RingTypeOK
    <3>. QED
      BY <3>1, <3>2 DEF RingTypeOK
  <2>7. cursor' \in [Sessions -> [Buffers -> Nat]]
    <3>1. cursor' = [cursor EXCEPT ![s] = [cursor[s] EXCEPT ![b] = LatestSeq(s, b)]]
      BY <2>5
    <3>2. [cursor[s] EXCEPT ![b] = LatestSeq(s, b)] \in [Buffers -> Nat]
      BY <2>3 DEF RingTypeOK
    <3>. QED
      BY <3>1, <3>2 DEF RingTypeOK
  <2>. QED
    BY <2>5, <2>6, <2>7 DEF RingTypeOK
<1>3. ASSUME NEW e \in Event_, Report(e) PROVE RingTypeOK'
  <2>1. Append(stream, e) \in Seq(Event_) /\ Append(stream, e) # <<>>
    <3>1. stream \in Seq(Event_) /\ Len(stream) \in Nat
      BY DEF RingTypeOK
    <3>2. Append(stream, e) \in Seq(Event_) /\ Len(Append(stream, e)) = Len(stream) + 1
      BY <3>1
    <3>3. Len(Append(stream, e)) # 0
      BY <3>1, <3>2
    <3>. QED
      BY <3>2, <3>3
  <2>2. Tail(Append(stream, e)) \in Seq(Event_)
    <3>. DEFINE a == Append(stream, e)
    <3>. HIDE DEF a
    <3>1. a \in Seq(Event_) /\ a # <<>>
      BY <2>1 DEF a
    <3>2. Tail(a) \in Seq(Event_)
      BY <3>1
    <3>. QED
      BY <3>2 DEF a
  <2>3. stream' \in Seq(Event_) /\ missed' \in Nat /\ emitted' \in Nat
    <3>1. /\ emitted' = emitted + 1
          /\ \/ stream' = Tail(Append(stream, e)) /\ missed' = missed + 1
             \/ stream' = Append(stream, e) /\ missed' = missed
      BY <1>3 DEF Report
    <3>2. missed + 1 \in Nat /\ emitted + 1 \in Nat /\ missed \in Nat
      BY DEF RingTypeOK
    <3>. QED
      BY <2>1, <2>2, <3>1, <3>2
  <2>. QED
    BY <1>3, <2>3 DEF Report, RingTypeOK
<1>4. CASE CollectLag
  BY <1>4 DEF CollectLag, RingTypeOK
<1>5. CASE Collect
  <2>. DEFINE e == Head(stream)
  <2>0. e \in Event_ /\ seq' \in Nat /\ stream' \in Seq(Event_)
    BY <1>5 DEF Collect, RingTypeOK
  <2>1. /\ \/ outputs' = Pushed(outputs, [seq |-> seq', of |-> e.of]) /\ UNCHANGED errors
           \/ /\ \E p \in {0} \cup (IF Lives(e.of) THEN {modules[e.of].patch} ELSE {}) :
                     errors' = Pushed(errors, [seq |-> seq', of |-> p])
              /\ UNCHANGED outputs
        /\ UNCHANGED <<missed, dropped, cursor, got, emitted>>
    BY <1>5 DEF Collect
  <2>. HIDE DEF e
  <2>2. \A p \in {0} \cup (IF Lives(e.of) THEN {modules[e.of].patch} ELSE {}) : p \in Nat
    <3>1. ASSUME Lives(e.of) PROVE modules[e.of].patch \in Nat
      <4>1. modules[e.of] \in ModuleSet
        BY <3>1 DEF Lives, ToolTypeOK
      <4>. QED
        BY <3>1, <4>1 DEF Lives, ModuleSet
    <3>. QED
      BY <3>1
  <2>3. e.of \in Nat
    BY <2>0 DEF Event_
  <2>4. \A p \in Nat : [seq |-> seq', of |-> p] \in Record
    BY <2>0 DEF Record
  <2>5. outputs \in Seq(Record) /\ errors \in Seq(Record)
    BY DEF RingTypeOK
  <2>6. \A r \in Record : Pushed(outputs, r) \in Seq(Record) /\ Pushed(errors, r) \in Seq(Record)
    BY <2>5, PushedLast
  <2>7. outputs' \in Seq(Record) /\ errors' \in Seq(Record)
    BY <2>1, <2>2, <2>3, <2>4, <2>5, <2>6
  <2>. QED
    BY <2>0, <2>1, <2>7 DEF RingTypeOK
<1>. QED
  BY <1>1, <1>2, <1>3, <1>4, <1>5, RingMoves

\* What two sequences make, one behind the other.
LEMMA Joined ==
    ASSUME NEW S, NEW f \in Seq(S), NEW g \in Seq(S), NEW h, h = f \o g
    PROVE  /\ h \in Seq(S) /\ Len(f) \in Nat /\ Len(g) \in Nat /\ DOMAIN f = 1 .. Len(f)
           /\ DOMAIN h = 1 .. Len(f) + Len(g)
           /\ \A i \in 1 .. Len(f) : h[i] = f[i]
           /\ \A i \in Len(f) + 1 .. Len(f) + Len(g) : h[i] = g[i - Len(f)]
OBVIOUS

\* A page that is taken adds to what was had, and moves the cursor behind it.
LEMMA PageTaken ==
    ASSUME RingTypeOK, PagesInv, NEW s \in Sessions, NEW b \in Buffers
    PROVE  \A had : had = got[s][b] \o [i \in DOMAIN Page(s, b) |-> Page(s, b)[i].seq]
                       => LatestSeq(s, b) <= seq /\ Whole(had, LatestSeq(s, b), s, b, Buffer(b))
<1>0. SUFFICES ASSUME NEW had, had = got[s][b] \o [i \in DOMAIN Page(s, b) |-> Page(s, b)[i].seq]
               PROVE  LatestSeq(s, b) <= seq /\ Whole(had, LatestSeq(s, b), s, b, Buffer(b))
  OBVIOUS
<1>. DEFINE p == Page(s, b)
<1>. DEFINE at == cursor[s][b]
<1>. DEFINE last == LatestSeq(s, b)
<1>. DEFINE old_ == got[s][b]
<1>. DEFINE new == [i \in DOMAIN p |-> p[i].seq]
<1>. DEFINE all == Buffer(b)
<1>1. /\ p \in Seq(Record) /\ Numbered(p, seq)
      /\ \A i \in DOMAIN p : p[i].seq > at
      /\ \A i \in DOMAIN all : Wants(s, b, all[i]) /\ all[i].seq > at /\ p # <<>> /\ all[i].seq <= p[Len(p)].seq
                                  => \E k \in DOMAIN p : p[k] = all[i]
  BY PageMeans
<1>2. /\ at \in Nat /\ seq \in Nat /\ old_ \in Seq(Nat) /\ at <= seq /\ Whole(old_, at, s, b, all)
      /\ all \in Seq(Record)
  BY DEF RingTypeOK, PagesInv, Buffer
<1>3. last = IF p = <<>> THEN at ELSE p[Len(p)].seq
  BY DEF LatestSeq, Last
<1>4. had = old_ \o new
  BY <1>0
<1>. HIDE DEF p, at, last, old_, all
<1>5. /\ Len(p) \in Nat /\ DOMAIN p = 1 .. Len(p) /\ DOMAIN new = DOMAIN p
      /\ \A i \in DOMAIN p : new[i] = p[i].seq /\ new[i] \in Nat /\ p[i] \in Record
  <2>1. \A i \in DOMAIN p : p[i] \in Record
    BY <1>1
  <2>2. \A i \in DOMAIN p : p[i].seq \in Nat
    BY <2>1 DEF Record
  <2>. QED
    BY <1>1, <2>1, <2>2
<1>6. new \in Seq(Nat) /\ Len(new) = Len(p)
  <2>1. new \in [1 .. Len(p) -> Nat]
    BY <1>5
  <2>. HIDE DEF new
  <2>. QED
    BY <1>5, <2>1
<1>. HIDE DEF new
<1>7. p # <<>> => Len(p) \in DOMAIN p
  BY <1>1
<1>8. last \in Nat /\ at <= last /\ last <= seq
  <2>1. CASE p = <<>>
    BY <1>2, <1>3, <2>1
  <2>2. CASE p # <<>>
    <3>1. last = p[Len(p)].seq /\ last = new[Len(p)]
      BY <1>3, <1>5, <1>7, <2>2
    <3>2. last > at /\ last <= seq /\ last \in Nat
      BY <1>1, <1>5, <1>7, <2>2, <3>1 DEF Numbered
    <3>. QED
      BY <1>2, <3>2
  <2>. QED
    BY <2>1, <2>2
<1>9. \A i \in DOMAIN new : at < new[i] /\ new[i] <= last /\ p # <<>>
  <2>. TAKE i \in DOMAIN new
  <2>1. p # <<>> /\ i \in DOMAIN p /\ Len(p) \in DOMAIN p /\ i <= Len(p) /\ i \in Nat
    BY <1>5, <1>7
  <2>2. last = p[Len(p)].seq
    BY <1>3, <2>1
  <2>3. i = Len(p) \/ i < Len(p)
    BY <1>5, <2>1
  <2>4. new[i] <= last
    BY <1>1, <1>5, <1>8, <2>1, <2>2, <2>3 DEF Numbered
  <2>. QED
    BY <1>1, <1>5, <2>1, <2>4
<1>10. /\ Len(old_) \in Nat /\ DOMAIN old_ = 1 .. Len(old_)
       /\ DOMAIN had = 1 .. Len(old_) + Len(new)
       /\ \A i \in 1 .. Len(old_) : had[i] = old_[i]
       /\ \A i \in Len(old_) + 1 .. Len(old_) + Len(new) : had[i] = new[i - Len(old_)]
  <2>1. old_ \in Seq(Nat) /\ new \in Seq(Nat) /\ had = old_ \o new
    BY <1>2, <1>4, <1>6
  <2>2. Len(old_) \in Nat /\ DOMAIN old_ = 1 .. Len(old_)
    BY <2>1
  <2>3. DOMAIN had = 1 .. Len(old_) + Len(new)
    BY <2>1, Joined
  <2>4. \A i \in 1 .. Len(old_) : had[i] = old_[i]
    BY <2>1, Joined
  <2>5. \A i \in Len(old_) + 1 .. Len(old_) + Len(new) : had[i] = new[i - Len(old_)]
    BY <2>1, Joined
  <2>. QED
    BY <2>2, <2>3, <2>4, <2>5
<1>11. \A i \in DOMAIN had : \/ i \in DOMAIN old_ /\ had[i] = old_[i]
                             \/ i > Len(old_) /\ i - Len(old_) \in DOMAIN new /\ had[i] = new[i - Len(old_)]
  <2>. TAKE i \in DOMAIN had
  <2>0. i \in Int /\ Len(new) \in Nat /\ DOMAIN new = 1 .. Len(new)
    BY <1>5, <1>6, <1>10
  <2>1. CASE i \in DOMAIN old_
    BY <1>10, <2>1
  <2>2. CASE i \notin DOMAIN old_
    <3>1. i \in Len(old_) + 1 .. Len(old_) + Len(new)
      BY <1>10, <2>0, <2>2
    <3>2. i - Len(old_) \in DOMAIN new /\ i > Len(old_)
      BY <1>10, <2>0, <3>1
    <3>. QED
      BY <1>10, <3>1, <3>2
  <2>. QED
    BY <2>1, <2>2
<1>12. /\ \A i \in DOMAIN old_ : i \in DOMAIN had /\ had[i] = old_[i] /\ old_[i] <= at /\ old_[i] \in Nat
       /\ \A i \in DOMAIN new : i + Len(old_) \in DOMAIN had /\ had[i + Len(old_)] = new[i]
  <2>1. \A i \in DOMAIN old_ : i \in DOMAIN had /\ had[i] = old_[i]
    BY <1>6, <1>5, <1>10
  <2>2. \A i \in DOMAIN old_ : old_[i] <= at /\ old_[i] \in Nat
    BY <1>2 DEF Whole
  <2>3. ASSUME NEW i \in DOMAIN new PROVE i + Len(old_) \in DOMAIN had /\ had[i + Len(old_)] = new[i]
    <3>1. i \in 1 .. Len(new)
      BY <1>5, <1>6
    <3>2. i + Len(old_) \in Len(old_) + 1 .. Len(old_) + Len(new) /\ (i + Len(old_)) - Len(old_) = i
      BY <1>5, <1>6, <1>10, <3>1
    <3>. QED
      BY <1>10, <3>2
  <2>. QED
    BY <2>1, <2>2, <2>3
<1>13. \A i \in DOMAIN had : had[i] <= last
  <2>. TAKE i \in DOMAIN had
  <2>1. CASE i \in DOMAIN old_ /\ had[i] = old_[i]
    BY <1>2, <1>8, <1>12, <2>1
  <2>. QED
    BY <1>9, <1>11, <2>1
<1>14. ASSUME NEW i \in DOMAIN had, NEW j \in DOMAIN had, i < j PROVE had[i] < had[j]
  <2>1. CASE j \in DOMAIN old_ /\ had[j] = old_[j]
    <3>1. i \in DOMAIN old_ /\ had[i] = old_[i]
      BY <1>10, <1>11, <1>14, <2>1
    <3>. QED
      BY <1>2, <1>14, <2>1, <3>1 DEF Whole
  <2>2. CASE j > Len(old_) /\ j - Len(old_) \in DOMAIN new /\ had[j] = new[j - Len(old_)]
    <3>1. CASE i \in DOMAIN old_ /\ had[i] = old_[i]
      <4>1. had[i] <= at /\ had[i] \in Nat
        BY <1>12, <3>1
      <4>2. at < had[j] /\ had[j] \in Nat
        BY <1>5, <1>9, <2>2
      <4>3. at \in Nat
        BY <1>2
      <4>. QED
        BY <4>1, <4>2, <4>3
    <3>2. CASE i > Len(old_) /\ i - Len(old_) \in DOMAIN new /\ had[i] = new[i - Len(old_)]
      <4>. DEFINE k == i - Len(old_)
      <4>. DEFINE l == j - Len(old_)
      <4>1. k < l /\ k \in DOMAIN p /\ l \in DOMAIN p
        BY <1>5, <1>10, <1>14, <2>2, <3>2
      <4>2. had[i] = p[k].seq /\ had[j] = p[l].seq
        BY <1>5, <2>2, <3>2
      <4>. HIDE DEF k, l
      <4>. QED
        BY <1>1, <4>1, <4>2 DEF Numbered
    <3>. QED
      BY <1>11, <3>1, <3>2
  <2>. QED
    BY <1>11, <2>1, <2>2
<1>15. ASSUME NEW i \in DOMAIN all, Wants(s, b, all[i])
       PROVE  all[i].seq <= last <=> all[i].seq \in Range(had)
  <2>0. all[i] \in Record /\ all[i].seq \in Nat
    <3>1. all[i] \in Record
      BY <1>2
    <3>. QED
      BY <3>1 DEF Record
  <2>1. all[i].seq \in Range(had) => all[i].seq <= last
    BY <1>13 DEF Range
  <2>2. ASSUME all[i].seq <= at PROVE all[i].seq \in Range(had)
    <3>1. all[i].seq \in Range(old_)
      BY <1>2, <1>15, <2>2 DEF Whole
    <3>. QED
      BY <1>12, <3>1 DEF Range
  <2>3. ASSUME all[i].seq <= last, ~(all[i].seq <= at) PROVE all[i].seq \in Range(had)
    <3>1. all[i].seq > at
      BY <1>2, <2>0, <2>3
    <3>2. p # <<>> /\ last = p[Len(p)].seq
      BY <1>3, <2>3
    <3>3. PICK k \in DOMAIN p : p[k] = all[i]
      BY <1>1, <1>15, <2>3, <3>1, <3>2
    <3>4. k \in DOMAIN new /\ new[k] = all[i].seq
      BY <1>5, <3>3
    <3>. QED
      BY <1>12, <3>4 DEF Range
  <2>. QED
    BY <2>1, <2>2, <2>3
<1>. QED
  BY <1>8, <1>13, <1>14, <1>15 DEF Whole, last, all

\* A record with the next number keeps a buffer in order, and no page had it.
LEMMA PushedNext ==
    ASSUME NEW h \in Seq(Record), NEW n \in Nat, NEW r \in Record, r.seq = n + 1, Numbered(h, n)
    PROVE  /\ Numbered(Pushed(h, r), n + 1)
           /\ \A s, b : \A at \in Nat : \A had \in Seq(Nat) : at <= n /\ Whole(had, at, s, b, h) => Whole(had, at, s, b, Pushed(h, r))
<1>. DEFINE p == Pushed(h, r)
<1>1. /\ p \in Seq(Record) /\ Len(p) \in Nat
      /\ \A i \in DOMAIN p : \/ i < Len(p) /\ \E j \in DOMAIN h : p[i] = h[j]
                             \/ i = Len(p) /\ p[i] = r
      /\ \A i, j \in DOMAIN p : i < j /\ j < Len(p) =>
            \E k, l \in DOMAIN h : k < l /\ p[i] = h[k] /\ p[j] = h[l]
  BY PushedLast
<1>2. \A i \in DOMAIN h : h[i] \in Record /\ h[i].seq \in Nat /\ h[i].seq <= n
  <2>1. \A i \in DOMAIN h : h[i] \in Record
    OBVIOUS
  <2>2. \A i \in DOMAIN h : h[i].seq \in Nat
    BY <2>1 DEF Record
  <2>. QED
    BY <2>1, <2>2 DEF Numbered
<1>. HIDE DEF p
<1>3. DOMAIN p \subseteq Nat
  BY <1>1
<1>4. Numbered(p, n + 1)
  <2>1. \A i \in DOMAIN p : p[i].seq <= n + 1
    <3>. TAKE i \in DOMAIN p
    <3>1. CASE \E j \in DOMAIN h : p[i] = h[j]
      BY <1>2, <3>1
    <3>2. CASE p[i] = r
      BY <3>2
    <3>. QED
      BY <1>1, <3>1, <3>2
  <2>2. ASSUME NEW i \in DOMAIN p, NEW j \in DOMAIN p, i < j PROVE p[i].seq < p[j].seq
    <3>1. CASE j < Len(p)
      BY <1>1, <2>2, <3>1 DEF Numbered
    <3>2. CASE j = Len(p) /\ p[j] = r
      <4>1. i < Len(p)
        BY <2>2, <3>2
      <4>2. PICK k \in DOMAIN h : p[i] = h[k]
        BY <1>1, <1>3, <4>1
      <4>. QED
        BY <1>2, <3>2, <4>2
    <3>. QED
      BY <1>1, <3>1, <3>2
  <2>. QED
    BY <2>1, <2>2 DEF Numbered
<1>5. ASSUME NEW s, NEW b, NEW at \in Nat, NEW had \in Seq(Nat), at <= n, Whole(had, at, s, b, h) PROVE Whole(had, at, s, b, p)
  <2>1. \A i \in DOMAIN had : had[i] <= at /\ had[i] \in Nat
    BY <1>5 DEF Whole
  <2>2. ASSUME NEW i \in DOMAIN p, Wants(s, b, p[i])
        PROVE  p[i].seq <= at <=> p[i].seq \in Range(had)
    <3>1. CASE \E j \in DOMAIN h : p[i] = h[j]
      BY <1>5, <2>2, <3>1 DEF Whole
    <3>2. CASE p[i] = r
      <4>1. ~(p[i].seq <= at)
        BY <1>5, <3>2
      <4>2. p[i].seq \notin Range(had)
        BY <2>1, <4>1 DEF Range
      <4>. QED
        BY <4>1, <4>2
    <3>. QED
      BY <1>1, <3>1, <3>2
  <2>. QED
    BY <1>5, <2>2 DEF Whole
<1>. QED
  BY <1>4, <1>5 DEF p

\* Every step leaves the pages whole.
LEMMA PagesStay == ToolTypeOK /\ RingTypeOK /\ PagesInv /\ [McpNext]_mcpVars => PagesInv'
<1>. SUFFICES ASSUME ToolTypeOK, RingTypeOK, PagesInv, [McpNext]_mcpVars PROVE PagesInv'
  OBVIOUS
<1>1. ASSUME UNCHANGED ringVars PROVE PagesInv'
  BY <1>1 DEF ringVars, PagesInv, Buffer, Whole, Numbered, Wants
<1>2. ASSUME NEW s \in Sessions, NEW b \in Buffers, Poll(s, b) PROVE PagesInv'
  <2>. DEFINE more == got[s][b] \o [i \in DOMAIN Page(s, b) |-> Page(s, b)[i].seq]
  <2>. DEFINE last == LatestSeq(s, b)
  <2>1. last <= seq /\ Whole(more, last, s, b, Buffer(b))
    BY PageTaken
  <2>2. /\ got' = [got EXCEPT ![s][b] = more] /\ cursor' = [cursor EXCEPT ![s][b] = last]
        /\ UNCHANGED <<stream, missed, errors, outputs, seq, dropped, emitted>>
    BY <1>2 DEF Poll
  <2>. HIDE DEF more, last
  <2>3. /\ got'[s][b] = more /\ cursor'[s][b] = last
        /\ \A t \in Sessions, c \in Buffers : t # s \/ c # b => got'[t][c] = got[t][c] /\ cursor'[t][c] = cursor[t][c]
    BY <2>2 DEF RingTypeOK
  <2>4. \A c : Buffer(c)' = Buffer(c)
    BY <2>2 DEF Buffer
  <2>5. ASSUME NEW t \in Sessions, NEW c \in Buffers
        PROVE  cursor'[t][c] <= seq' /\ Whole(got'[t][c], cursor'[t][c], t, c, Buffer(c)')
    <3>1. CASE t = s /\ c = b
      BY <2>1, <2>2, <2>3, <2>4, <3>1
    <3>2. CASE t # s \/ c # b
      <4>1. cursor[t][c] <= seq /\ Whole(got[t][c], cursor[t][c], t, c, Buffer(c))
        BY DEF PagesInv
      <4>. QED
        BY <2>2, <2>3, <2>4, <3>2, <4>1
    <3>. QED
      BY <3>1, <3>2
  <2>6. \A c \in Buffers : Numbered(Buffer(c)', seq')
    BY <2>2, <2>4 DEF PagesInv
  <2>7. emitted' = seq' + dropped' + missed' + Len(stream')
    BY <2>2 DEF PagesInv
  <2>. QED
    BY <2>5, <2>6, <2>7 DEF PagesInv, Whole, Numbered, Wants
<1>3. ASSUME NEW e \in Event_, Report(e) PROVE PagesInv'
  <2>. DEFINE a == Append(stream, e)
  <2>1. /\ emitted' = emitted + 1
        /\ \/ stream' = Tail(a) /\ missed' = missed + 1
           \/ stream' = a /\ missed' = missed
        /\ UNCHANGED <<errors, outputs, seq, dropped, cursor, got>>
    BY <1>3 DEF Report
  <2>2. Len(stream) \in Nat /\ Len(a) = Len(stream) + 1 /\ a \in Seq(Event_)
    BY DEF RingTypeOK
  <2>. HIDE DEF a
  <2>3. Len(Tail(a)) = Len(a) - 1
    BY <2>2
  <2>4. emitted' = seq + dropped + missed' + Len(stream')
    BY <2>1, <2>2, <2>3 DEF RingTypeOK, PagesInv
  <2>. QED
    BY <2>1, <2>4 DEF PagesInv, Buffer, Whole, Numbered, Wants
<1>4. CASE CollectLag
  <2>1. emitted' = seq' + dropped' + missed' + Len(stream')
    BY <1>4 DEF CollectLag, RingTypeOK, PagesInv
  <2>. QED
    BY <1>4, <2>1 DEF CollectLag, PagesInv, Buffer, Whole, Numbered, Wants
<1>5. CASE Collect
  <2>. DEFINE e == Head(stream)
  <2>1. /\ seq' = seq + 1
        /\ \/ outputs' = Pushed(outputs, [seq |-> seq', of |-> e.of]) /\ UNCHANGED errors
           \/ /\ \E p \in {0} \cup (IF Lives(e.of) THEN {modules[e.of].patch} ELSE {}) :
                     errors' = Pushed(errors, [seq |-> seq', of |-> p])
              /\ UNCHANGED outputs
        /\ UNCHANGED <<missed, dropped, cursor, got, emitted>>
    BY <1>5 DEF Collect
  <2>2. e.of \in Nat /\ \A p \in {0} \cup (IF Lives(e.of) THEN {modules[e.of].patch} ELSE {}) : p \in Nat
    <3>1. e \in Event_
      BY <1>5 DEF Collect, RingTypeOK
    <3>. HIDE DEF e
    <3>2. ASSUME Lives(e.of) PROVE modules[e.of].patch \in Nat
      <4>1. modules[e.of] \in ModuleSet
        BY <3>2 DEF Lives, ToolTypeOK
      <4>. QED
        BY <3>2, <4>1 DEF Lives, ModuleSet
    <3>. QED
      BY <3>1, <3>2 DEF Event_
  <2>. DEFINE rec(p) == [seq |-> seq + 1, of |-> p]
  <2>3. seq \in Nat /\ \A p \in Nat : rec(p) \in Record /\ rec(p).seq = seq + 1
    BY DEF Record, RingTypeOK
  <2>4. \E r \in Record : /\ r.seq = seq + 1
                          /\ \/ outputs' = Pushed(outputs, r) /\ UNCHANGED errors
                             \/ errors' = Pushed(errors, r) /\ UNCHANGED outputs
    <3>1. CASE outputs' = Pushed(outputs, rec(e.of)) /\ UNCHANGED errors
      BY <2>2, <2>3, <3>1
    <3>2. ASSUME NEW p \in Nat, errors' = Pushed(errors, rec(p)) /\ UNCHANGED outputs
          PROVE  \E r \in Record : /\ r.seq = seq + 1
                                   /\ \/ outputs' = Pushed(outputs, r) /\ UNCHANGED errors
                                      \/ errors' = Pushed(errors, r) /\ UNCHANGED outputs
      BY <2>3, <3>2
    <3>. HIDE DEF e
    <3>. QED
      BY <2>1, <2>2, <3>1, <3>2
  <2>5. PICK r \in Record : /\ r.seq = seq + 1
                            /\ \/ outputs' = Pushed(outputs, r) /\ UNCHANGED errors
                               \/ errors' = Pushed(errors, r) /\ UNCHANGED outputs
    BY <2>4
  <2>6. \A b \in Buffers : Buffer(b)' = Buffer(b) \/ Buffer(b)' = Pushed(Buffer(b), r)
    BY <2>5 DEF Buffer
  <2>7. \A b \in Buffers : Buffer(b) \in Seq(Record) /\ Numbered(Buffer(b), seq)
    BY DEF Buffer, RingTypeOK, PagesInv
  <2>8. ASSUME NEW h \in Seq(Record), Numbered(h, seq) PROVE Numbered(h, seq + 1)
    <3>1. \A i \in DOMAIN h : h[i] \in Record
      OBVIOUS
    <3>2. \A i \in DOMAIN h : h[i].seq \in Nat
      BY <3>1 DEF Record
    <3>. QED
      BY <2>3, <2>8, <3>2 DEF Numbered
  <2>9. \A b \in Buffers : Numbered(Buffer(b)', seq')
    BY <2>1, <2>3, <2>5, <2>6, <2>7, <2>8, PushedNext
  <2>10. ASSUME NEW s \in Sessions, NEW b \in Buffers
         PROVE  cursor[s][b] <= seq + 1 /\ Whole(got[s][b], cursor[s][b], s, b, Buffer(b)')
    <3>1. /\ cursor[s][b] \in Nat /\ got[s][b] \in Seq(Nat)
          /\ cursor[s][b] <= seq /\ Whole(got[s][b], cursor[s][b], s, b, Buffer(b))
      BY DEF RingTypeOK, PagesInv
    <3>. QED
      BY <2>3, <2>5, <2>6, <2>7, <3>1, PushedNext
  <2>11. emitted' = seq' + dropped' + missed' + Len(stream')
    <3>1. Len(stream') = Len(stream) - 1 /\ Len(stream) \in Nat
      BY <1>5 DEF Collect, RingTypeOK
    <3>. QED
      BY <2>1, <3>1 DEF RingTypeOK, PagesInv
  <2>. QED
    BY <2>1, <2>9, <2>10, <2>11 DEF PagesInv, Whole, Numbered, Wants
<1>. QED
  BY <1>1, <1>2, <1>3, <1>4, <1>5, RingMoves

\* The server starts with the one patch, the one module and nothing reported.
LEMMA ServerStarts == McpInit => ToolTypeOK /\ RingTypeOK /\ PagesInv
<1>. SUFFICES ASSUME McpInit PROVE ToolTypeOK /\ RingTypeOK /\ PagesInv
  OBVIOUS
<1>1. RingTypeOK
  BY DEF McpInit, RingTypeOK
<1>2. PagesInv
  <2>1. /\ errors = <<>> /\ outputs = <<>> /\ seq = 0 /\ dropped = 0 /\ missed = 0 /\ stream = <<>> /\ emitted = 0
        /\ cursor = [s \in Sessions |-> [b \in Buffers |-> 0]]
        /\ got = [s \in Sessions |-> [b \in Buffers |-> <<>>]]
    BY DEF McpInit
  <2>. QED
    BY <2>1 DEF PagesInv, Buffer, Whole, Numbered
<1>3. ToolTypeOK
  <2>. DEFINE ones == [k \in Declared["numbered"] |-> 1]
  <2>. DEFINE c == Settle("numbered", ones)
  <2>. DEFINE m == [patch |-> 1, def |-> "numbered", configs |-> c]
  <2>1. /\ menu \in Menus /\ modules = <<m>> /\ call = [s \in Sessions |-> Idle] /\ undone = {} /\ failures = 0
        /\ \E name \in Names : patches = <<name>> /\ files = [n \in {name} |-> 1]
    BY DEF McpInit
  <2>2. ones \in ConfigSet
    <3>1. DOMAIN ones \subseteq ConfigKey
      BY McpAssumption DEF ConfigKey
    <3>2. ones \in [DOMAIN ones -> ConfigValue]
      BY DEF ConfigValue
    <3>3. "n" \in DOMAIN ones => ones["n"] \in 0 .. 2
      OBVIOUS
    <3>. HIDE DEF ones
    <3>. QED
      BY <3>1, <3>2, <3>3, ConfigsAre
  <2>3. "n" \in DOMAIN ones /\ "numbered" \in DOMAIN Declared
    BY McpAssumption
  <2>. HIDE DEF ones
  <2>4. c \in ConfigSet /\ "n" \in DOMAIN c
    BY <2>2, <2>3, SettleMeans
  <2>. HIDE DEF c
  <2>5. m \in ModuleSet
    BY <2>3, <2>4 DEF ModuleSet
  <2>. HIDE DEF m
  <2>6. modules \in Seq(ModuleSet)
    BY <2>1, <2>5
  <2>7. patches \in Seq(Names) /\ DOMAIN files \subseteq Names /\ files \in [DOMAIN files -> DOMAIN patches]
    BY <2>1
  <2>8. call \in [Sessions -> CallSet(DOMAIN modules, DOMAIN patches)]
    BY <2>1 DEF CallSet, Idle
  <2>. QED
    BY <2>1, <2>6, <2>7, <2>8 DEF ToolTypeOK
<1>. QED
  BY <1>1, <1>2, <1>3

\* Calls, modules, files and records are of their types in every state.
THEOREM McpTypeCorrect == McpSpec => [](ToolTypeOK /\ RingTypeOK)
<1>. DEFINE I == ToolTypeOK /\ RingTypeOK /\ PagesInv
<1>1. McpInit => I
  BY ServerStarts
<1>2. I /\ [McpNext]_mcpVars => I'
  BY ToolsKeepTypes, RingKeepsTypes, PagesStay
<1>3. I => ToolTypeOK /\ RingTypeOK
  OBVIOUS
<1>. HIDE DEF I
<1>. QED
  BY <1>1, <1>2, <1>3, PTL DEF McpSpec

\* get_module_errors, get_external_outputs: whatever is pushed, evicted and
\* filtered between two polls, the cursor leaves no record behind unseen and
\* gives none twice, and no event is lost uncounted.
THEOREM PagesAreWholeHolds == McpSpec => []PagesAreWhole
<1>. DEFINE I == ToolTypeOK /\ RingTypeOK /\ PagesInv
<1>1. McpInit => I
  BY ServerStarts
<1>2. I /\ [McpNext]_mcpVars => I'
  BY ToolsKeepTypes, RingKeepsTypes, PagesStay
<1>3. I => PagesAreWhole
  <2>. SUFFICES ASSUME RingTypeOK, PagesInv PROVE PagesAreWhole
    OBVIOUS
  <2>1. ASSUME NEW s \in Sessions, NEW b \in Buffers
        PROVE  /\ \A i, j \in DOMAIN got[s][b] : i < j => got[s][b][i] < got[s][b][j]
               /\ \A r \in Range(Buffer(b)) :
                     Wants(s, b, r) => (r.seq <= cursor[s][b] <=> r.seq \in Range(got[s][b]))
    <3>1. Whole(got[s][b], cursor[s][b], s, b, Buffer(b))
      BY DEF PagesInv
    <3>2. \A r \in Range(Buffer(b)) : \E i \in DOMAIN Buffer(b) : r = Buffer(b)[i]
      BY DEF Range
    <3>. QED
      BY <3>1, <3>2 DEF Whole
  <2>. QED
    BY <2>1 DEF PagesAreWhole, PagesInv
<1>. HIDE DEF I
<1>. QED
  BY <1>1, <1>2, <1>3, PTL DEF McpSpec

-----------------------------------------------------------------------------
(* The tool calls: what half a call leaves behind.                          *)

Fitting(mod) ==
    /\ DOMAIN mod.configs = IF mod.def = "numbered" THEN Declared["numbered"] \cup Generated(mod.configs["n"])
                                                    ELSE Declared[mod.def]
    /\ DOMAIN mod.configs \cap Global[mod.def] = {}
\* What a call is about to write was read from the module, which may have
\* changed since, or been removed.
WritesFit ==
    \A s \in Sessions : call[s].step = "write" /\ Lives(call[s].module) /\ modules[call[s].module].def # "numbered"
        => DOMAIN call[s].configs \subseteq Declared[modules[call[s].module].def]
WholeInv == ModulesStayWhole /\ WritesFit

\* ModulesStayWhole says that what was undone is gone and the rest is fitting.
LEMMA WholeMeans ==
    ModulesStayWhole <=> /\ \A m \in undone : ~Lives(m)
                         /\ \A m \in DOMAIN modules : Lives(m) => Fitting(modules[m])
BY DEF ModulesStayWhole, Fitting

\* What configs_changed settles is fitting.
LEMMA SettledFits ==
    ASSUME NEW d \in DOMAIN Declared, NEW c \in ConfigSet, d = "numbered" => "n" \in DOMAIN c,
           d # "numbered" => DOMAIN c = Declared[d],
           NEW mod, mod.def = d, mod.configs = Settle(d, c)
    PROVE  Fitting(mod)
<1>1. CASE d = "numbered"
  <2>. DEFINE s == Settle(d, c)
  <2>1. s \in ConfigSet /\ DOMAIN s = Declared[d] \cup Generated(s["n"]) /\ "n" \in DOMAIN s
    BY <1>1, SettleMeans
  <2>. HIDE DEF s
  <2>2. s["n"] \in 0 .. 2
    BY <2>1, ConfigsAre
  <2>3. Declared[d] \cap Global[d] = {} /\ Generated(s["n"]) \cap Global[d] = {}
    BY <1>1, <2>2, McpAssumption, FamilyIsLocal
  <2>4. DOMAIN s \cap Global[d] = {}
    BY <2>1, <2>3
  <2>5. mod.configs = s
    BY DEF s
  <2>. QED
    BY <1>1, <2>1, <2>4, <2>5 DEF Fitting
<1>2. CASE d # "numbered"
  <2>1. mod.configs = c
    BY <1>2, SettleMeans
  <2>2. Declared[d] \cap Global[d] = {}
    BY McpAssumption
  <2>. QED
    BY <1>2, <2>1, <2>2 DEF Fitting
<1>. QED
  BY <1>1, <1>2

\* Modules that stay as they are, or go, are whole, and so is what calls that
\* stay as they are, or end, are about to write.
LEMMA WholeStays ==
    ASSUME ToolTypeOK, WholeInv, DOMAIN modules \subseteq DOMAIN modules',
           \A m \in DOMAIN modules : modules'[m] = modules[m] \/ modules'[m] = Gone,
           \A m \in DOMAIN modules' : m \in DOMAIN modules \/ Fitting(modules'[m]),
           \A m \in undone' : m \in undone \/ modules'[m] = Gone,
           \A s \in Sessions : call'[s] = call[s] \/ call'[s].step # "write" \/
               /\ call'[s].module \in DOMAIN modules
               /\ Lives(call'[s].module) /\ modules[call'[s].module].def # "numbered"
                     => DOMAIN call'[s].configs \subseteq Declared[modules[call'[s].module].def]
    PROVE  WholeInv'
<1>1. \A m \in DOMAIN modules : Lives(m)' => Lives(m) /\ modules'[m] = modules[m]
  BY DEF Lives
<1>2. \A m \in undone : m \in DOMAIN modules /\ ~Lives(m)
  BY WholeMeans DEF WholeInv, ToolTypeOK
<1>3. \A m \in undone' : ~Lives(m)'
  BY <1>1, <1>2 DEF Lives
<1>4. \A m \in DOMAIN modules : Lives(m) => Fitting(modules[m])
  BY WholeMeans DEF WholeInv
<1>5. \A m \in DOMAIN modules' : Lives(m)' => Fitting(modules'[m])
  BY <1>1, <1>4
<1>6. ModulesStayWhole'
  BY <1>3, <1>5 DEF ModulesStayWhole, Fitting
<1>7. ASSUME NEW s \in Sessions, call'[s].step = "write", NEW k, k = call'[s].module,
             k \in DOMAIN modules', modules'[k] # Gone, modules'[k].def # "numbered"
      PROVE  DOMAIN call'[s].configs \subseteq Declared[modules'[k].def]
  <2>0. k \in DOMAIN modules => Lives(k) /\ modules'[k] = modules[k]
    BY <1>1, <1>7 DEF Lives
  <2>1. CASE call'[s] = call[s]
    <3>. DEFINE c == call[s]
    <3>1. c \in CallSet(DOMAIN modules, DOMAIN patches) /\ c.step = "write"
      BY <1>7, <2>1 DEF ToolTypeOK
    <3>2. Lives(c.module) /\ modules[c.module].def # "numbered" => DOMAIN c.configs \subseteq Declared[modules[c.module].def]
      BY <3>1 DEF WholeInv, WritesFit
    <3>3. k = c.module
      BY <1>7, <2>1
    <3>. HIDE DEF c
    <3>4. c.module \in DOMAIN modules
      BY <3>1 DEF CallSet
    <3>5. DOMAIN c.configs \subseteq Declared[modules'[k].def]
      BY <1>7, <2>0, <3>2, <3>3, <3>4
    <3>. QED
      BY <2>1, <3>5 DEF c
  <2>2. CASE /\ call'[s].module \in DOMAIN modules
             /\ Lives(call'[s].module) /\ modules[call'[s].module].def # "numbered"
                   => DOMAIN call'[s].configs \subseteq Declared[modules[call'[s].module].def]
    BY <1>7, <2>0, <2>2
  <2>. QED
    BY <1>7, <2>1, <2>2
<1>8. WritesFit'
  BY <1>7 DEF WritesFit, Lives
<1>. QED
  BY <1>6, <1>8 DEF WholeInv

\* Every step leaves the modules whole.
LEMMA WholeKept == ToolTypeOK /\ WholeInv /\ [McpNext]_mcpVars => WholeInv'
<1>. SUFFICES ASSUME ToolTypeOK, WholeInv, [McpNext]_mcpVars PROVE WholeInv'
  OBVIOUS
<1>. DEFINE M == DOMAIN modules
<1>0. /\ modules \in Seq(ModuleSet) /\ M = 1 .. Len(modules) /\ Len(modules) \in Nat
      /\ undone \subseteq M
      /\ call \in [Sessions -> CallSet(M, DOMAIN patches)]
  BY DEF ToolTypeOK
<1>1. ASSUME NEW m \in M, Lives(m)
      PROVE  /\ modules[m].def \in DOMAIN Declared /\ modules[m].configs \in ConfigSet
             /\ modules[m].def = "numbered" => "n" \in DOMAIN modules[m].configs
             /\ Fitting(modules[m])
  <2>1. modules[m] \in ModuleSet /\ modules[m] # Gone
    BY <1>0, <1>1 DEF Lives
  <2>2. Fitting(modules[m])
    BY <1>1, WholeMeans DEF WholeInv
  <2>. QED
    BY <2>1, <2>2 DEF ModuleSet
\* No module changes, none is undone, and the calls do not come to write.
<1>2. ASSUME NEW s \in Sessions, NEW x, Next_(s, x) \/ UNCHANGED call, UNCHANGED <<modules, undone>>,
             \/ x.step # "write"
             \/ /\ x.module \in M
                /\ Lives(x.module) /\ modules[x.module].def # "numbered"
                      => DOMAIN x.configs \subseteq Declared[modules[x.module].def]
      PROVE  WholeInv'
  <2>1. \A t \in Sessions : call'[t] = call[t] \/ call'[t] = x
    BY <1>0, <1>2 DEF Next_
  <2>2. \A m \in M : modules'[m] = modules[m]
    BY <1>2
  <2>3. \A t \in Sessions : call'[t] = call[t] \/ call'[t].step # "write" \/
               /\ call'[t].module \in M
               /\ Lives(call'[t].module) /\ modules[call'[t].module].def # "numbered"
                     => DOMAIN call'[t].configs \subseteq Declared[modules[call'[t].module].def]
    BY <1>2, <2>1
  <2>. QED
    BY <1>2, <2>2, <2>3, WholeStays
<1>3. Idle.step # "write"
  BY DEF Idle
<1>4. ASSUME NEW s \in Sessions, NEW p \in DOMAIN patches, NEW d \in DOMAIN Declared, NEW a \in Asked, AddModule(s, p, d, a)
      PROVE  WholeInv'
  <2>. DEFINE given_   == [k \in Declared[d] |-> IF k \in DOMAIN a THEN a[k] ELSE 1]
  <2>. DEFINE m        == Len(modules) + 1
  <2>. DEFINE new      == [patch |-> p, def |-> d, configs |-> Settle(d, given_)]
  <2>. DEFINE x        == [step |-> "constructed", module |-> m, asked |-> Restrict(a, DOMAIN a \ Declared[d])]
  <2>1. /\ modules' = Append(modules, new)
        /\ call' = [call EXCEPT ![s] = Idle] \/ call' = [call EXCEPT ![s] = x]
        /\ UNCHANGED undone
    BY <1>4 DEF AddModule, Answer, Next_
  <2>2. given_ \in ConfigSet
    <3>1. a \in ConfigSet
      BY AskedTypes
    <3>2. a \in [DOMAIN a -> ConfigValue] /\ ("n" \in DOMAIN a => a["n"] \in 0 .. 2)
      BY <3>1, ConfigsAre
    <3>3. 1 \in ConfigValue /\ Declared[d] \subseteq ConfigKey
      BY DEF ConfigValue, ConfigKey
    <3>4. given_ \in [Declared[d] -> ConfigValue] /\ DOMAIN given_ = Declared[d]
      BY <3>2, <3>3
    <3>5. "n" \in DOMAIN given_ => given_["n"] \in 0 .. 2
      BY <3>2
    <3>. HIDE DEF given_
    <3>. QED
      BY <3>3, <3>4, <3>5, ConfigsAre
  <2>3. (d = "numbered" => "n" \in DOMAIN given_) /\ DOMAIN given_ = Declared[d]
    BY McpAssumption
  <2>. HIDE DEF given_
  <2>4. new.def = d /\ new.configs = Settle(d, given_)
    OBVIOUS
  <2>. HIDE DEF new
  <2>5. Fitting(new)
    BY <2>2, <2>3, <2>4, SettledFits
  <2>6. /\ DOMAIN modules' = 1 .. m /\ modules'[m] = new
        /\ \A k \in M : modules'[k] = modules[k]
    BY <1>0, <2>1
  <2>7. /\ M \subseteq DOMAIN modules'
        /\ \A k \in DOMAIN modules' : k \in M \/ Fitting(modules'[k])
    BY <1>0, <2>5, <2>6
  <2>8. x.step # "write"
    OBVIOUS
  <2>. HIDE DEF x
  <2>9. \A t \in Sessions : call'[t] = call[t] \/ call'[t].step # "write"
    BY <1>0, <1>3, <2>1, <2>8
  <2>. QED
    BY <2>1, <2>6, <2>7, <2>9, WholeStays
<1>5. ASSUME NEW s \in Sessions, Constructed(s) PROVE WholeInv'
  <2>. DEFINE m == call[s].module
  <2>. DEFINE over == Over(call[s].asked, modules[m].configs)
  <2>. DEFINE x == [step |-> "write", module |-> m, asked |-> call[s].asked, configs |-> over]
  <2>. DEFINE y == [step |-> "rollback", module |-> m]
  <2>1. m \in M /\ call[s].asked \in ConfigSet
    <3>. DEFINE c == call[s]
    <3>1. c \in CallSet(M, DOMAIN patches) /\ c.step = "constructed"
      BY <1>0, <1>5 DEF Constructed
    <3>. HIDE DEF c
    <3>2. c.module \in M /\ c.asked \in ConfigSet
      BY <3>1 DEF CallSet
    <3>. QED
      BY <3>2 DEF c
  <2>2. /\ UNCHANGED <<modules, undone>>
        /\ \/ Next_(s, y)
           \/ Lives(m) /\ Accepts(modules[m], DOMAIN call[s].asked) /\ Next_(s, x)
    BY <1>5 DEF Constructed
  <2>3. y.step # "write"
    OBVIOUS
  <2>4. ASSUME Lives(m), Accepts(modules[m], DOMAIN call[s].asked), modules[m].def # "numbered"
        PROVE  DOMAIN over \subseteq Declared[modules[m].def]
    <3>1. DOMAIN over = DOMAIN call[s].asked \cup DOMAIN modules[m].configs
      BY <1>1, <2>1, <2>4, OverTypes
    <3>2. DOMAIN modules[m].configs = Declared[modules[m].def]
      BY <1>1, <2>1, <2>4 DEF Fitting
    <3>. QED
      BY <2>4, <3>1, <3>2 DEF Accepts
  <2>5. x.module = m /\ x.configs = over
    OBVIOUS
  <2>. HIDE DEF m, over, x, y, M
  <2>6. CASE Next_(s, y)
    BY <1>2, <2>2, <2>3, <2>6
  <2>7. CASE Lives(m) /\ Accepts(modules[m], DOMAIN call[s].asked) /\ Next_(s, x)
    <3>1. x.module \in M /\ (Lives(x.module) /\ modules[x.module].def # "numbered"
                      => DOMAIN x.configs \subseteq Declared[modules[x.module].def])
      BY <2>1, <2>4, <2>5, <2>7
    <3>. QED
      BY <1>2, <2>2, <2>7, <3>1
  <2>. QED
    BY <2>2, <2>6, <2>7
<1>6. ASSUME NEW s \in Sessions, NEW m \in M, modules' = Removed(m), undone' = undone \/ undone' = undone \cup {m},
             call' = call \/ call' = [call EXCEPT ![s] = Idle]
      PROVE  WholeInv'
  <2>1. /\ DOMAIN modules' = M /\ modules'[m] = Gone
        /\ \A k \in M : modules'[k] = modules[k] \/ modules'[k] = Gone
    BY <1>0, <1>6 DEF Removed
  <2>2. \A k \in undone' : k \in undone \/ modules'[k] = Gone
    BY <1>6, <2>1
  <2>3. \A t \in Sessions : call'[t] = call[t] \/ call'[t].step # "write"
    BY <1>0, <1>3, <1>6
  <2>. QED
    BY <2>1, <2>2, <2>3, WholeStays
<1>7. ASSUME NEW s \in Sessions, Rollback(s) PROVE WholeInv'
  <2>. DEFINE c == call[s]
  <2>1. c \in CallSet(M, DOMAIN patches) /\ c.step = "rollback"
    BY <1>0, <1>7 DEF Rollback
  <2>2. modules' = Removed(c.module) /\ undone' = undone \cup {c.module} /\ call' = [call EXCEPT ![s] = Idle]
    BY <1>7 DEF Rollback, Answer
  <2>. HIDE DEF c
  <2>3. c.module \in M
    BY <2>1 DEF CallSet
  <2>. HIDE DEF M
  <2>. QED
    BY <1>6, <2>2, <2>3
<1>8. ASSUME NEW s \in Sessions, NEW m \in M, RemoveModule(s, m) PROVE WholeInv'
  <2>1. modules' = Removed(m) /\ undone' = undone /\ call' = call
    BY <1>8 DEF RemoveModule
  <2>. HIDE DEF M
  <2>. QED
    BY <1>6, <2>1
<1>9. ASSUME NEW s \in Sessions, WriteConfigs(s) PROVE WholeInv'
  <2>. DEFINE c == call[s]
  <2>. DEFINE m == c.module
  <2>. DEFINE over == Over(c.configs, modules[m].configs)
  <2>. DEFINE now == Settle(modules[m].def, over)
  <2>1. /\ c \in CallSet(M, DOMAIN patches) /\ c.step = "write"
        /\ Lives(c.module) /\ modules[c.module].def # "numbered" => DOMAIN c.configs \subseteq Declared[modules[c.module].def]
    BY <1>0, <1>9 DEF WriteConfigs, WholeInv, WritesFit
  <2>2. /\ \/ ~Lives(m) /\ UNCHANGED modules
           \/ Lives(m) /\ modules' = [modules EXCEPT ![m].configs = now]
        /\ Next_(s, Idle) /\ UNCHANGED undone
    BY <1>9 DEF WriteConfigs, Answer, Next_
  <2>. HIDE DEF c
  <2>3. m \in M /\ c.configs \in ConfigSet
    BY <2>1 DEF CallSet
  <2>. HIDE DEF m, over, now
  <2>4. CASE UNCHANGED modules
    <3>. HIDE DEF M
    <3>. QED
      BY <1>2, <1>3, <2>2, <2>4
  <2>5. CASE Lives(m) /\ modules' = [modules EXCEPT ![m].configs = now]
    <3>. DEFINE d == modules[m].def
    <3>. DEFINE new == [modules[m] EXCEPT !.configs = now]
    <3>0. /\ d \in DOMAIN Declared /\ modules[m].configs \in ConfigSet
          /\ d = "numbered" => "n" \in DOMAIN modules[m].configs
          /\ d # "numbered" => DOMAIN modules[m].configs = Declared[d]
      BY <1>1, <2>3, <2>5 DEF Fitting
    <3>1. /\ over \in ConfigSet /\ DOMAIN over = DOMAIN c.configs \cup DOMAIN modules[m].configs
      BY <2>3, <3>0, OverTypes DEF over
    <3>2. /\ d = "numbered" => "n" \in DOMAIN over
          /\ d # "numbered" => DOMAIN over = Declared[d]
      BY <2>1, <2>5, <3>0, <3>1 DEF m
    <3>3. /\ DOMAIN modules' = M /\ modules'[m] = new
          /\ \A k \in M : k # m => modules'[k] = modules[k]
      BY <1>0, <2>3, <2>5
    <3>4. new.def = d /\ new.configs = now
      <4>1. modules[m] \in ModuleSet /\ modules[m] # Gone
        BY <1>0, <2>3, <2>5 DEF Lives
      <4>2. modules[m] \in [patch : Nat, def : DOMAIN Declared, configs : ConfigSet]
        BY <4>1 DEF ModuleSet
      <4>. QED
        BY <4>2
    <3>5. now = Settle(d, over)
      BY DEF now
    <3>. HIDE DEF d, new
    <3>6. Fitting(new)
      BY <3>0, <3>1, <3>2, <3>4, <3>5, SettledFits
    <3>7. ModulesStayWhole'
      <4>1. \A k \in M : Lives(k)' => Lives(k)
        BY <2>5, <3>3 DEF Lives
      <4>2. \A k \in undone' : ~Lives(k)'
        <5>1. \A k \in undone : k \in M /\ ~Lives(k)
          BY <1>0, WholeMeans DEF WholeInv
        <5>. QED
          BY <2>2, <4>1, <5>1
      <4>3. \A k \in DOMAIN modules' : Lives(k)' => Fitting(modules'[k])
        BY <1>1, <3>3, <3>6, <4>1
      <4>. QED
        BY <4>2, <4>3 DEF ModulesStayWhole, Fitting
    <3>8. WritesFit'
      <4>1. ASSUME NEW t \in Sessions, call'[t].step = "write", NEW k, k = call'[t].module,
                   k \in DOMAIN modules', modules'[k] # Gone, modules'[k].def # "numbered"
            PROVE  DOMAIN call'[t].configs \subseteq Declared[modules'[k].def]
        <5>1. call'[t] = call[t]
          BY <1>0, <1>3, <2>2, <4>1 DEF Next_
        <5>2. Lives(k) /\ modules[k].def = modules'[k].def
          BY <2>5, <3>3, <3>4, <4>1 DEF Lives, d
        <5>. QED
          BY <4>1, <5>1, <5>2 DEF WholeInv, WritesFit
      <4>. QED
        BY <4>1 DEF WritesFit, Lives
    <3>. QED
      BY <3>7, <3>8 DEF WholeInv
  <2>. QED
    BY <2>2, <2>4, <2>5
<1>10. ASSUME NEW s \in Sessions, NEW m \in M, NEW a \in Asked, NEW t \in {"set", "update"}, ReadConfigs(s, m, a, t)
       PROVE  WholeInv'
  <2>. DEFINE cs == IF t = "set" THEN Over(a, modules[m].configs) ELSE a
  <2>. DEFINE x == [step |-> "write", module |-> m, asked |-> a, configs |-> cs]
  <2>1. /\ Lives(m) /\ Next_(s, x) /\ UNCHANGED <<modules, undone>>
        /\ Accepts(modules[m], DOMAIN a)
    BY <1>10 DEF ReadConfigs
  <2>2. a \in ConfigSet
    BY AskedTypes
  <2>3. DOMAIN cs \subseteq DOMAIN a \cup DOMAIN modules[m].configs
    BY <1>1, <2>1, <2>2, OverTypes
  <2>4. modules[m].def # "numbered" => DOMAIN cs \subseteq Declared[modules[m].def]
    BY <1>1, <2>1, <2>3 DEF Fitting, Accepts
  <2>5. x.module = m /\ x.configs = cs
    OBVIOUS
  <2>. HIDE DEF x, M, cs
  <2>. QED
    BY <1>2, <2>1, <2>4, <2>5
<1>11. ASSUME UNCHANGED <<modules, call, undone>> PROVE WholeInv'
  BY <1>11 DEF WholeInv, WritesFit, ModulesStayWhole, Lives
<1>12. ASSUME NEW s \in Sessions, NEW name \in Names, CreatePatch(s, name) PROVE WholeInv'
  BY <1>11, <1>12 DEF CreatePatch
<1>13. ASSUME NEW s \in Sessions, NEW p, NEW name, SavePatch(s, p, name) PROVE WholeInv'
  <2>. DEFINE x == [step |-> IF name = patches[p] THEN "save" ELSE "rename", patch |-> p, name |-> name, old |-> patches[p]]
  <2>1. Next_(s, x) /\ UNCHANGED <<modules, undone>> /\ x.step # "write"
    BY <1>13 DEF SavePatch
  <2>. HIDE DEF x, M
  <2>. QED
    BY <1>2, <2>1
<1>14. ASSUME NEW s \in Sessions, RenamePatch(s) \/ WriteFile(s) \/ DiskFails(s) \/ DropOld(s) PROVE WholeInv'
  <2>1. UNCHANGED <<modules, undone>>
    BY <1>14 DEF RenamePatch, WriteFile, DiskFails, DropOld
  <2>2. \/ Next_(s, Idle)
        \/ Next_(s, [call[s] EXCEPT !.step = "save"]) \/ Next_(s, [call[s] EXCEPT !.step = "drop"])
    BY <1>14 DEF RenamePatch, WriteFile, DiskFails, DropOld, Answer, Next_
  <2>3. call[s].step \in {"rename", "save", "drop"}
    BY <1>14 DEF RenamePatch, WriteFile, DiskFails, DropOld
  <2>4. \A st \in {"save", "drop"} : [call[s] EXCEPT !.step = st].step # "write"
    <3>. DEFINE c == call[s]
    <3>1. c \in CallSet(M, DOMAIN patches) /\ c.step \in {"rename", "save", "drop"}
      BY <1>0, <2>3
    <3>. HIDE DEF c, M
    <3>2. c \in [step : {"rename", "save", "drop"}, patch : DOMAIN patches, name : Names, old : Names]
      BY <3>1 DEF CallSet
    <3>3. \A st \in {"save", "drop"} : [c EXCEPT !.step = st].step = st
      BY <3>2
    <3>4. \A st \in {"save", "drop"} : [c EXCEPT !.step = st].step # "write"
      BY <3>3
    <3>. QED
      BY <3>4 DEF c
  <2>. HIDE DEF M
  <2>5. CASE Next_(s, Idle)
    BY <1>2, <1>3, <2>1, <2>5
  <2>6. ASSUME NEW st \in {"save", "drop"}, Next_(s, [call[s] EXCEPT !.step = st]) PROVE WholeInv'
    BY <1>2, <2>1, <2>4, <2>6
  <2>. QED
    BY <2>2, <2>5, <2>6
<1>15. ASSUME \/ \E s \in Sessions : \E b \in Buffers : Poll(s, b)
              \/ Report([kind |-> "output", of |-> 1]) \/ Report([kind |-> "error", of |-> 1])
              \/ CollectLag \/ Collect \/ UNCHANGED mcpVars
       PROVE  UNCHANGED <<modules, call, undone>>
  BY <1>15 DEF Poll, Report, CollectLag, Collect, mcpVars, toolVars
<1>16. ASSUME NEW s \in Sessions, RollbackFails(s) PROVE WholeInv'
  <2>1. Next_(s, Idle) /\ UNCHANGED <<modules, undone>>
    BY <1>16 DEF RollbackFails, Answer, Next_
  <2>. HIDE DEF M
  <2>. QED
    BY <1>2, <1>3, <2>1
<1>. QED
  BY <1>4, <1>5, <1>7, <1>8, <1>9, <1>10, <1>11, <1>12, <1>13, <1>14, <1>15, <1>16 DEF McpNext

-----------------------------------------------------------------------------
(* Saving a patch under another name.                                       *)

\* One session saves: save_patch is not safe against itself (README, 7).
OneSaves == \A mn \in Menus, s, t \in Sessions : "save" \in mn[s] /\ "save" \in mn[t] => s = t

Saving == {"rename", "save", "drop"}
SaverInv ==
    /\ \A s \in Sessions :
          /\ call[s].step \in Saving => "save" \in menu[s]
          /\ call[s].step = "rename" => patches[call[s].patch] = call[s].old
          /\ call[s].step = "save"   => patches[call[s].patch] = call[s].name
    /\ failures = 0 =>
          \A n \in DOMAIN files :
             \/ patches[files[n]] = n
             \/ \E s \in Sessions : /\ call[s].step \in {"save", "drop"}
                                    /\ call[s].patch = files[n] /\ call[s].old = n

\* Where every file has the patch of its name, or the one that is being saved,
\* a saved patch has moved.
LEMMA SaverMeans == ToolTypeOK /\ SaverInv => SavesMove
<1>. SUFFICES ASSUME ToolTypeOK, SaverInv, failures = 0, NEW p \in Range(files),
                     \A s \in Sessions : call[s].step \in {"save", "drop"} => call[s].patch # p
              PROVE  {n \in DOMAIN files : files[n] = p} = {patches[p]}
  BY DEF SavesMove
<1>1. PICK m \in DOMAIN files : files[m] = p
  BY DEF Range
<1>2. \A n \in DOMAIN files : files[n] = p => patches[p] = n
  BY DEF SaverInv
<1>. QED
  BY <1>1, <1>2

\* Every step leaves each file with the patch of its name, or with the one that
\* is being saved under another.
LEMMA SaverKept == OneSaves /\ ToolTypeOK /\ SaverInv /\ [McpNext]_mcpVars => SaverInv'
<1>. SUFFICES ASSUME OneSaves, ToolTypeOK, SaverInv, [McpNext]_mcpVars PROVE SaverInv'
  OBVIOUS
<1>. DEFINE P == DOMAIN patches
<1>0. /\ patches \in Seq(Names) /\ P = 1 .. Len(patches) /\ Len(patches) \in Nat
      /\ call \in [Sessions -> CallSet(DOMAIN modules, P)]
      /\ files \in [DOMAIN files -> P] /\ failures \in Nat
  BY DEF ToolTypeOK
<1>1. \A s, t \in Sessions : call[s].step \in Saving /\ "save" \in menu[t] => s = t
  BY DEF OneSaves, SaverInv, ToolTypeOK
<1>2. ASSUME NEW s \in Sessions, call[s].step \in Saving
      PROVE  /\ call[s].patch \in P
             /\ \A st \in Saving : LET c == [call[s] EXCEPT !.step = st] IN
                   c.step = st /\ c.patch = call[s].patch /\ c.name = call[s].name /\ c.old = call[s].old
  <2>. DEFINE c == call[s]
  <2>1. c \in CallSet(DOMAIN modules, P) /\ c.step \in Saving
    BY <1>0, <1>2
  <2>. HIDE DEF c, P
  <2>2. c \in [step : {"rename", "save", "drop"}, patch : P, name : Names, old : Names]
    BY <2>1 DEF CallSet, Saving
  <2>3. c.patch \in P
    BY <2>2
  <2>4. ASSUME NEW st \in Saving
        PROVE  LET e == [c EXCEPT !.step = st] IN e.step = st /\ e.patch = c.patch /\ e.name = c.name /\ e.old = c.old
    BY <2>2
  <2>. QED
    BY <2>3, <2>4 DEF c
\* Steps of no saver: patches may be added, and calls go on that save nothing.
<1>3. ASSUME UNCHANGED <<menu, files, failures>>, \A p \in P : patches'[p] = patches[p],
             \A t \in Sessions : call'[t] = call[t] \/ (call[t].step \notin Saving /\ call'[t].step \notin Saving)
      PROVE  SaverInv'
  <2>1. ASSUME NEW t \in Sessions
        PROVE  /\ call'[t].step \in Saving => "save" \in menu'[t]
               /\ call'[t].step = "rename" => patches'[call'[t].patch] = call'[t].old
               /\ call'[t].step = "save"   => patches'[call'[t].patch] = call'[t].name
    BY <1>2, <1>3 DEF SaverInv, Saving
  <2>2. ASSUME failures' = 0, NEW n \in DOMAIN files'
        PROVE  \/ patches'[files'[n]] = n
               \/ \E s \in Sessions : /\ call'[s].step \in {"save", "drop"}
                                      /\ call'[s].patch = files'[n] /\ call'[s].old = n
    <3>1. n \in DOMAIN files /\ files'[n] = files[n] /\ files[n] \in P /\ failures = 0
      BY <1>0, <1>3, <2>2
    <3>. HIDE DEF P
    <3>2. CASE patches[files[n]] = n
      BY <1>3, <3>1, <3>2
    <3>3. CASE \E s \in Sessions : call[s].step \in {"save", "drop"} /\ call[s].patch = files[n] /\ call[s].old = n
      BY <1>3, <3>1, <3>3 DEF Saving
    <3>. QED
      BY <3>1, <3>2, <3>3 DEF SaverInv
  <2>. QED
    BY <2>1, <2>2 DEF SaverInv
<1>4. ASSUME NEW s \in Sessions, NEW x, call[s].step \notin Saving, x.step \notin Saving, Next_(s, x) \/ UNCHANGED call,
             UNCHANGED <<menu, files, failures, patches>>
      PROVE  SaverInv'
  <2>1. \A t \in Sessions : call'[t] = call[t] \/ (call[t].step \notin Saving /\ call'[t].step \notin Saving)
    BY <1>0, <1>4 DEF Next_
  <2>. QED
    BY <1>3, <1>4, <2>1
<1>5. Idle.step \notin Saving
  BY DEF Idle, Saving
<1>6. ASSUME NEW s \in Sessions, NEW p, NEW d, NEW a, AddModule(s, p, d, a) PROVE SaverInv'
  <2>. DEFINE x == [step |-> "constructed", module |-> Len(modules) + 1, asked |-> Restrict(a, DOMAIN a \ Declared[d])]
  <2>1. (Next_(s, Idle) \/ Next_(s, x)) /\ UNCHANGED <<menu, files, failures, patches>> /\ call[s] = Idle
    BY <1>6 DEF AddModule, Answer, Next_, Ready
  <2>2. x.step \notin Saving
    BY DEF Saving
  <2>. HIDE DEF x
  <2>. QED
    BY <1>4, <1>5, <2>1, <2>2
<1>7. ASSUME NEW s \in Sessions, Constructed(s) PROVE SaverInv'
  <2>. DEFINE x == [step |-> "write", module |-> call[s].module, asked |-> call[s].asked,
                    configs |-> Over(call[s].asked, modules[call[s].module].configs)]
  <2>. DEFINE y == [step |-> "rollback", module |-> call[s].module]
  <2>1. (Next_(s, x) \/ Next_(s, y)) /\ UNCHANGED <<menu, files, failures, patches>> /\ call[s].step = "constructed"
    BY <1>7 DEF Constructed
  <2>2. x.step \notin Saving /\ y.step \notin Saving /\ call[s].step \notin Saving
    BY <2>1 DEF Saving
  <2>. HIDE DEF x, y
  <2>. QED
    BY <1>4, <2>1, <2>2
<1>8. ASSUME NEW s \in Sessions, Rollback(s) \/ RollbackFails(s) \/ WriteConfigs(s) PROVE SaverInv'
  <2>1. Next_(s, Idle) /\ UNCHANGED <<menu, files, failures, patches>> /\ call[s].step \notin Saving
    BY <1>8 DEF Rollback, RollbackFails, WriteConfigs, Answer, Next_, Saving
  <2>. QED
    BY <1>4, <1>5, <2>1
<1>9. ASSUME UNCHANGED <<menu, files, call, failures>>, \A p \in P : patches'[p] = patches[p] PROVE SaverInv'
  BY <1>3, <1>9
<1>10. ASSUME NEW s \in Sessions, NEW m, RemoveModule(s, m) PROVE SaverInv'
  BY <1>9, <1>10 DEF RemoveModule
<1>11. ASSUME NEW s \in Sessions, NEW m, NEW a, NEW t, ReadConfigs(s, m, a, t) PROVE SaverInv'
  <2>. DEFINE x == [step |-> "write", module |-> m, asked |-> a,
                    configs |-> IF t = "set" THEN Over(a, modules[m].configs) ELSE a]
  <2>1. Next_(s, x) /\ UNCHANGED <<menu, files, failures, patches>> /\ call[s] = Idle
    BY <1>11 DEF ReadConfigs, Ready
  <2>2. x.step \notin Saving
    BY DEF Saving
  <2>. HIDE DEF x
  <2>. QED
    BY <1>4, <1>5, <2>1, <2>2
<1>12. ASSUME NEW s \in Sessions, NEW name \in Names, CreatePatch(s, name) PROVE SaverInv'
  <2>1. patches' = Append(patches, name) /\ UNCHANGED <<menu, files, call, failures>>
    BY <1>12 DEF CreatePatch
  <2>2. \A p \in P : patches'[p] = patches[p]
    BY <1>0, <2>1
  <2>. QED
    BY <1>9, <2>1, <2>2
\* The one saver's steps: no other call saves, before or after.
<1>13. ASSUME NEW s \in Sessions, "save" \in menu[s], NEW x, Next_(s, x), UNCHANGED menu,
              x.step = "rename" => patches'[x.patch] = x.old,
              x.step = "save" => patches'[x.patch] = x.name,
              failures' = 0 => failures = 0 /\ \A n \in DOMAIN files' :
                  \/ patches'[files'[n]] = n
                  \/ x.step \in {"save", "drop"} /\ x.patch = files'[n] /\ x.old = n
       PROVE  SaverInv'
  <2>1. call'[s] = x /\ \A t \in Sessions : t # s => call'[t] = call[t] /\ call[t].step \notin Saving
    BY <1>0, <1>1, <1>13 DEF Next_
  <2>2. ASSUME NEW t \in Sessions
        PROVE  /\ call'[t].step \in Saving => "save" \in menu'[t]
               /\ call'[t].step = "rename" => patches'[call'[t].patch] = call'[t].old
               /\ call'[t].step = "save"   => patches'[call'[t].patch] = call'[t].name
    BY <1>13, <2>1 DEF Saving
  <2>. QED
    BY <1>13, <2>1, <2>2 DEF SaverInv
\* Where nothing is being saved, or about to be dropped, every file has the
\* patch of its name.
<1>14. ASSUME NEW s \in Sessions, "save" \in menu[s], call[s].step \notin {"save", "drop"}, failures = 0,
              NEW n \in DOMAIN files
       PROVE  patches[files[n]] = n
  <2>1. \A t \in Sessions : call[t].step \notin {"save", "drop"}
    BY <1>1, <1>14 DEF Saving
  <2>. QED
    BY <1>14, <2>1 DEF SaverInv
<1>15. ASSUME NEW s \in Sessions, NEW p \in P, NEW name \in Names, SavePatch(s, p, name) PROVE SaverInv'
  <2>. DEFINE x == [step |-> IF name = patches[p] THEN "save" ELSE "rename", patch |-> p, name |-> name, old |-> patches[p]]
  <2>1. Next_(s, x) /\ UNCHANGED <<menu, patches, files, failures>> /\ "save" \in menu[s] /\ call[s] = Idle
    BY <1>15 DEF SavePatch, Ready
  <2>2. /\ x.step = "rename" => patches'[x.patch] = x.old
        /\ x.step = "save" => patches'[x.patch] = x.name
    BY <2>1
  <2>. HIDE DEF x
  <2>3. call[s].step \notin {"save", "drop"}
    BY <2>1 DEF Idle
  <2>4. failures' = 0 => failures = 0 /\ \A n \in DOMAIN files' : patches'[files'[n]] = n
    BY <1>14, <2>1, <2>3
  <2>. QED
    BY <1>13, <2>1, <2>2, <2>4
<1>16. ASSUME NEW s \in Sessions, RenamePatch(s) PROVE SaverInv'
  <2>1. /\ call[s].step = "rename" /\ UNCHANGED <<menu, files, failures>>
        /\ \/ Next_(s, Idle) /\ UNCHANGED patches
           \/ /\ patches' = [patches EXCEPT ![call[s].patch] = call[s].name]
              /\ Next_(s, [call[s] EXCEPT !.step = "save"])
    BY <1>16 DEF RenamePatch, Answer, Next_
  <2>2. "save" \in menu[s] /\ call[s].patch \in P /\ patches[call[s].patch] = call[s].old
    BY <1>2, <2>1 DEF SaverInv, Saving
  <2>3. failures = 0 => \A n \in DOMAIN files : patches[files[n]] = n
    BY <1>14, <2>1, <2>2
  <2>4. CASE Next_(s, Idle) /\ UNCHANGED patches
    <3>1. failures' = 0 => failures = 0 /\ \A n \in DOMAIN files' : patches'[files'[n]] = n
      BY <2>1, <2>3, <2>4
    <3>2. Idle.step \notin {"rename", "save"}
      BY DEF Idle
    <3>. QED
      BY <1>13, <2>1, <2>2, <2>4, <3>1, <3>2
  <2>5. CASE /\ patches' = [patches EXCEPT ![call[s].patch] = call[s].name]
             /\ Next_(s, [call[s] EXCEPT !.step = "save"])
    <3>. DEFINE x == [call[s] EXCEPT !.step = "save"]
    <3>1. x.step = "save" /\ x.patch = call[s].patch /\ x.name = call[s].name /\ x.old = call[s].old
      BY <1>2, <2>1 DEF Saving
    <3>2. Next_(s, x)
      BY <2>5
    <3>. HIDE DEF x
    <3>3. patches'[x.patch] = x.name /\ \A q \in P : q # x.patch => patches'[q] = patches[q]
      BY <1>0, <2>2, <2>5, <3>1
    <3>4. ASSUME failures = 0, NEW n \in DOMAIN files
          PROVE  patches'[files[n]] = n \/ (x.patch = files[n] /\ x.old = n)
      <4>1. files[n] \in P /\ patches[files[n]] = n
        BY <1>0, <2>3, <3>4
      <4>2. CASE files[n] = x.patch
        BY <2>2, <3>1, <4>1, <4>2
      <4>3. CASE files[n] # x.patch
        BY <3>3, <4>1, <4>3
      <4>. QED
        BY <4>2, <4>3
    <3>. QED
      BY <1>13, <2>1, <2>2, <3>1, <3>2, <3>3, <3>4
  <2>. QED
    BY <2>1, <2>4, <2>5
<1>17. ASSUME NEW s \in Sessions, WriteFile(s) PROVE SaverInv'
  <2>. DEFINE c == call[s]
  <2>1. /\ c.step = "save" /\ UNCHANGED <<menu, patches, failures>>
        /\ files' = [n \in DOMAIN files \cup {c.name} |-> IF n = c.name THEN c.patch ELSE files[n]]
        /\ \/ c.old = c.name /\ Next_(s, Idle)
           \/ Next_(s, [c EXCEPT !.step = "drop"])
    BY <1>17 DEF WriteFile, Answer, Next_
  <2>2. "save" \in menu[s] /\ c.patch \in P /\ patches[c.patch] = c.name
    BY <1>2, <2>1 DEF SaverInv, Saving
  <2>3. ASSUME failures = 0, NEW n \in DOMAIN files'
        PROVE  patches[files'[n]] = n \/ (c.old # c.name /\ c.patch = files'[n] /\ c.old = n)
    <3>1. CASE n = c.name
      BY <2>1, <2>2, <3>1
    <3>2. CASE n # c.name
      <4>1. n \in DOMAIN files /\ files'[n] = files[n]
        BY <2>1, <2>3, <3>2
      <4>2. CASE patches[files[n]] = n
        BY <4>1, <4>2
      <4>3. ASSUME NEW t \in Sessions, call[t].step \in {"save", "drop"}, call[t].patch = files[n], call[t].old = n
            PROVE  c.patch = files[n] /\ c.old = n
        BY <1>1, <2>2, <4>3 DEF Saving
      <4>. QED
        BY <2>3, <3>2, <4>1, <4>2, <4>3 DEF SaverInv
    <3>. QED
      BY <3>1, <3>2
  <2>4. CASE c.old = c.name /\ Next_(s, Idle)
    <3>1. failures' = 0 => failures = 0 /\ \A n \in DOMAIN files' : patches'[files'[n]] = n
      BY <2>1, <2>3, <2>4
    <3>2. Idle.step \notin {"rename", "save"}
      BY DEF Idle
    <3>. HIDE DEF c
    <3>. QED
      BY <1>13, <2>1, <2>2, <2>4, <3>1, <3>2
  <2>5. CASE Next_(s, [c EXCEPT !.step = "drop"])
    <3>. DEFINE x == [c EXCEPT !.step = "drop"]
    <3>1. x.step = "drop" /\ x.patch = c.patch /\ x.old = c.old
      BY <1>2, <2>1 DEF Saving
    <3>2. Next_(s, x)
      BY <2>5
    <3>. HIDE DEF x
    <3>3. failures' = 0 => failures = 0 /\ \A n \in DOMAIN files' : patches'[files'[n]] = n \/ (x.patch = files'[n] /\ x.old = n)
      BY <2>1, <2>3, <3>1
    <3>. QED
      BY <1>13, <2>1, <2>2, <3>1, <3>2, <3>3
  <2>. QED
    BY <2>1, <2>4, <2>5
<1>18. ASSUME NEW s \in Sessions, DiskFails(s) PROVE SaverInv'
  <2>1. /\ call[s].step \in {"save", "drop"} /\ failures' = failures + 1 /\ Next_(s, Idle) /\ UNCHANGED menu
    BY <1>18 DEF DiskFails, Answer, Next_
  <2>2. failures' # 0 /\ "save" \in menu[s]
    BY <1>0, <2>1 DEF SaverInv, Saving
  <2>3. Idle.step \notin {"rename", "save"}
    BY DEF Idle
  <2>. QED
    BY <1>13, <2>1, <2>2, <2>3
<1>19. ASSUME NEW s \in Sessions, DropOld(s) PROVE SaverInv'
  <2>. DEFINE c == call[s]
  <2>1. /\ c.step = "drop" /\ files' = Dropped(files, c.old) /\ Next_(s, Idle) /\ UNCHANGED <<menu, patches, failures>>
    BY <1>19 DEF DropOld, Answer, Next_
  <2>2. "save" \in menu[s]
    BY <2>1 DEF SaverInv, Saving
  <2>3. DOMAIN files' = DOMAIN files \ {c.old} /\ \A n \in DOMAIN files' : files'[n] = files[n]
    BY <2>1 DEF Dropped, Restrict
  <2>4. ASSUME failures = 0, NEW n \in DOMAIN files' PROVE patches[files'[n]] = n
    <3>1. n \in DOMAIN files /\ files'[n] = files[n] /\ n # c.old
      BY <2>3
    <3>2. \A t \in Sessions : call[t].step \in {"save", "drop"} => call[t].old # n
      BY <1>1, <2>2, <3>1 DEF Saving
    <3>. QED
      BY <2>4, <3>1, <3>2 DEF SaverInv
  <2>5. Idle.step \notin {"rename", "save"}
    BY DEF Idle
  <2>6. failures' = 0 => failures = 0 /\ \A n \in DOMAIN files' : patches'[files'[n]] = n
    BY <2>1, <2>4
  <2>. HIDE DEF c
  <2>. QED
    BY <1>13, <2>1, <2>2, <2>5, <2>6
<1>20. ASSUME \/ \E s \in Sessions : \E b \in Buffers : Poll(s, b)
              \/ Report([kind |-> "output", of |-> 1]) \/ Report([kind |-> "error", of |-> 1])
              \/ CollectLag \/ Collect \/ UNCHANGED mcpVars
       PROVE  UNCHANGED <<menu, files, call, failures, patches>>
  BY <1>20 DEF Poll, Report, CollectLag, Collect, mcpVars, toolVars
<1>. QED
  BY <1>6, <1>7, <1>8, <1>9, <1>10, <1>11, <1>12, <1>15, <1>16, <1>17, <1>18, <1>19, <1>20 DEF McpNext

\* Nothing is being written or saved at first, and the first module is fitting.
LEMMA EditsStart == McpInit => WholeInv /\ SaverInv
<1>. SUFFICES ASSUME McpInit PROVE WholeInv /\ SaverInv
  OBVIOUS
<1>. DEFINE ones == [k \in Declared["numbered"] |-> 1]
<1>. DEFINE m == [patch |-> 1, def |-> "numbered", configs |-> Settle("numbered", ones)]
<1>1. /\ modules = <<m>> /\ call = [s \in Sessions |-> Idle] /\ undone = {} /\ failures = 0
      /\ \E name \in Names : patches = <<name>> /\ files = [n \in {name} |-> 1]
  BY DEF McpInit
<1>2. \A s \in Sessions : call[s].step = "idle"
  BY <1>1 DEF Idle
<1>3. Fitting(m)
  <2>1. ones \in ConfigSet
    <3>1. DOMAIN ones \subseteq ConfigKey
      BY McpAssumption DEF ConfigKey
    <3>2. ones \in [DOMAIN ones -> ConfigValue]
      BY DEF ConfigValue
    <3>3. "n" \in DOMAIN ones => ones["n"] \in 0 .. 2
      OBVIOUS
    <3>. HIDE DEF ones
    <3>. QED
      BY <3>1, <3>2, <3>3, ConfigsAre
  <2>2. "n" \in DOMAIN ones /\ "numbered" \in DOMAIN Declared
    BY McpAssumption
  <2>. HIDE DEF ones
  <2>3. m.def = "numbered" /\ m.configs = Settle("numbered", ones)
    OBVIOUS
  <2>. HIDE DEF m
  <2>. QED
    BY <2>1, <2>2, <2>3, SettledFits
<1>. HIDE DEF m
<1>4. \A k \in DOMAIN modules : modules[k] = m
  BY <1>1
<1>5. WholeInv
  BY <1>1, <1>2, <1>3, <1>4, WholeMeans DEF WholeInv, WritesFit
<1>6. SaverInv
  BY <1>1, <1>2 DEF SaverInv, Saving
<1>. QED
  BY <1>5, <1>6

\* add_module, set_module_configs, update_module_spec, remove_module: whatever
\* other sessions do between the steps of a call, a failed add_module leaves no
\* module, unless its answer says so, and no module comes to have a config that
\* is not its own.
THEOREM ModulesStayWholeHolds == McpSpec => []ModulesStayWhole
<1>1. McpInit => ToolTypeOK /\ WholeInv
  BY ServerStarts, EditsStart
<1>2. (ToolTypeOK /\ WholeInv) /\ [McpNext]_mcpVars => (ToolTypeOK /\ WholeInv)'
  BY ToolsKeepTypes, WholeKept
<1>3. WholeInv => ModulesStayWhole
  BY DEF WholeInv
<1>. QED
  BY <1>1, <1>2, <1>3, PTL DEF McpSpec

\* save_patch: a patch one session saves under another name has one file, of its
\* name, whatever other sessions create meanwhile; with the modules above, calls
\* that fail or are overtaken leave both whole, or say what they left.
THEOREM CallsLeaveWholeHolds ==
    ASSUME OneSaves PROVE McpSpec => []CallsLeaveWhole
<1>. DEFINE I == ToolTypeOK /\ WholeInv /\ SaverInv
<1>1. McpInit => I
  BY ServerStarts, EditsStart
<1>2. I /\ [McpNext]_mcpVars => I'
  BY OneSaves, ToolsKeepTypes, WholeKept, SaverKept
<1>3. I => CallsLeaveWhole
  BY SaverMeans DEF CallsLeaveWhole, WholeInv
<1>. HIDE DEF I
<1>. QED
  BY <1>1, <1>2, <1>3, PTL DEF McpSpec

-----------------------------------------------------------------------------
(* The modules that act on their own: types, and where they are.            *)

Settings == {Read(k, c)[1] : k \in DOMAIN RunConfigs, c \in UNION {RunConfigs[l] : l \in DOMAIN RunConfigs}}
TaskSet  == [runs : Settings, state : {"asleep", "awake", "sending", "done"}, aborted : BOOLEAN, detached : BOOLEAN]

\* A module with a handle, or with a value at hand, is started; the handle is
\* free while one is about to be stored.
RunTypeOK ==
    /\ module \in DOMAIN RunConfigs /\ inUse \in Settings
    /\ status \in {"Init", "Start"}
    /\ timers \in Seq(TaskSet)
    /\ handle \in Opt(DOMAIN timers)
    /\ work \in [step : {"none", "store", "emit", "queue", "sleep"}, value : Nat, timer : Nat]
    /\ arrivals \in Nat /\ stops \in Nat
    /\ handle # None => status = "Start" /\ work.step # "store"
    /\ work.step \in {"emit", "queue", "sleep"} => status = "Start"
    /\ work.step = "store" => work.timer \in DOMAIN timers

\* A task is added behind those there are.
LEMMA Spawned ==
    ASSUME NEW ts \in Seq(TaskSet), NEW x \in Settings, Spawn(ts, x)
    PROVE  /\ timers' \in Seq(TaskSet) /\ Len(timers') = Len(ts) + 1 /\ Len(ts) \in Nat
           /\ DOMAIN timers' = 1 .. Len(ts) + 1 /\ DOMAIN ts = 1 .. Len(ts)
           /\ Len(timers') \in DOMAIN timers' /\ DOMAIN ts \subseteq DOMAIN timers'
           /\ \A t \in DOMAIN ts : timers'[t] = ts[t]
           /\ \A t \in DOMAIN timers' : t \in DOMAIN ts \/ t = Len(timers')
           /\ timers'[Len(timers')] = Task(x, module = "OnStart")
<1>. DEFINE k == Task(x, module = "OnStart")
<1>1. k \in TaskSet
  BY DEF Task, TaskSet
<1>2. timers' = Append(ts, k)
  BY DEF Spawn
<1>. HIDE DEF k
<1>3. /\ timers' \in Seq(TaskSet) /\ Len(timers') = Len(ts) + 1 /\ Len(ts) \in Nat
      /\ DOMAIN timers' = 1 .. Len(ts) + 1 /\ DOMAIN ts = 1 .. Len(ts)
      /\ \A t \in 1 .. Len(ts) : timers'[t] = ts[t]
      /\ timers'[Len(ts) + 1] = k
  BY <1>1, <1>2
<1>4. \A t \in 1 .. Len(ts) + 1 : t \in 1 .. Len(ts) \/ t = Len(ts) + 1
  BY <1>3
<1>. QED
  BY <1>3, <1>4 DEF k

\* Stopping leaves the tasks where they are, the one of the handle aborted.
LEMMA AbortedMeans ==
    ASSUME RunTypeOK
    PROVE  /\ Aborted \in Seq(TaskSet) /\ DOMAIN Aborted = DOMAIN timers
           /\ \A t \in DOMAIN timers : /\ Aborted[t].state = timers[t].state /\ Aborted[t].detached = timers[t].detached
                                       /\ Aborted[t].runs = timers[t].runs
                                       /\ Aborted[t].aborted = (timers[t].aborted \/ handle = Some(t))
<1>1. timers \in [1 .. Len(timers) -> TaskSet] /\ Len(timers) \in Nat /\ DOMAIN timers = 1 .. Len(timers)
  BY DEF RunTypeOK
<1>2. \A t \in DOMAIN timers : timers[t] \in TaskSet
  BY <1>1
<1>3. \A k \in TaskSet : /\ [k EXCEPT !.aborted = TRUE] \in TaskSet
                         /\ [k EXCEPT !.aborted = TRUE].state = k.state
                         /\ [k EXCEPT !.aborted = TRUE].detached = k.detached
                         /\ [k EXCEPT !.aborted = TRUE].runs = k.runs
                         /\ [k EXCEPT !.aborted = TRUE].aborted = TRUE
                         /\ k.aborted \in BOOLEAN
  BY DEF TaskSet
<1>4. /\ DOMAIN Aborted = DOMAIN timers
      /\ \A t \in DOMAIN timers : Aborted[t] = IF handle = Some(t) THEN [timers[t] EXCEPT !.aborted = TRUE] ELSE timers[t]
  BY DEF Aborted
<1>. DEFINE a == Aborted
<1>5. a = [t \in DOMAIN a |-> a[t]]
  BY DEF Aborted
<1>. HIDE DEF a
<1>6. \A t \in DOMAIN timers : a[t] \in TaskSet
  BY <1>2, <1>3, <1>4 DEF a
<1>7. a \in Seq(TaskSet)
  <2>1. DOMAIN a = 1 .. Len(timers)
    BY <1>1, <1>4 DEF a
  <2>2. a \in [1 .. Len(timers) -> TaskSet]
    BY <1>1, <1>5, <1>6, <2>1
  <2>. QED
    BY <1>1, <2>2
<1>8. ASSUME NEW t \in DOMAIN timers
      PROVE  /\ Aborted[t].state = timers[t].state /\ Aborted[t].detached = timers[t].detached
             /\ Aborted[t].runs = timers[t].runs
             /\ Aborted[t].aborted = (timers[t].aborted \/ handle = Some(t))
  <2>1. timers[t].aborted \in BOOLEAN
    BY <1>2, <1>3
  <2>2. CASE handle = Some(t)
    <3>. DEFINE k == [timers[t] EXCEPT !.aborted = TRUE]
    <3>1. Aborted[t] = k
      BY <1>4, <2>2
    <3>2. k.state = timers[t].state /\ k.detached = timers[t].detached /\ k.runs = timers[t].runs /\ k.aborted = TRUE
      BY <1>2, <1>3
    <3>. HIDE DEF k
    <3>. QED
      BY <2>2, <3>1, <3>2
  <2>3. CASE handle # Some(t)
    BY <1>4, <2>1, <2>3
  <2>. QED
    BY <2>2, <2>3
<1>. QED
  BY <1>4, <1>7, <1>8 DEF a

\* A task comes to another state.
LEMMA TaskMoves ==
    ASSUME RunTypeOK, NEW t \in DOMAIN timers, NEW st \in {"asleep", "awake", "sending", "done"},
           timers' = [timers EXCEPT ![t].state = st]
    PROVE  /\ timers' \in Seq(TaskSet) /\ DOMAIN timers' = DOMAIN timers
           /\ timers'[t].state = st
           /\ \A u \in DOMAIN timers : /\ u # t => timers'[u] = timers[u]
                                       /\ timers'[u].aborted = timers[u].aborted
                                       /\ timers'[u].detached = timers[u].detached
                                       /\ timers'[u].runs = timers[u].runs
<1>1. timers \in [1 .. Len(timers) -> TaskSet] /\ Len(timers) \in Nat /\ DOMAIN timers = 1 .. Len(timers)
  BY DEF RunTypeOK
<1>2. timers[t] \in TaskSet
  BY <1>1
<1>. DEFINE k == [timers[t] EXCEPT !.state = st]
<1>3. k \in TaskSet /\ k.state = st /\ k.aborted = timers[t].aborted /\ k.detached = timers[t].detached /\ k.runs = timers[t].runs
  BY <1>2 DEF TaskSet
<1>4. timers' = [timers EXCEPT ![t] = k]
  OBVIOUS
<1>. HIDE DEF k
<1>5. timers' \in [1 .. Len(timers) -> TaskSet] /\ timers'[t] = k /\ \A u \in DOMAIN timers : u # t => timers'[u] = timers[u]
  BY <1>1, <1>3, <1>4
<1>6. timers' \in Seq(TaskSet) /\ DOMAIN timers' = DOMAIN timers
  BY <1>1, <1>5
<1>. QED
  BY <1>3, <1>5, <1>6

\* What the module reads is among the settings.
LEMMA ReadSettings ==
    ASSUME RunTypeOK, NEW c \in RunConfigs[module]
    PROVE  Read(module, c)[1] \in Settings
BY DEF Settings, RunTypeOK

\* Every step keeps the types.
LEMMA RunKeepsTypes == RunTypeOK /\ [RunNext]_runVars => RunTypeOK'
<1>. SUFFICES ASSUME RunTypeOK, [RunNext]_runVars PROVE RunTypeOK'
  OBVIOUS
<1>0. /\ module \in DOMAIN RunConfigs /\ inUse \in Settings /\ status \in {"Init", "Start"}
      /\ timers \in Seq(TaskSet) /\ handle \in Opt(DOMAIN timers)
      /\ work \in [step : {"none", "store", "emit", "queue", "sleep"}, value : Nat, timer : Nat]
      /\ arrivals \in Nat /\ stops \in Nat
      /\ DOMAIN timers = 1 .. Len(timers) /\ Len(timers) \in Nat
  BY DEF RunTypeOK
<1>1. /\ None \in Opt(DOMAIN timers)
      /\ AtRest \in [step : {"none", "store", "emit", "queue", "sleep"}, value : Nat, timer : Nat]
      /\ AtRest.step = "none"
      /\ \A st \in {"queue", "sleep"}, v \in Nat :
            /\ [AtRest EXCEPT !.step = st, !.value = v] \in [step : {"none", "store", "emit", "queue", "sleep"}, value : Nat, timer : Nat]
            /\ [AtRest EXCEPT !.step = st, !.value = v].step = st
  BY DEF Opt, AtRest
\* What a task may do to the handle and to what waits leaves the types.
<1>2. ASSUME UNCHANGED <<module, inUse, status, arrivals, stops, work>>,
             timers' \in Seq(TaskSet), DOMAIN timers' = DOMAIN timers, handle' = handle \/ handle' = None
      PROVE  RunTypeOK'
  <2>1. handle' \in Opt(DOMAIN timers')
    BY <1>0, <1>1, <1>2
  <2>. QED
    BY <1>2, <2>1 DEF RunTypeOK
\* A task is spawned, and its handle about to be stored.
<1>3. ASSUME NEW ts \in Seq(TaskSet), NEW x \in Settings, NEW v \in Nat, Spawn(ts, x),
             work' = [step |-> "store", value |-> v, timer |-> Len(timers')],
             handle' = None, UNCHANGED <<module, status, stops>>, inUse' \in Settings, arrivals' \in Nat
      PROVE  RunTypeOK'
  <2>1. timers' \in Seq(TaskSet) /\ Len(timers') \in DOMAIN timers' /\ Len(timers') \in Nat
    BY <1>3, Spawned
  <2>2. /\ work' \in [step : {"none", "store", "emit", "queue", "sleep"}, value : Nat, timer : Nat]
        /\ work'.step = "store" /\ work'.timer \in DOMAIN timers'
    BY <1>3, <2>1
  <2>3. None \in Opt(DOMAIN timers')
    BY DEF Opt
  <2>. QED
    BY <1>0, <1>3, <2>1, <2>2, <2>3 DEF RunTypeOK
<1>4. CASE Start
  <2>0. /\ UNCHANGED <<module, inUse, handle, arrivals, stops>> /\ status = "Init" /\ work = AtRest
        /\ \/ UNCHANGED <<status, timers, work>>
           \/ status' = "Start" /\ UNCHANGED <<timers, work>>
           \/ /\ Spawn(timers, inUse)
              /\ \/ status' = "Start" /\ UNCHANGED work
                 \/ /\ work' = [step |-> "store", value |-> 0, timer |-> Len(timers')]
                    /\ UNCHANGED status
    BY <1>4 DEF Start
  <2>1. handle = None
    BY <2>0 DEF RunTypeOK
  <2>2. CASE UNCHANGED timers /\ UNCHANGED work /\ status' \in {"Init", "Start"}
    BY <1>0, <1>1, <2>0, <2>1, <2>2 DEF RunTypeOK
  <2>3. CASE Spawn(timers, inUse) /\ status' = "Start" /\ UNCHANGED work
    <3>1. timers' \in Seq(TaskSet)
      BY <1>0, <2>3, Spawned
    <3>2. None \in Opt(DOMAIN timers')
      BY DEF Opt
    <3>. QED
      BY <1>0, <1>1, <2>0, <2>1, <2>3, <3>1, <3>2 DEF RunTypeOK
  <2>4. CASE /\ Spawn(timers, inUse) /\ UNCHANGED status
             /\ work' = [step |-> "store", value |-> 0, timer |-> Len(timers')]
    <3>1. handle' = None /\ inUse' \in Settings /\ arrivals' \in Nat
      BY <1>0, <2>0, <2>1
    <3>. QED
      BY <1>0, <1>3, <2>0, <2>4, <3>1
  <2>. QED
    BY <2>0, <2>2, <2>3, <2>4
<1>5. CASE Store
  <2>1. /\ work.step = "store" /\ handle' = Some(work.timer) /\ status' = "Start"
        /\ work' = AtRest \/ work' = [work EXCEPT !.step = "emit"]
        /\ UNCHANGED <<module, inUse, timers, arrivals, stops>>
    BY <1>5 DEF Store
  <2>2. handle' \in Opt(DOMAIN timers')
    BY <2>1 DEF RunTypeOK, Opt
  <2>3. /\ work' \in [step : {"none", "store", "emit", "queue", "sleep"}, value : Nat, timer : Nat]
        /\ work'.step \in {"none", "emit"}
    <3>1. CASE work' = AtRest
      BY <1>1, <3>1
    <3>2. CASE work' = [work EXCEPT !.step = "emit"]
      BY <1>0, <3>2
    <3>. QED
      BY <2>1, <3>1, <3>2
  <2>. QED
    BY <1>0, <2>1, <2>2, <2>3 DEF RunTypeOK
<1>6. CASE Stop
  <2>1. /\ status' = "Init" /\ work' = AtRest /\ timers' = Aborted /\ handle' = None /\ stops' = stops + 1
        /\ UNCHANGED <<module, inUse, arrivals>>
    BY <1>6 DEF Stop
  <2>2. timers' \in Seq(TaskSet) /\ handle' \in Opt(DOMAIN timers')
    BY <2>1, AbortedMeans DEF Opt
  <2>3. stops' \in Nat /\ status' \in {"Init", "Start"}
    BY <1>0, <2>1
  <2>4. work' \in [step : {"none", "store", "emit", "queue", "sleep"}, value : Nat, timer : Nat] /\ work'.step = "none"
    BY <1>1, <2>1
  <2>. QED
    BY <1>0, <2>1, <2>2, <2>3, <2>4 DEF RunTypeOK
<1>7. ASSUME NEW c \in RunConfigs[module], Reconfigure(c) PROVE RunTypeOK'
  <2>. DEFINE new == Read(module, c)
  <2>1. /\ work = AtRest /\ UNCHANGED <<module, status, arrivals, stops>>
        /\ inUse' = IF new = None THEN inUse ELSE new[1]
        /\ \/ /\ handle' = None /\ new # None
              /\ \/ Spawn(Aborted, new[1]) /\ work' = [step |-> "store", value |-> 0, timer |-> Len(timers')]
                 \/ timers' = Aborted /\ UNCHANGED work
           \/ UNCHANGED <<handle, timers, work>>
    BY <1>7 DEF Reconfigure
  <2>2. inUse' \in Settings /\ new[1] \in Settings
    BY <1>0, <2>1, ReadSettings
  <2>3. Aborted \in Seq(TaskSet) /\ DOMAIN Aborted = DOMAIN timers
    BY AbortedMeans
  <2>. HIDE DEF new
  <2>4. CASE handle' = None /\ Spawn(Aborted, new[1]) /\ work' = [step |-> "store", value |-> 0, timer |-> Len(timers')]
    BY <1>0, <1>3, <2>1, <2>2, <2>3, <2>4
  <2>5. CASE handle' = None /\ timers' = Aborted /\ UNCHANGED work
    BY <1>0, <1>1, <2>1, <2>2, <2>3, <2>5 DEF RunTypeOK
  <2>6. CASE UNCHANGED <<handle, timers, work>>
    BY <2>1, <2>2, <2>6 DEF RunTypeOK
  <2>. QED
    BY <2>1, <2>4, <2>5, <2>6
<1>8. ASSUME NEW t \in DOMAIN timers, Wake(t) \/ Check(t) \/ Tick(t) PROVE RunTypeOK'
  <2>1. /\ \E st \in {"asleep", "awake", "sending", "done"} : timers' = [timers EXCEPT ![t].state = st]
        /\ UNCHANGED <<module, inUse, status, arrivals, stops, work, handle>>
    BY <1>8 DEF Wake, Check, Tick
  <2>2. timers' \in Seq(TaskSet) /\ DOMAIN timers' = DOMAIN timers
    BY <2>1, TaskMoves
  <2>. QED
    BY <1>2, <2>1, <2>2
<1>9. ASSUME NEW t \in DOMAIN timers, ThrottleTick(t) PROVE RunTypeOK'
  <2>1. /\ handle' = handle \/ handle' = None
        /\ \E st \in {"asleep", "awake", "sending", "done"} : timers' = [timers EXCEPT ![t].state = st]
        /\ UNCHANGED <<module, inUse, status, arrivals, stops, work>>
    <3>1. /\ UNCHANGED <<module, inUse, status, arrivals, stops, work>>
          /\ \/ timers' = [timers EXCEPT ![t].state = "done"] /\ UNCHANGED handle
             \/ timers' = [timers EXCEPT ![t].state = "done"] /\ handle' = None
             \/ timers' = [timers EXCEPT ![t].state = IF timers[t].aborted THEN "done" ELSE "asleep"] /\ UNCHANGED handle
      BY <1>9 DEF ThrottleTick
    <3>. QED
      BY <3>1
  <2>2. timers' \in Seq(TaskSet) /\ DOMAIN timers' = DOMAIN timers
    BY <2>1, TaskMoves
  <2>. QED
    BY <1>2, <2>1, <2>2
<1>10. CASE ThrottleProcess
  <2>1. /\ status = "Start" /\ work = AtRest /\ arrivals' = arrivals + 1 /\ UNCHANGED <<module, inUse, status, handle, stops>>
        /\ \/ work' = [AtRest EXCEPT !.step = "queue", !.value = arrivals'] /\ UNCHANGED timers
           \/ /\ handle = None /\ Spawn(timers, inUse)
              /\ work' = [step |-> "store", value |-> arrivals', timer |-> Len(timers')]
    BY <1>10 DEF ThrottleProcess, Arrives, Working
  <2>2. arrivals' \in Nat
    BY <1>0, <2>1
  <2>3. CASE work' = [AtRest EXCEPT !.step = "queue", !.value = arrivals'] /\ UNCHANGED timers
    <3>1. work' \in [step : {"none", "store", "emit", "queue", "sleep"}, value : Nat, timer : Nat] /\ work'.step = "queue"
      BY <1>1, <2>2, <2>3
    <3>. QED
      BY <1>0, <2>1, <2>2, <2>3, <3>1 DEF RunTypeOK
  <2>4. CASE /\ handle = None /\ Spawn(timers, inUse)
             /\ work' = [step |-> "store", value |-> arrivals', timer |-> Len(timers')]
    BY <1>0, <1>3, <2>1, <2>2, <2>4
  <2>. QED
    BY <2>1, <2>3, <2>4
<1>11. CASE Queue \/ Output
  <2>1. /\ work' = AtRest /\ UNCHANGED <<module, status, inUse, handle, timers, arrivals, stops>>
    BY <1>11 DEF Queue, Output
  <2>. QED
    BY <1>1, <2>1 DEF RunTypeOK
<1>12. CASE DelayProcess
  <2>1. /\ arrivals' = arrivals + 1 /\ status = "Start" /\ work = AtRest
        /\ work' = work \/ work' = [AtRest EXCEPT !.step = "sleep", !.value = arrivals']
        /\ UNCHANGED <<module, status, inUse, handle, timers, stops>>
    BY <1>12 DEF DelayProcess, Arrives, Working
  <2>2. arrivals' \in Nat
    BY <1>0, <2>1
  <2>3. /\ work' \in [step : {"none", "store", "emit", "queue", "sleep"}, value : Nat, timer : Nat]
        /\ work'.step \in {"none", "sleep"}
    BY <1>1, <2>1, <2>2
  <2>. QED
    BY <1>0, <2>1, <2>2, <2>3 DEF RunTypeOK
<1>13. ASSUME NEW reset, AnswerInput(reset) PROVE RunTypeOK'
  <2>1. arrivals' \in Nat /\ UNCHANGED <<module, status, inUse, handle, timers, work, stops>>
    BY <1>0, <1>13 DEF AnswerInput, Arrives
  <2>. QED
    BY <2>1 DEF RunTypeOK
<1>14. CASE UNCHANGED runVars
  BY <1>14 DEF runVars, RunTypeOK
<1>. QED
  BY <1>4, <1>5, <1>6, <1>7, <1>8, <1>9, <1>10, <1>11, <1>12, <1>13, <1>14 DEF RunNext

\* A module starts at rest, with what its config says.
LEMMA RunStarts == RunInit => RunTypeOK
<1>. SUFFICES ASSUME RunInit PROVE RunTypeOK
  OBVIOUS
<1>1. module \in DOMAIN RunConfigs /\ config \in RunConfigs[module] /\ inUse = Read(module, config)[1]
  BY DEF RunInit
<1>2. inUse \in Settings
  BY <1>1 DEF Settings
<1>3. /\ status = "Init" /\ handle = None /\ timers = <<>> /\ work = AtRest /\ arrivals = 0 /\ stops = 0
  BY DEF RunInit
<1>4. timers \in Seq(TaskSet) /\ handle \in Opt(DOMAIN timers)
  BY <1>3 DEF Opt
<1>. QED
  BY <1>1, <1>2, <1>3, <1>4 DEF RunTypeOK, AtRest

-----------------------------------------------------------------------------
(* One timer.                                                               *)

\* A task that goes on is the one of the handle, or of the handle about to be
\* stored, and the module is then started.
Ticks(t, ts) == ts[t].state # "done" /\ ~ts[t].aborted /\ ~ts[t].detached
Owned(t)     == Some(t) = handle \/ (work.step = "store" /\ work.timer = t)
Applies      == module = "Throttle" => stops = 0
Settled(t, ts) == module \in {"Interval", "Schedule", "Watch"} => ts[t].runs = inUse

\* This is what OneTimer says.
LEMMA OneTimerMeans ==
    OneTimer <=> \A t \in DOMAIN timers : Ticks(t, timers) /\ Applies =>
                    Owned(t) /\ (work.step = "store" \/ status = "Start") /\ Settled(t, timers)
BY DEF OneTimer, Live, Ticks, Owned, Applies, Settled

\* Until it is stopped nothing aborts the task of a throttle, nor detaches it.
Unstopped ==
    module = "Throttle" /\ stops = 0 => \A t \in DOMAIN timers : ~timers[t].aborted /\ ~timers[t].detached

\* Every step of a throttle leaves its tasks alone, until a stop.
LEMMA UnstoppedStays == RunTypeOK /\ Unstopped /\ [RunNext]_runVars => Unstopped'
<1>. SUFFICES ASSUME RunTypeOK, Unstopped, [RunNext]_runVars, module' = "Throttle", stops' = 0,
                     NEW t \in DOMAIN timers'
              PROVE  ~timers'[t].aborted /\ ~timers'[t].detached
  BY DEF Unstopped
<1>0. stops \in Nat
  BY DEF RunTypeOK
<1>1. CASE UNCHANGED <<module, stops, timers>>
  BY <1>1 DEF Unstopped
<1>2. ASSUME UNCHANGED <<module, stops>>, Spawn(timers, inUse) PROVE ~timers'[t].aborted /\ ~timers'[t].detached
  <2>1. timers \in Seq(TaskSet) /\ inUse \in Settings
    BY DEF RunTypeOK
  <2>2. /\ t \in DOMAIN timers \/ t = Len(timers')
        /\ \A u \in DOMAIN timers : timers'[u] = timers[u]
        /\ timers'[Len(timers')] = Task(inUse, module = "OnStart")
    BY <1>2, <2>1, Spawned
  <2>3. (module = "OnStart") = FALSE
    BY <1>2
  <2>4. timers'[Len(timers')] = Task(inUse, FALSE)
    BY <2>2, <2>3, Zenon
  <2>5. ~timers'[Len(timers')].aborted /\ ~timers'[Len(timers')].detached
    BY <2>4 DEF Task
  <2>. QED
    BY <1>2, <2>2, <2>5 DEF Unstopped
<1>3. ASSUME UNCHANGED <<module, stops>>, NEW u \in DOMAIN timers, NEW st \in {"asleep", "awake", "sending", "done"},
             timers' = [timers EXCEPT ![u].state = st]
      PROVE  ~timers'[t].aborted /\ ~timers'[t].detached
  BY <1>3, TaskMoves DEF Unstopped
<1>4. CASE Start
  BY <1>1, <1>2, <1>4 DEF Start
<1>5. CASE Store
  BY <1>1, <1>5 DEF Store
<1>6. CASE Stop
  BY <1>0, <1>6 DEF Stop
<1>7. ASSUME NEW c \in RunConfigs[module], Reconfigure(c) PROVE ~timers'[t].aborted /\ ~timers'[t].detached
  <2>1. UNCHANGED <<module, stops>>
    BY <1>7 DEF Reconfigure
  <2>2. \A new : ~Restarts(new)
    BY <2>1 DEF Restarts
  <2>3. UNCHANGED timers
    BY <1>7, <2>2 DEF Reconfigure
  <2>. QED
    BY <1>1, <2>1, <2>3
<1>8. ASSUME NEW u \in DOMAIN timers, Wake(u) \/ Check(u) \/ Tick(u) PROVE ~timers'[t].aborted /\ ~timers'[t].detached
  <2>1. /\ \E st \in {"asleep", "awake", "sending", "done"} : timers' = [timers EXCEPT ![u].state = st]
        /\ UNCHANGED <<module, stops>>
    BY <1>8 DEF Wake, Check, Tick
  <2>. QED
    BY <1>3, <2>1
<1>9. ASSUME NEW u \in DOMAIN timers, ThrottleTick(u) PROVE ~timers'[t].aborted /\ ~timers'[t].detached
  <2>1. /\ UNCHANGED <<module, stops>>
        /\ \/ timers' = [timers EXCEPT ![u].state = "done"]
           \/ timers' = [timers EXCEPT ![u].state = IF timers[u].aborted THEN "done" ELSE "asleep"]
    BY <1>9 DEF ThrottleTick
  <2>2. \E st \in {"asleep", "awake", "sending", "done"} : timers' = [timers EXCEPT ![u].state = st]
    BY <2>1
  <2>. QED
    BY <1>3, <2>1, <2>2
<1>10. CASE ThrottleProcess
  BY <1>1, <1>2, <1>10 DEF ThrottleProcess
<1>11. CASE Queue \/ Output \/ DelayProcess \/ \E reset \in BOOLEAN : AnswerInput(reset)
  BY <1>1, <1>11 DEF Queue, Output, DelayProcess, AnswerInput
<1>12. CASE UNCHANGED runVars
  BY <1>1, <1>12 DEF runVars
<1>. QED
  BY <1>4, <1>5, <1>6, <1>7, <1>8, <1>9, <1>10, <1>11, <1>12 DEF RunNext

\* Every step leaves one timer.
LEMMA OneTimerStays == RunTypeOK /\ Unstopped /\ OneTimer /\ [RunNext]_runVars => OneTimer'
<1>. SUFFICES ASSUME RunTypeOK, Unstopped, OneTimer, [RunNext]_runVars PROVE OneTimer'
  OBVIOUS
<1>0. ASSUME NEW t \in DOMAIN timers, Ticks(t, timers), Applies
      PROVE  Owned(t) /\ (work.step = "store" \/ status = "Start") /\ Settled(t, timers)
  BY <1>0, OneTimerMeans
<1>. DEFINE OneStays(t) == Owned(t)' /\ (work'.step = "store" \/ status' = "Start") /\ Settled(t, timers)'
<1>1. SUFFICES ASSUME NEW t \in DOMAIN timers', Ticks(t, timers)', Applies' PROVE OneStays(t)
  BY DEF OneTimer, Live, Ticks, Owned, Applies, Settled
<1>. HIDE DEF OneStays
\* Nothing of the tasks changes.
<1>2. ASSUME UNCHANGED <<module, handle, inUse, status, stops, timers>>, work' = work \/ (work.step # "store" /\ work'.step # "store")
      PROVE  OneStays(t)
  BY <1>0, <1>1, <1>2 DEF OneStays, Ticks, Owned, Applies, Settled
\* A task is spawned where none ticks.
<1>3. ASSUME NEW ts \in Seq(TaskSet), NEW x \in Settings, Spawn(ts, x), UNCHANGED <<module, status, stops>>,
             inUse' = x, work'.step = "store", work'.timer = Len(timers'),
             Applies => \A u \in DOMAIN ts : ~Ticks(u, ts)
      PROVE  OneStays(t)
  <2>1. /\ \A u \in DOMAIN timers' : u \in DOMAIN ts \/ u = Len(timers')
        /\ \A u \in DOMAIN ts : timers'[u] = ts[u]
        /\ timers'[Len(timers')] = Task(x, module = "OnStart")
    BY <1>3, Spawned
  <2>2. t = Len(timers')
    BY <1>1, <1>3, <2>1 DEF Ticks, Applies
  <2>. QED
    BY <1>3, <2>1, <2>2 DEF OneStays, Owned, Settled, Task
<1>4. CASE Start
  <2>0. /\ UNCHANGED <<module, inUse, handle, arrivals, stops>> /\ status = "Init" /\ work = AtRest
        /\ \/ UNCHANGED <<timers, work>> /\ status' \in {"Init", "Start"}
           \/ Spawn(timers, inUse) /\ module = "OnStart" /\ UNCHANGED work
           \/ /\ Spawn(timers, inUse) /\ UNCHANGED status
              /\ work' = [step |-> "store", value |-> 0, timer |-> Len(timers')]
    BY <1>4 DEF Start
  <2>1. \A u \in DOMAIN timers : ~(Ticks(u, timers) /\ Applies)
    BY <1>0, <2>0 DEF AtRest
  <2>2. timers \in Seq(TaskSet) /\ inUse \in Settings
    BY DEF RunTypeOK
  <2>3. CASE UNCHANGED <<timers, work>>
    BY <1>1, <2>0, <2>1, <2>3 DEF Ticks, Applies
  <2>4. CASE Spawn(timers, inUse) /\ module = "OnStart"
    <3>1. /\ \A u \in DOMAIN timers' : u \in DOMAIN timers \/ u = Len(timers')
          /\ \A u \in DOMAIN timers : timers'[u] = timers[u]
          /\ timers'[Len(timers')] = Task(inUse, module = "OnStart")
      BY <2>2, <2>4, Spawned
    <3>2. (module = "OnStart") = TRUE
      BY <2>4
    <3>3. timers'[Len(timers')] = Task(inUse, TRUE)
      BY <3>1, <3>2, Zenon
    <3>4. timers'[Len(timers')].detached
      BY <3>3 DEF Task
    <3>. QED
      BY <1>1, <2>0, <2>1, <3>1, <3>4 DEF Ticks, Applies
  <2>5. CASE /\ Spawn(timers, inUse) /\ UNCHANGED status
             /\ work' = [step |-> "store", value |-> 0, timer |-> Len(timers')]
    BY <1>3, <2>0, <2>1, <2>2, <2>5
  <2>. QED
    BY <2>0, <2>3, <2>4, <2>5
<1>5. CASE Store
  <2>1. /\ work.step = "store" /\ handle' = Some(work.timer) /\ status' = "Start"
        /\ UNCHANGED <<module, inUse, timers, stops>>
    BY <1>5 DEF Store
  <2>2. handle = None
    BY <2>1 DEF RunTypeOK
  <2>. QED
    BY <1>0, <1>1, <2>1, <2>2 DEF OneStays, Ticks, Owned, Applies, Settled, None, Some
<1>6. CASE Stop
  <2>1. /\ timers' = Aborted /\ stops' = stops + 1 /\ UNCHANGED module /\ work.step # "store"
    BY <1>6 DEF Stop
  <2>2. stops' # 0 /\ stops \in Nat
    BY <2>1 DEF RunTypeOK
  <2>3. Applies
    BY <1>1, <2>1, <2>2 DEF Applies
  <2>4. t \in DOMAIN timers /\ Ticks(t, timers) /\ handle # Some(t)
    BY <1>1, <2>1, AbortedMeans DEF Ticks
  <2>. QED
    BY <1>0, <2>1, <2>3, <2>4 DEF Owned
<1>7. ASSUME NEW c \in RunConfigs[module], Reconfigure(c) PROVE OneStays(t)
  <2>. DEFINE new == Read(module, c)
  <2>1. /\ work = AtRest /\ UNCHANGED <<module, status, stops>>
        /\ inUse' = IF new = None THEN inUse ELSE new[1]
        /\ \/ /\ handle' = None /\ new # None
              /\ \/ Spawn(Aborted, new[1]) /\ work' = [step |-> "store", value |-> 0, timer |-> Len(timers')]
                 \/ timers' = Aborted /\ UNCHANGED work
           \/ UNCHANGED <<handle, timers, work>> /\ ~(new # None /\ Restarts(new[1]))
    BY <1>7 DEF Reconfigure
  <2>2. new[1] \in Settings
    BY ReadSettings
  <2>3. Aborted \in Seq(TaskSet) /\ DOMAIN Aborted = DOMAIN timers
    BY AbortedMeans
  <2>. HIDE DEF new
  <2>4. ASSUME Applies, NEW u \in DOMAIN timers PROVE ~Ticks(u, Aborted)
    <3>1. SUFFICES ASSUME Ticks(u, Aborted) PROVE FALSE
      OBVIOUS
    <3>2. Ticks(u, timers) /\ handle # Some(u)
      BY <3>1, AbortedMeans DEF Ticks
    <3>. QED
      BY <1>0, <2>1, <2>4, <3>2 DEF Owned, AtRest
  <2>5. CASE handle' = None /\ new # None /\ Spawn(Aborted, new[1]) /\ work' = [step |-> "store", value |-> 0, timer |-> Len(timers')]
    <3>1. inUse' = new[1]
      BY <2>1, <2>5
    <3>2. work'.step = "store" /\ work'.timer = Len(timers')
      BY <2>5
    <3>. QED
      BY <1>3, <2>1, <2>2, <2>3, <2>4, <2>5, <3>1, <3>2
  <2>6. CASE timers' = Aborted
    <3>1. Applies /\ t \in DOMAIN timers /\ Ticks(t, Aborted)
      BY <1>1, <2>1, <2>3, <2>6 DEF Applies, Ticks
    <3>. QED
      BY <2>4, <3>1
  <2>7. CASE UNCHANGED <<handle, timers, work>> /\ ~(new # None /\ Restarts(new[1]))
    <3>1. t \in DOMAIN timers /\ Ticks(t, timers) /\ Applies
      BY <1>1, <2>1, <2>7 DEF Ticks, Applies
    <3>2. Owned(t) /\ status = "Start" /\ Settled(t, timers)
      BY <1>0, <2>1, <3>1 DEF AtRest
    <3>3. module \in {"Interval", "Schedule", "Watch"} => inUse' = inUse
      BY <2>1, <2>7, <3>2 DEF Restarts
    <3>. QED
      BY <2>1, <2>7, <3>2, <3>3 DEF OneStays, Owned, Settled
  <2>. QED
    BY <2>1, <2>5, <2>6, <2>7
<1>8. ASSUME NEW u \in DOMAIN timers, NEW st \in {"asleep", "awake", "sending", "done"}, timers' = [timers EXCEPT ![u].state = st],
             UNCHANGED <<module, inUse, status, stops, work, handle>>,
             st = "done" \/ timers[u].state # "done"
      PROVE  OneStays(t)
  <2>1. /\ DOMAIN timers' = DOMAIN timers /\ timers'[u].state = st
        /\ \A v \in DOMAIN timers : /\ v # u => timers'[v] = timers[v]
                                    /\ timers'[v].aborted = timers[v].aborted
                                    /\ timers'[v].detached = timers[v].detached
                                    /\ timers'[v].runs = timers[v].runs
    BY <1>8, TaskMoves
  <2>2. t \in DOMAIN timers /\ Ticks(t, timers) /\ Applies
    BY <1>1, <1>8, <2>1 DEF Ticks, Applies
  <2>. QED
    BY <1>0, <1>8, <2>1, <2>2 DEF OneStays, Owned, Settled
<1>9. ASSUME NEW u \in DOMAIN timers, Wake(u) \/ Check(u) \/ Tick(u) PROVE OneStays(t)
  <2>1. /\ \E st \in {"asleep", "awake", "sending", "done"} : timers' = [timers EXCEPT ![u].state = st]
        /\ UNCHANGED <<module, inUse, status, stops, work, handle>>
        /\ timers[u].state # "done"
    BY <1>9 DEF Wake, Check, Tick
  <2>. QED
    BY <1>8, <2>1
<1>10. ASSUME NEW u \in DOMAIN timers, ThrottleTick(u) PROVE OneStays(t)
  <2>1. /\ UNCHANGED <<module, inUse, status, stops, work>> /\ module = "Throttle" /\ timers[u].state = "awake"
        /\ \/ timers' = [timers EXCEPT ![u].state = "done"] /\ UNCHANGED handle
           \/ timers' = [timers EXCEPT ![u].state = "done"] /\ handle # None /\ handle' = None
           \/ timers' = [timers EXCEPT ![u].state = IF timers[u].aborted THEN "done" ELSE "asleep"] /\ UNCHANGED handle
    BY <1>10 DEF ThrottleTick
  <2>2. CASE timers' = [timers EXCEPT ![u].state = "done"] /\ handle # None /\ handle' = None
    <3>1. /\ DOMAIN timers' = DOMAIN timers /\ timers'[u].state = "done"
          /\ \A v \in DOMAIN timers : v # u => timers'[v] = timers[v]
          /\ timers'[u].aborted = timers[u].aborted /\ timers'[u].detached = timers[u].detached
      BY <2>2, TaskMoves
    <3>2. t \in DOMAIN timers /\ t # u /\ Ticks(t, timers) /\ Applies
      BY <1>1, <2>1, <3>1 DEF Ticks, Applies
    <3>3. work.step # "store"
      BY <2>2 DEF RunTypeOK
    <3>4. handle = Some(t)
      BY <1>0, <3>2, <3>3 DEF Owned
    <3>5. ~Ticks(u, timers)
      BY <1>0, <3>2, <3>3, <3>4 DEF Owned, Some
    <3>6. Ticks(u, timers)
      BY <2>1, <3>2 DEF Ticks, Applies, Unstopped
    <3>. QED
      BY <3>5, <3>6
  <2>3. CASE timers' = [timers EXCEPT ![u].state = "done"] /\ UNCHANGED handle
    BY <1>8, <2>1, <2>3
  <2>4. CASE timers' = [timers EXCEPT ![u].state = IF timers[u].aborted THEN "done" ELSE "asleep"] /\ UNCHANGED handle
    <3>. DEFINE st == IF timers[u].aborted THEN "done" ELSE "asleep"
    <3>1. st \in {"asleep", "awake", "sending", "done"} /\ timers' = [timers EXCEPT ![u].state = st]
      BY <2>4
    <3>. HIDE DEF st
    <3>. QED
      BY <1>8, <2>1, <2>4, <3>1
  <2>. QED
    BY <2>1, <2>2, <2>3, <2>4
<1>11. CASE ThrottleProcess
  <2>1. /\ status = "Start" /\ work = AtRest /\ UNCHANGED <<module, inUse, status, handle, stops>>
        /\ \/ work' = [AtRest EXCEPT !.step = "queue", !.value = arrivals'] /\ UNCHANGED timers
           \/ /\ handle = None /\ Spawn(timers, inUse)
              /\ work' = [step |-> "store", value |-> arrivals', timer |-> Len(timers')]
    BY <1>11 DEF ThrottleProcess, Arrives, Working
  <2>2. timers \in Seq(TaskSet) /\ inUse \in Settings
    BY DEF RunTypeOK
  <2>3. CASE work' = [AtRest EXCEPT !.step = "queue", !.value = arrivals'] /\ UNCHANGED timers
    <3>1. work.step # "store" /\ work'.step # "store"
      BY <2>1, <2>3 DEF AtRest
    <3>. QED
      BY <1>2, <2>1, <2>3, <3>1
  <2>4. CASE /\ handle = None /\ Spawn(timers, inUse)
             /\ work' = [step |-> "store", value |-> arrivals', timer |-> Len(timers')]
    <3>1. Applies => \A u \in DOMAIN timers : ~Ticks(u, timers)
      BY <1>0, <2>1, <2>4 DEF Owned, AtRest, None, Some
    <3>2. inUse' = inUse /\ work'.step = "store" /\ work'.timer = Len(timers')
      BY <2>1, <2>4
    <3>. QED
      BY <1>3, <2>1, <2>2, <2>4, <3>1, <3>2
  <2>. QED
    BY <2>1, <2>3, <2>4
<1>12. CASE Queue \/ Output \/ DelayProcess \/ \E reset \in BOOLEAN : AnswerInput(reset)
  <2>1. /\ UNCHANGED <<module, handle, inUse, status, stops, timers>>
        /\ work' = work \/ (work.step # "store" /\ work'.step # "store")
    <3>1. CASE Queue
      BY <3>1 DEF Queue, AtRest
    <3>2. CASE Output
      BY <3>2 DEF Output, AtRest
    <3>3. CASE DelayProcess
      BY <3>3 DEF DelayProcess, Arrives, Working, AtRest
    <3>4. ASSUME NEW reset, AnswerInput(reset)
          PROVE  UNCHANGED <<module, handle, inUse, status, stops, timers, work>>
      BY <3>4 DEF AnswerInput, Arrives
    <3>. QED
      BY <1>12, <3>1, <3>2, <3>3, <3>4
  <2>. QED
    BY <1>2, <2>1
<1>13. CASE UNCHANGED runVars
  BY <1>2, <1>13 DEF runVars
<1>. QED
  BY <1>4, <1>5, <1>6, <1>7, <1>9, <1>10, <1>11, <1>12, <1>13 DEF RunNext

-----------------------------------------------------------------------------
(* What the throttle and the delay keep.                                    *)

Gives == [value : Nat, from : Nat \cup {"process"}]
Newest == IF work.step = "none" THEN arrivals ELSE arrivals - 1

\* The values are numbered as they come; the one at hand is the last that came.
NumberedValues ==
    /\ given \in Seq(Gives) /\ waiting \in Seq(Nat)
    /\ work.value = IF work.step = "none" THEN 0 ELSE arrivals
    /\ work.step # "none" => arrivals >= 1
    /\ \A i \in DOMAIN given : 1 <= given[i].value /\ given[i].value <= Newest
    /\ \A k \in DOMAIN waiting : 1 <= waiting[k] /\ waiting[k] <= Newest

\* The throttle never sleeps with a value, and the delay does nothing else.
StepsFit == /\ module = "Throttle" => work.step # "sleep"
            /\ module = "Delay" => work.step \in {"none", "sleep"} /\ waiting = <<>>

\* Each value comes out once and waits no more.
GivenOnce ==
    /\ \A i, j \in DOMAIN given : i # j => given[i].value # given[j].value
    /\ \A i \in DOMAIN given, k \in DOMAIN waiting : given[i].value # waiting[k]

HasRoom == module = "Throttle" => inUse.capacity \in Int /\ (inUse.capacity < 0 \/ Len(waiting) <= inUse.capacity)

\* A value that is neither out, nor at hand, nor waiting is older than all that wait.
NoneLost ==
    stops = 0 => \A v \in 1 .. arrivals :
        \/ v = work.value
        \/ \E i \in DOMAIN given : given[i].value = v
        \/ \E k \in DOMAIN waiting : waiting[k] = v
        \/ \A k \in DOMAIN waiting : v < waiting[k]

\* As long as nothing was stopped or stranded, nothing waits without a timer,
\* nor while a value is about to go out past the queue.
InTurn == stops = 0 /\ ~stranded => (handle = None \/ work.step \in {"store", "emit"} => waiting = <<>>)

GivenInOrder ==
    (stops = 0 /\ ~stranded) \/ module = "Delay" =>
        /\ \A i, j \in DOMAIN given : i < j => given[i].value < given[j].value
        /\ \A i \in DOMAIN given, k \in DOMAIN waiting : given[i].value < waiting[k]

ValueInv == module \in {"Throttle", "Delay"} =>
                /\ NumberedValues /\ StepsFit /\ GivenOnce /\ Ascends(waiting)
                /\ HasRoom /\ NoneLost /\ InTurn /\ GivenInOrder

\* The first d of a queue are gone.
LosesFirst(w, d, x) == /\ d \in 0 .. Len(w) /\ x \in Seq(Nat) /\ Len(x) = Len(w) - d
                       /\ \A k \in 1 .. Len(w) - d : x[k] = w[k + d]

\* The tail has lost the first.
LEMMA TailLosesFirst ==
    ASSUME NEW w \in Seq(Nat), w # <<>>
    PROVE  LosesFirst(w, 1, Tail(w)) /\ Len(w) \in Nat /\ Len(w) >= 1 /\ Head(w) = w[1]
BY DEF LosesFirst

\* Trimming loses the first, and leaves no more than the capacity.
LEMMA TrimmedLosesFirst ==
    ASSUME NEW w \in Seq(Nat), NEW capacity \in Int
    PROVE  \E d \in 0 .. Len(w) : /\ LosesFirst(w, d, Trimmed(w, capacity))
                                  /\ capacity < 0 \/ Len(Trimmed(w, capacity)) <= capacity
<1>0. Len(w) \in Nat
  OBVIOUS
<1>1. CASE capacity >= 0 /\ Len(w) > capacity
  <2>. DEFINE d == Len(w) - capacity
              x == SubSeq(w, d + 1, Len(w))
  <2>1. d \in 0 .. Len(w) /\ d \in Nat /\ d = Len(w) - capacity /\ Trimmed(w, capacity) = x
    BY <1>0, <1>1 DEF Trimmed
  <2>2. x \in Seq(Nat) /\ Len(x) = Len(w) - d /\ \A k \in 1 .. Len(w) - d : x[k] = w[k + d]
    <3>. HIDE DEF d
    <3>1. x = [k \in 1 .. Len(w) - d |-> w[k + d]]
      BY <1>0, <2>1
    <3>2. \A k \in 1 .. Len(w) - d : w[k + d] \in Nat
      BY <1>0, <2>1
    <3>3. x \in Seq(Nat)
      BY <1>0, <2>1
    <3>4. Len(x) = Len(w) - d
      BY <1>0, <2>1
    <3>. QED
      BY <3>1, <3>3, <3>4
  <2>. HIDE DEF d, x
  <2>3. Len(x) = capacity
    BY <1>0, <1>1, <2>1, <2>2
  <2>4. LosesFirst(w, d, x)
    BY <2>1, <2>2 DEF LosesFirst
  <2>. QED
    BY <1>1, <2>1, <2>3, <2>4
<1>2. CASE ~(capacity >= 0 /\ Len(w) > capacity)
  <2>1. Trimmed(w, capacity) = w
    BY <1>2 DEF Trimmed
  <2>2. LosesFirst(w, 0, w)
    BY <1>0 DEF LosesFirst
  <2>. QED
    BY <1>0, <1>2, <2>1, <2>2
<1>. QED
  BY <1>1, <1>2

\* A value is given out.
LEMMA GivesOut ==
    ASSUME given \in Seq(Gives), NEW v \in Nat, NEW f \in Nat \cup {"process"}, GiveOut(v, f)
    PROVE  /\ given' \in Seq(Gives) /\ Len(given) \in Nat
           /\ DOMAIN given = 1 .. Len(given) /\ DOMAIN given' = 1 .. Len(given) + 1
           /\ \A i \in 1 .. Len(given) : given'[i] = given[i]
           /\ given'[Len(given) + 1].value = v
<1>. DEFINE o == [value |-> v, from |-> f]
<1>1. o \in Gives /\ o.value = v /\ given' = Append(given, o)
  BY DEF GiveOut, Gives
<1>. HIDE DEF o
<1>. QED
  BY <1>1

\* The delay has no task, and the one of the throttle sends where it looks.
Unsent == /\ module = "Delay" => timers = <<>>
          /\ module = "Throttle" => \A t \in DOMAIN timers : timers[t].state # "sending"

\* Every step keeps the delay without a task and the throttle's from sending.
LEMMA UnsentStays == RunTypeOK /\ Unsent /\ [RunNext]_runVars => Unsent'
<1>. SUFFICES ASSUME RunTypeOK, Unsent, [RunNext]_runVars, module' \in {"Throttle", "Delay"} PROVE Unsent'
  BY DEF Unsent
<1>1. CASE UNCHANGED <<module, timers>>
  BY <1>1 DEF Unsent
<1>2. ASSUME UNCHANGED module, module = "Throttle", Spawn(timers, inUse) PROVE Unsent'
  <2>1. timers \in Seq(TaskSet) /\ inUse \in Settings
    BY DEF RunTypeOK
  <2>2. /\ \A u \in DOMAIN timers' : u \in DOMAIN timers \/ u = Len(timers')
        /\ \A u \in DOMAIN timers : timers'[u] = timers[u]
        /\ timers'[Len(timers')] = Task(inUse, module = "OnStart")
    BY <1>2, <2>1, Spawned
  <2>3. timers'[Len(timers')].state = "asleep"
    BY <2>2 DEF Task
  <2>. QED
    BY <1>2, <2>2, <2>3 DEF Unsent
<1>3. ASSUME UNCHANGED module, NEW u \in DOMAIN timers, NEW st \in {"asleep", "awake", "done"}, timers' = [timers EXCEPT ![u].state = st]
      PROVE  Unsent'
  <2>1. /\ DOMAIN timers' = DOMAIN timers /\ timers'[u].state = st
        /\ \A v \in DOMAIN timers : v # u => timers'[v] = timers[v]
    BY <1>3, TaskMoves
  <2>2. module # "Delay"
    BY <1>3 DEF Unsent
  <2>. QED
    BY <1>3, <2>1, <2>2 DEF Unsent
<1>4. CASE Start
  <2>1. UNCHANGED <<module, timers>>
    BY <1>4 DEF Start, Wanted, CannotStart
  <2>. QED
    BY <1>1, <2>1
<1>5. CASE Store
  BY <1>1, <1>5 DEF Store
<1>6. CASE Stop
  <2>1. /\ UNCHANGED module /\ timers' = Aborted
        /\ DOMAIN timers' = DOMAIN timers /\ \A t \in DOMAIN timers : timers'[t].state = timers[t].state
        /\ timers' \in Seq(TaskSet) /\ timers \in Seq(TaskSet)
    BY <1>6, AbortedMeans DEF Stop, RunTypeOK
  <2>2. timers = <<>> => timers' = <<>>
    BY <2>1
  <2>. QED
    BY <2>1, <2>2 DEF Unsent
<1>7. ASSUME NEW c \in RunConfigs[module], Reconfigure(c) PROVE Unsent'
  <2>1. UNCHANGED module
    BY <1>7 DEF Reconfigure
  <2>2. \A new : ~Restarts(new)
    BY <2>1 DEF Restarts
  <2>3. UNCHANGED timers
    BY <1>7, <2>2 DEF Reconfigure
  <2>. QED
    BY <1>1, <2>1, <2>3
<1>8. ASSUME NEW u \in DOMAIN timers, Wake(u) \/ Check(u) \/ Tick(u) PROVE Unsent'
  <2>1. UNCHANGED module /\ timers # <<>>
    BY <1>8 DEF Wake, Check, Tick
  <2>2. module = "Throttle" /\ timers[u].state # "sending"
    BY <1>8, <2>1 DEF Unsent
  <2>3. Wake(u)
    BY <1>8, <2>2 DEF Check, Tick
  <2>4. timers' = [timers EXCEPT ![u].state = "awake"]
    BY <2>3 DEF Wake
  <2>. QED
    BY <1>3, <1>8, <2>1, <2>4
<1>9. ASSUME NEW u \in DOMAIN timers, ThrottleTick(u) PROVE Unsent'
  <2>1. /\ UNCHANGED module
        /\ \/ timers' = [timers EXCEPT ![u].state = "done"]
           \/ timers' = [timers EXCEPT ![u].state = IF timers[u].aborted THEN "done" ELSE "asleep"]
    BY <1>9 DEF ThrottleTick
  <2>2. \E st \in {"asleep", "awake", "done"} : timers' = [timers EXCEPT ![u].state = st]
    BY <2>1
  <2>. QED
    BY <1>3, <2>1, <2>2
<1>10. CASE ThrottleProcess
  BY <1>1, <1>2, <1>10 DEF ThrottleProcess
<1>11. CASE Queue \/ Output \/ DelayProcess \/ \E reset \in BOOLEAN : AnswerInput(reset)
  BY <1>1, <1>11 DEF Queue, Output, DelayProcess, AnswerInput
<1>12. CASE UNCHANGED runVars
  BY <1>1, <1>12 DEF runVars
<1>. QED
  BY <1>4, <1>5, <1>6, <1>7, <1>8, <1>9, <1>10, <1>11, <1>12 DEF RunNext

\* Every step keeps what the values are known by.
LEMMA ValuesStay == RunTypeOK /\ Unsent /\ ValueInv /\ [RunNext]_runVars => ValueInv'
<1>. SUFFICES ASSUME RunTypeOK, Unsent, ValueInv, [RunNext]_runVars, module' \in {"Throttle", "Delay"} PROVE ValueInv'
  BY DEF ValueInv
<1>0. module' = module
  BY DEF RunNext, runVars, Start, Store, Stop, Reconfigure, Wake, Check, Tick, ThrottleTick, ThrottleProcess, Queue,
         DelayProcess, Output, AnswerInput
<1>1. /\ NumberedValues /\ StepsFit /\ GivenOnce /\ Ascends(waiting)
      /\ HasRoom /\ NoneLost /\ InTurn /\ GivenInOrder
      /\ arrivals \in Nat /\ stops \in Nat /\ work.step \in {"none", "store", "emit", "queue", "sleep"} /\ work.value \in Nat
  BY <1>0 DEF ValueInv, RunTypeOK
<1>2. /\ given \in Seq(Gives) /\ Len(given) \in Nat /\ DOMAIN given = 1 .. Len(given)
      /\ \A i \in DOMAIN given : given[i].value \in Nat
      /\ waiting \in Seq(Nat) /\ Len(waiting) \in Nat /\ DOMAIN waiting = 1 .. Len(waiting)
      /\ \A k \in DOMAIN waiting : waiting[k] \in Nat
  <2>1. given \in Seq(Gives) /\ waiting \in Seq(Nat)
    BY <1>1 DEF NumberedValues
  <2>2. \A i \in DOMAIN given : given[i] \in Gives
    BY <2>1
  <2>3. \A o \in Gives : o.value \in Nat
    BY DEF Gives
  <2>. QED
    BY <2>1, <2>2, <2>3
\* Nothing of the values changes, and the handle does not go.
<1>3. ASSUME UNCHANGED <<waiting, given, work, arrivals, stops, stranded, inUse>>,
             handle' = handle \/ waiting = <<>>
      PROVE  ValueInv'
  <2>1. NumberedValues' /\ GivenOnce' /\ Ascends(waiting)'
    BY <1>1, <1>3 DEF NumberedValues, GivenOnce, Newest, Ascends
  <2>2. StepsFit' /\ HasRoom' /\ NoneLost' /\ InTurn' /\ GivenInOrder'
    BY <1>0, <1>1, <1>3 DEF StepsFit, HasRoom, NoneLost, InTurn, GivenInOrder
  <2>. QED
    BY <2>1, <2>2 DEF ValueInv
\* The oldest that wait may go, whether out or lost.
<1>4. ASSUME NEW d \in 0 .. Len(waiting), LosesFirst(waiting, d, waiting')
      PROVE  /\ waiting' \in Seq(Nat) /\ DOMAIN waiting' = 1 .. Len(waiting') /\ Len(waiting') = Len(waiting) - d
             /\ \A k \in DOMAIN waiting' : k + d \in DOMAIN waiting /\ waiting'[k] = waiting[k + d]
             /\ Ascends(waiting)'
             /\ waiting = <<>> => waiting' = <<>>
             /\ \A k \in DOMAIN waiting : k <= d \/ (k - d \in DOMAIN waiting' /\ waiting'[k - d] = waiting[k])
             /\ \A k \in DOMAIN waiting : k <= d => \A l \in DOMAIN waiting' : waiting[k] < waiting'[l]
  <2>1. /\ waiting' \in Seq(Nat) /\ Len(waiting') = Len(waiting) - d
        /\ \A k \in 1 .. Len(waiting) - d : waiting'[k] = waiting[k + d]
    BY <1>4 DEF LosesFirst
  <2>2. DOMAIN waiting' = 1 .. Len(waiting) - d /\ Len(waiting') \in Nat /\ d \in Nat
    BY <1>2, <1>4, <2>1
  <2>3. \A k \in DOMAIN waiting' : k + d \in DOMAIN waiting /\ waiting'[k] = waiting[k + d]
    <3>. SUFFICES ASSUME NEW k \in 1 .. Len(waiting) - d
                  PROVE  k + d \in DOMAIN waiting /\ waiting'[k] = waiting[k + d]
      BY <2>2
    <3>1. Len(waiting) \in Nat /\ DOMAIN waiting = 1 .. Len(waiting)
      BY <1>2
    <3>2. k + d \in 1 .. Len(waiting)
      BY <2>2, <3>1
    <3>. QED
      BY <2>1, <3>1, <3>2
  <2>4. Ascends(waiting)'
    <3>. SUFFICES ASSUME NEW k \in DOMAIN waiting', NEW l \in DOMAIN waiting', k < l PROVE waiting'[k] < waiting'[l]
      BY DEF Ascends
    <3>1. k + d \in DOMAIN waiting /\ l + d \in DOMAIN waiting /\ k + d < l + d
      BY <2>2, <2>3
    <3>2. waiting[k + d] < waiting[l + d]
      BY <1>1, <3>1 DEF Ascends
    <3>. QED
      BY <2>3, <3>2
  <2>5. waiting = <<>> => waiting' = <<>>
    BY <1>2, <2>1, <2>2
  <2>6. ASSUME NEW k \in DOMAIN waiting PROVE k <= d \/ (k - d \in DOMAIN waiting' /\ waiting'[k - d] = waiting[k])
    <3>1. CASE k > d
      <4>1. k - d \in DOMAIN waiting' /\ (k - d) + d = k
        BY <1>2, <2>2, <3>1
      <4>. QED
        BY <2>3, <4>1
    <3>. QED
      BY <1>2, <2>2, <3>1
  <2>7. ASSUME NEW k \in DOMAIN waiting, k <= d, NEW l \in DOMAIN waiting' PROVE waiting[k] < waiting'[l]
    <3>1. l + d \in DOMAIN waiting /\ k < l + d
      BY <1>2, <2>2, <2>3, <2>7
    <3>2. waiting[k] < waiting[l + d]
      BY <1>1, <3>1 DEF Ascends
    <3>. QED
      BY <2>3, <3>2
  <2>. QED
    BY <2>1, <2>2, <2>3, <2>4, <2>5, <2>6, <2>7
\* A value that came is not known yet.
<1>5. /\ \A i \in DOMAIN given : given[i].value # arrivals + 1 /\ given[i].value < arrivals + 1
      /\ \A k \in DOMAIN waiting : waiting[k] # arrivals + 1 /\ waiting[k] < arrivals + 1
      /\ work.step # "none" => /\ work.value = arrivals
                               /\ \A i \in DOMAIN given : given[i].value < work.value
                               /\ \A k \in DOMAIN waiting : waiting[k] < work.value
      /\ Newest \in Int /\ Newest <= arrivals
  BY <1>1, <1>2 DEF NumberedValues, Newest
\* It goes into the queue, to a timer of its own, to sleep, or is dropped.
<1>6. ASSUME work = AtRest, arrivals' = arrivals + 1, UNCHANGED <<waiting, given, stops, stranded, inUse, handle>>,
             \/ work'.step # "none" /\ work'.value = arrivals'
             \/ module = "Delay" /\ work' = work,
             module = "Throttle" => work'.step # "sleep" /\ (work'.step = "store" => handle = None) /\ work'.step # "emit",
             module = "Delay" => work'.step \in {"none", "sleep"}
      PROVE  ValueInv'
  <2>1. work.step = "none" /\ work.value = 0 /\ Newest = arrivals
    BY <1>6 DEF AtRest, Newest
  <2>2. Newest' = arrivals \/ Newest' = arrivals + 1
    BY <1>1, <1>6 DEF Newest
  <2>3. NumberedValues'
    <3>1. \A i \in DOMAIN given : 1 <= given[i].value /\ given[i].value <= arrivals
      BY <1>1, <2>1 DEF NumberedValues
    <3>2. \A k \in DOMAIN waiting : 1 <= waiting[k] /\ waiting[k] <= arrivals
      BY <1>1, <2>1 DEF NumberedValues
    <3>3. /\ \A i \in DOMAIN given : 1 <= given[i].value /\ given[i].value <= Newest'
          /\ \A k \in DOMAIN waiting : 1 <= waiting[k] /\ waiting[k] <= Newest'
      BY <1>1, <1>2, <2>2, <3>1, <3>2
    <3>4. /\ work'.value = IF work'.step = "none" THEN 0 ELSE arrivals'
          /\ work'.step # "none" => arrivals' >= 1
      BY <1>1, <1>6, <2>1
    <3>. QED
      BY <1>2, <1>6, <3>3, <3>4 DEF NumberedValues
  <2>4. GivenOnce' /\ Ascends(waiting)' /\ HasRoom' /\ GivenInOrder' /\ StepsFit'
    BY <1>0, <1>1, <1>6 DEF GivenOnce, Ascends, HasRoom, GivenInOrder, StepsFit
  <2>5. NoneLost'
    <3>. SUFFICES ASSUME stops = 0, NEW v \in 1 .. arrivals + 1
                  PROVE  \/ v = work'.value
                         \/ \E i \in DOMAIN given : given[i].value = v
                         \/ \E k \in DOMAIN waiting : waiting[k] = v
                         \/ \A k \in DOMAIN waiting : v < waiting[k]
      BY <1>6 DEF NoneLost
    <3>1. CASE v = arrivals + 1 /\ work'.value = arrivals'
      BY <1>6, <3>1
    <3>2. CASE module = "Delay"
      BY <1>1, <3>2 DEF StepsFit
    <3>3. CASE v # arrivals + 1
      <4>1. v \in 1 .. arrivals /\ v # work.value
        BY <1>1, <2>1, <3>3
      <4>. QED
        BY <1>1, <4>1 DEF NoneLost
    <3>. QED
      BY <1>6, <3>1, <3>2, <3>3
  <2>6. InTurn'
    BY <1>0, <1>1, <1>6 DEF InTurn, StepsFit
  <2>. QED
    BY <2>3, <2>4, <2>5, <2>6 DEF ValueInv
<1>7. CASE Start
  BY <1>3, <1>7 DEF Start, Wanted, CannotStart
<1>8. CASE Store
  <2>1. /\ work.step = "store" /\ handle' = Some(work.timer)
        /\ work' = IF work.value = 0 THEN AtRest ELSE [work EXCEPT !.step = "emit"]
        /\ UNCHANGED <<inUse, waiting, arrivals, stops, stranded, given>>
    BY <1>8 DEF Store
  <2>2. work.value = arrivals /\ arrivals >= 1 /\ module = "Throttle"
    BY <1>0, <1>1, <2>1 DEF NumberedValues, StepsFit
  <2>3. work'.step = "emit" /\ work'.value = work.value
    <3>1. work \in [step : {"none", "store", "emit", "queue", "sleep"}, value : Nat, timer : Nat]
      BY DEF RunTypeOK
    <3>. QED
      BY <1>1, <2>1, <2>2, <3>1
  <2>4. NumberedValues' /\ GivenOnce' /\ Ascends(waiting)'
    BY <1>1, <2>1, <2>2, <2>3 DEF NumberedValues, GivenOnce, Newest, Ascends
  <2>5. StepsFit' /\ HasRoom' /\ NoneLost' /\ GivenInOrder'
    BY <1>0, <1>1, <2>1, <2>2, <2>3 DEF StepsFit, HasRoom, NoneLost, GivenInOrder
  <2>6. InTurn'
    BY <1>1, <2>1, <2>3 DEF InTurn
  <2>. QED
    BY <2>4, <2>5, <2>6 DEF ValueInv
<1>9. CASE Stop
  <2>1. work' = AtRest /\ stops' = stops + 1 /\ UNCHANGED <<inUse, waiting, arrivals, stranded, given>>
    BY <1>9 DEF Stop
  <2>2. stops' # 0 /\ work'.step = "none" /\ work'.value = 0 /\ Newest' = arrivals
    BY <1>1, <2>1 DEF AtRest, Newest
  <2>3. NumberedValues'
    <3>1. /\ \A i \in DOMAIN given : 1 <= given[i].value /\ given[i].value <= Newest
          /\ \A k \in DOMAIN waiting : 1 <= waiting[k] /\ waiting[k] <= Newest
      BY <1>1 DEF NumberedValues
    <3>2. /\ \A i \in DOMAIN given : 1 <= given[i].value /\ given[i].value <= arrivals
          /\ \A k \in DOMAIN waiting : 1 <= waiting[k] /\ waiting[k] <= arrivals
      BY <1>1, <1>2, <1>5, <3>1
    <3>. QED
      BY <1>2, <2>1, <2>2, <3>2 DEF NumberedValues
  <2>4. GivenOnce' /\ Ascends(waiting)' /\ StepsFit' /\ HasRoom' /\ NoneLost' /\ InTurn' /\ GivenInOrder'
    BY <1>0, <1>1, <2>1, <2>2 DEF GivenOnce, Ascends, StepsFit, HasRoom, NoneLost, InTurn, GivenInOrder
  <2>. QED
    BY <2>3, <2>4 DEF ValueInv
\* The oldest that wait make room.
<1>10. ASSUME NEW d \in 0 .. Len(waiting), LosesFirst(waiting, d, waiting'), UNCHANGED <<given, work, arrivals, stops, stranded>>,
              handle' = handle \/ waiting' = <<>>, HasRoom'
       PROVE  ValueInv'
  <2>. DEFINE w == waiting'
  <2>1. /\ w \in Seq(Nat) /\ DOMAIN w = 1 .. Len(w)
        /\ \A k \in DOMAIN w : k + d \in DOMAIN waiting /\ w[k] = waiting[k + d]
        /\ Ascends(waiting)'
        /\ waiting = <<>> => w = <<>>
        /\ \A k \in DOMAIN waiting : k <= d \/ (k - d \in DOMAIN w /\ w[k - d] = waiting[k])
        /\ \A k \in DOMAIN waiting : k <= d => \A l \in DOMAIN w : waiting[k] < w[l]
    BY <1>4, <1>10
  <2>. HIDE DEF w
  <2>2. NumberedValues'
    BY <1>1, <1>10, <2>1 DEF NumberedValues, Newest, w
  <2>3. GivenOnce'
    BY <1>1, <1>10, <2>1 DEF GivenOnce, w
  <2>4. NoneLost'
    <3>. SUFFICES ASSUME stops = 0, NEW v \in 1 .. arrivals
                  PROVE  \/ v = work.value
                         \/ \E i \in DOMAIN given : given[i].value = v
                         \/ \E k \in DOMAIN w : w[k] = v
                         \/ \A k \in DOMAIN w : v < w[k]
      BY <1>10 DEF NoneLost, w
    <3>1. \/ v = work.value
          \/ \E i \in DOMAIN given : given[i].value = v
          \/ \E k \in DOMAIN waiting : waiting[k] = v
          \/ \A k \in DOMAIN waiting : v < waiting[k]
      BY <1>1 DEF NoneLost
    <3>2. ASSUME NEW k \in DOMAIN waiting, waiting[k] = v PROVE (\E l \in DOMAIN w : w[l] = v) \/ \A l \in DOMAIN w : v < w[l]
      BY <2>1, <3>2
    <3>3. ASSUME \A k \in DOMAIN waiting : v < waiting[k] PROVE \A k \in DOMAIN w : v < w[k]
      BY <2>1, <3>3
    <3>. QED
      BY <3>1, <3>2, <3>3
  <2>5. InTurn'
    BY <1>1, <1>10, <2>1 DEF InTurn, w
  <2>6. GivenInOrder' /\ StepsFit'
    BY <1>0, <1>1, <1>10, <2>1 DEF GivenInOrder, StepsFit, w
  <2>. QED
    BY <1>10, <2>1, <2>2, <2>3, <2>4, <2>5, <2>6 DEF ValueInv
<1>11. ASSUME NEW c \in RunConfigs[module], Reconfigure(c) PROVE ValueInv'
  <2>. DEFINE new == Read(module, c)
  <2>1. /\ \A x : ~Restarts(x)
        /\ module # "Input"
    BY <1>0 DEF Restarts
  <2>2. /\ UNCHANGED <<handle, work, given, arrivals, stops, stranded>>
        /\ inUse' = IF new = None THEN inUse ELSE new[1]
        /\ waiting' = IF module = "Throttle" /\ new # None THEN Trimmed(waiting, c.capacity) ELSE waiting
    BY <1>11, <2>1 DEF Reconfigure
  <2>3. CASE module = "Throttle" /\ new # None
    <3>1. c.capacity \in Int /\ new[1].capacity = c.capacity
      <4>1. c \in [every : {c.every}, capacity : Int] /\ module \in DOMAIN RunConfigs
        BY <2>3, RunAssumption DEF RunTypeOK
      <4>. DEFINE ms == ParseDuration(c.every)
      <4>2. new = IF ms = None THEN None ELSE Some([c EXCEPT !.every = ms[1]])
        BY <2>3 DEF Read
      <4>. HIDE DEF new, ms
      <4>3. new = Some([c EXCEPT !.every = ms[1]])
        BY <2>3, <4>2
      <4>4. new[1] = [c EXCEPT !.every = ms[1]]
        BY <4>3 DEF Some
      <4>. QED
        BY <4>1, <4>4
    <3>. HIDE DEF new
    <3>2. PICK d \in 0 .. Len(waiting) : /\ LosesFirst(waiting, d, Trimmed(waiting, c.capacity))
                                         /\ c.capacity < 0 \/ Len(Trimmed(waiting, c.capacity)) <= c.capacity
      BY <1>2, <3>1, TrimmedLosesFirst
    <3>3. waiting' = Trimmed(waiting, c.capacity) /\ inUse' = new[1]
      BY <2>2, <2>3
    <3>4. HasRoom' /\ LosesFirst(waiting, d, waiting')
      BY <3>1, <3>2, <3>3 DEF HasRoom
    <3>. QED
      BY <1>10, <2>2, <3>4
  <2>4. CASE ~(module = "Throttle" /\ new # None)
    <3>. HIDE DEF new
    <3>1. LosesFirst(waiting, 0, waiting')
      BY <1>2, <2>2, <2>4 DEF LosesFirst
    <3>2. HasRoom'
      BY <1>0, <1>1, <2>2, <2>4 DEF HasRoom
    <3>. QED
      BY <1>2, <1>10, <2>2, <3>1, <3>2
  <2>. QED
    BY <2>3, <2>4
<1>12. ASSUME NEW t \in DOMAIN timers, Wake(t) \/ Check(t) \/ Tick(t) PROVE ValueInv'
  <2>1. timers # <<>>
    BY <1>12
  <2>2. ~Tick(t)
    BY <1>0, <2>1 DEF Unsent, Tick
  <2>. QED
    BY <1>3, <1>12, <2>2 DEF Wake, Check
\* A value comes out; it is above all that came out in turn.
<1>13. ASSUME NEW v \in Nat, NEW f \in Nat \cup {"process"}, GiveOut(v, f), \A i \in DOMAIN given : given[i].value # v,
              \A k \in DOMAIN waiting' : waiting'[k] # v,
              1 <= v, v <= Newest'
       PROVE  /\ given' \in Seq(Gives)
              /\ (\A i \in DOMAIN given : 1 <= given[i].value /\ given[i].value <= Newest') =>
                    \A i \in DOMAIN given' : 1 <= given'[i].value /\ given'[i].value <= Newest'
              /\ \A i, j \in DOMAIN given' : i # j => given'[i].value # given'[j].value
              /\ \E i \in DOMAIN given' : given'[i].value = v
              /\ \A i \in DOMAIN given : \E j \in DOMAIN given' : given'[j].value = given[i].value
              /\ \A i \in DOMAIN given' : given'[i].value = v \/ \E j \in DOMAIN given : given'[i].value = given[j].value
              /\ (\A i, j \in DOMAIN given : i < j => given[i].value < given[j].value) /\ (\A i \in DOMAIN given : given[i].value < v)
                    => \A i, j \in DOMAIN given' : i < j => given'[i].value < given'[j].value
  <2>1. /\ given' \in Seq(Gives)
        /\ DOMAIN given' = 1 .. Len(given) + 1
        /\ \A i \in 1 .. Len(given) : given'[i] = given[i]
        /\ given'[Len(given) + 1].value = v
    BY <1>2, <1>13, GivesOut
  <2>2. \A i \in DOMAIN given' : i \in DOMAIN given \/ i = Len(given) + 1
    BY <1>2, <2>1
  <2>3. \A i \in DOMAIN given : i \in DOMAIN given' /\ i < Len(given) + 1 /\ Len(given) + 1 \in DOMAIN given'
    BY <1>2, <2>1
  <2>4. Len(given) + 1 \in DOMAIN given'
    BY <1>2, <2>1
  <2>5. \A i, j \in DOMAIN given' : i # j => given'[i].value # given'[j].value
    <3>1. \A i, j \in DOMAIN given : i # j => given[i].value # given[j].value
      BY <1>1 DEF GivenOnce
    <3>. QED
      BY <1>2, <1>13, <2>1, <2>2, <3>1
  <2>6. (\A i \in DOMAIN given : 1 <= given[i].value /\ given[i].value <= Newest') =>
            \A i \in DOMAIN given' : 1 <= given'[i].value /\ given'[i].value <= Newest'
    BY <1>2, <1>13, <2>1, <2>2
  <2>7. (\A i, j \in DOMAIN given : i < j => given[i].value < given[j].value) /\ (\A i \in DOMAIN given : given[i].value < v)
            => \A i, j \in DOMAIN given' : i < j => given'[i].value < given'[j].value
    BY <1>2, <2>1, <2>2
  <2>8. \A i \in DOMAIN given : \E j \in DOMAIN given' : given'[j].value = given[i].value
    BY <1>2, <2>1, <2>3
  <2>9. \A i \in DOMAIN given' : given'[i].value = v \/ \E j \in DOMAIN given : given'[i].value = given[j].value
    BY <1>2, <2>1, <2>2
  <2>. QED
    BY <2>1, <2>4, <2>5, <2>6, <2>7, <2>8, <2>9
<1>14. CASE Output
  <2>1. /\ work.step \in {"emit", "sleep"} /\ GiveOut(work.value, "process") /\ work' = AtRest
        /\ UNCHANGED <<inUse, handle, waiting, arrivals, stops, stranded>>
    BY <1>14 DEF Output
  <2>2. work'.step = "none" /\ work'.value = 0 /\ Newest' = arrivals /\ work.value = arrivals /\ arrivals >= 1 /\ Newest = arrivals - 1
    BY <1>1, <2>1 DEF AtRest, Newest, NumberedValues
  <2>3. /\ \A i \in DOMAIN given : 1 <= given[i].value /\ given[i].value <= arrivals /\ given[i].value # work.value
                                   /\ given[i].value < work.value
        /\ \A k \in DOMAIN waiting : 1 <= waiting[k] /\ waiting[k] <= arrivals /\ waiting[k] # work.value
    BY <1>1, <1>2, <1>5, <2>1, <2>2 DEF NumberedValues
  <2>4. /\ given' \in Seq(Gives)
        /\ \A i \in DOMAIN given' : 1 <= given'[i].value /\ given'[i].value <= arrivals
        /\ \A i, j \in DOMAIN given' : i # j => given'[i].value # given'[j].value
        /\ \E i \in DOMAIN given' : given'[i].value = work.value
        /\ \A i \in DOMAIN given : \E j \in DOMAIN given' : given'[j].value = given[i].value
        /\ \A i \in DOMAIN given' : given'[i].value = work.value \/ \E j \in DOMAIN given : given'[i].value = given[j].value
        /\ (\A i, j \in DOMAIN given : i < j => given[i].value < given[j].value)
              => \A i, j \in DOMAIN given' : i < j => given'[i].value < given'[j].value
    <3>. DEFINE h == work.value
    <3>1. /\ h \in Nat /\ "process" \in Nat \cup {"process"} /\ GiveOut(h, "process")
          /\ \A i \in DOMAIN given : given[i].value # h /\ given[i].value < h
          /\ \A k \in DOMAIN waiting' : waiting'[k] # h
          /\ 1 <= h /\ h <= Newest'
      BY <1>1, <2>1, <2>2, <2>3
    <3>2. \A i \in DOMAIN given : 1 <= given[i].value /\ given[i].value <= Newest'
      BY <2>2, <2>3
    <3>3. Newest' = arrivals
      BY <2>2
    <3>. HIDE DEF h
    <3>4. /\ given' \in Seq(Gives)
          /\ (\A i \in DOMAIN given : 1 <= given[i].value /\ given[i].value <= Newest') =>
                \A i \in DOMAIN given' : 1 <= given'[i].value /\ given'[i].value <= Newest'
          /\ \A i, j \in DOMAIN given' : i # j => given'[i].value # given'[j].value
          /\ \E i \in DOMAIN given' : given'[i].value = h
          /\ \A i \in DOMAIN given : \E j \in DOMAIN given' : given'[j].value = given[i].value
          /\ \A i \in DOMAIN given' : given'[i].value = h \/ \E j \in DOMAIN given : given'[i].value = given[j].value
          /\ (\A i, j \in DOMAIN given : i < j => given[i].value < given[j].value) /\ (\A i \in DOMAIN given : given[i].value < h)
                => \A i, j \in DOMAIN given' : i < j => given'[i].value < given'[j].value
      BY <1>13, <3>1
    <3>. QED
      BY <3>1, <3>2, <3>3, <3>4 DEF h
  <2>5. NumberedValues'
    BY <1>1, <1>2, <2>1, <2>2, <2>3, <2>4 DEF NumberedValues
  <2>6. GivenOnce'
    BY <1>1, <2>1, <2>3, <2>4 DEF GivenOnce
  <2>7. NoneLost'
    <3>. SUFFICES ASSUME stops = 0, NEW v \in 1 .. arrivals
                  PROVE  \/ \E i \in DOMAIN given' : given'[i].value = v
                         \/ \E k \in DOMAIN waiting : waiting[k] = v
                         \/ \A k \in DOMAIN waiting : v < waiting[k]
      BY <2>1 DEF NoneLost
    <3>. QED
      BY <1>1, <2>4 DEF NoneLost
  <2>8. InTurn' /\ StepsFit' /\ HasRoom'
    BY <1>0, <1>1, <2>1, <2>2 DEF InTurn, StepsFit, HasRoom
  <2>9. GivenInOrder'
    <3>. SUFFICES ASSUME (stops = 0 /\ ~stranded) \/ module = "Delay"
                  PROVE  /\ \A i, j \in DOMAIN given' : i < j => given'[i].value < given'[j].value
                         /\ waiting = <<>>
      BY <1>0, <1>2, <2>1 DEF GivenInOrder
    <3>1. waiting = <<>>
      BY <1>0, <1>1, <2>1 DEF InTurn, StepsFit
    <3>2. \A i, j \in DOMAIN given : i < j => given[i].value < given[j].value
      BY <1>1 DEF GivenInOrder
    <3>. QED
      BY <2>4, <3>1, <3>2
  <2>. QED
    BY <1>1, <2>1, <2>5, <2>6, <2>7, <2>8, <2>9 DEF ValueInv, Ascends
<1>15. ASSUME NEW t \in DOMAIN timers, ThrottleTick(t) PROVE ValueInv'
  <2>1. /\ module = "Throttle" /\ UNCHANGED <<inUse, work, arrivals, stops, stranded>>
        /\ \/ UNCHANGED <<handle, waiting, given>>
           \/ waiting = <<>> /\ waiting' = <<>> /\ handle' = None /\ UNCHANGED given
           \/ /\ waiting # <<>> /\ GiveOut(Head(waiting), t) /\ waiting' = Tail(waiting)
              /\ (waiting' = <<>> /\ handle' = None) \/ UNCHANGED handle
              /\ handle # None
    BY <1>15 DEF ThrottleTick
  <2>2. CASE UNCHANGED <<handle, waiting, given>>
    BY <1>3, <2>1, <2>2
  <2>3. CASE waiting = <<>> /\ waiting' = <<>> /\ handle' = None /\ UNCHANGED given
    BY <1>3, <2>1, <2>3
  <2>4. CASE /\ waiting # <<>> /\ GiveOut(Head(waiting), t) /\ waiting' = Tail(waiting)
             /\ (waiting' = <<>> /\ handle' = None) \/ UNCHANGED handle
    <3>. DEFINE h == Head(waiting)
    <3>1. /\ LosesFirst(waiting, 1, waiting') /\ Len(waiting) >= 1 /\ h = waiting[1]
          /\ 1 \in DOMAIN waiting /\ 1 \in 0 .. Len(waiting) /\ h \in Nat
      BY <1>2, <2>4, TailLosesFirst
    <3>2. /\ waiting' \in Seq(Nat) /\ DOMAIN waiting' = 1 .. Len(waiting') /\ Len(waiting') = Len(waiting) - 1
          /\ \A k \in DOMAIN waiting' : k + 1 \in DOMAIN waiting /\ waiting'[k] = waiting[k + 1]
          /\ Ascends(waiting)'
          /\ \A k \in DOMAIN waiting : k <= 1 \/ (k - 1 \in DOMAIN waiting' /\ waiting'[k - 1] = waiting[k])
          /\ \A k \in DOMAIN waiting : k <= 1 => \A l \in DOMAIN waiting' : waiting[k] < waiting'[l]
      BY <1>4, <3>1
    <3>. DEFINE w == waiting'
    <3>. HIDE DEF h, w
    <3>3. /\ \A k \in DOMAIN waiting : waiting[k] = h \/ \E l \in DOMAIN w : w[l] = waiting[k]
          /\ \A l \in DOMAIN w : h < w[l] /\ w[l] # h /\ \E k \in DOMAIN waiting : w[l] = waiting[k]
      <4>1. \A k \in DOMAIN waiting : k <= 1 => k = 1
        BY <1>2
      <4>2. \A l \in DOMAIN w : w[l] \in Nat
        BY <3>2 DEF w
      <4>3. \A l \in DOMAIN w : h < w[l]
        BY <3>1, <3>2 DEF w
      <4>. QED
        BY <3>1, <3>2, <4>1, <4>2, <4>3 DEF w
    <3>4. /\ 1 <= h /\ h <= Newest' /\ Newest' = Newest
          /\ \A i \in DOMAIN given : given[i].value # h
          /\ GiveOut(h, t) /\ t \in Nat \cup {"process"}
      <4>1. Newest' = Newest
        BY <2>1 DEF Newest
      <4>2. t \in Nat
        BY DEF RunTypeOK
      <4>. QED
        BY <1>1, <2>4, <3>1, <4>1, <4>2 DEF NumberedValues, GivenOnce, h
    <3>5. /\ given' \in Seq(Gives)
          /\ (\A i \in DOMAIN given : 1 <= given[i].value /\ given[i].value <= Newest') =>
                \A i \in DOMAIN given' : 1 <= given'[i].value /\ given'[i].value <= Newest'
          /\ \A i, j \in DOMAIN given' : i # j => given'[i].value # given'[j].value
          /\ \E i \in DOMAIN given' : given'[i].value = h
          /\ \A i \in DOMAIN given : \E j \in DOMAIN given' : given'[j].value = given[i].value
          /\ \A i \in DOMAIN given' : given'[i].value = h \/ \E j \in DOMAIN given : given'[i].value = given[j].value
          /\ (\A i, j \in DOMAIN given : i < j => given[i].value < given[j].value) /\ (\A i \in DOMAIN given : given[i].value < h)
                => \A i, j \in DOMAIN given' : i < j => given'[i].value < given'[j].value
      <4>1. \A k \in DOMAIN waiting' : waiting'[k] # h
        BY <3>3 DEF w
      <4>. QED
        BY <1>13, <3>1, <3>4, <4>1
    <3>6. NumberedValues'
      <4>1. /\ work'.value = IF work'.step = "none" THEN 0 ELSE arrivals'
            /\ work'.step # "none" => arrivals' >= 1
        BY <1>1, <2>1 DEF NumberedValues
      <4>2. \A i \in DOMAIN given' : 1 <= given'[i].value /\ given'[i].value <= Newest'
        BY <1>1, <3>4, <3>5 DEF NumberedValues
      <4>3. \A k \in DOMAIN w : 1 <= w[k] /\ w[k] <= Newest'
        BY <1>1, <3>3, <3>4 DEF NumberedValues
      <4>. QED
        BY <3>2, <3>5, <4>1, <4>2, <4>3 DEF NumberedValues, w
    <3>7. GivenOnce'
      <4>1. \A i \in DOMAIN given' : \A k \in DOMAIN w : given'[i].value # w[k]
        BY <1>1, <3>3, <3>5 DEF GivenOnce
      <4>. QED
        BY <3>5, <4>1 DEF GivenOnce, w
    <3>8. NoneLost'
      <4>. SUFFICES ASSUME stops = 0, NEW v \in 1 .. arrivals
                    PROVE  \/ v = work.value
                           \/ \E i \in DOMAIN given' : given'[i].value = v
                           \/ \E k \in DOMAIN w : w[k] = v
                           \/ \A k \in DOMAIN w : v < w[k]
        BY <2>1 DEF NoneLost, w
      <4>1. \/ v = work.value
            \/ \E i \in DOMAIN given : given[i].value = v
            \/ \E k \in DOMAIN waiting : waiting[k] = v
            \/ \A k \in DOMAIN waiting : v < waiting[k]
        BY <1>1 DEF NoneLost
      <4>2. (\E k \in DOMAIN waiting : waiting[k] = v) => v = h \/ \E l \in DOMAIN w : w[l] = v
        BY <3>3
      <4>3. (\A k \in DOMAIN waiting : v < waiting[k]) => \A l \in DOMAIN w : v < w[l]
        BY <3>3
      <4>. QED
        BY <3>5, <4>1, <4>2, <4>3
    <3>9. InTurn'
      <4>1. stops = 0 /\ ~stranded => (handle' = None \/ work.step \in {"store", "emit"} => w = <<>>)
        BY <1>1, <2>1, <2>4 DEF InTurn, w
      <4>. QED
        BY <2>1, <4>1 DEF InTurn, w
    <3>10. HasRoom' /\ StepsFit'
      BY <1>0, <1>1, <1>2, <2>1, <3>2 DEF HasRoom, StepsFit
    <3>11. GivenInOrder'
      <4>. SUFFICES ASSUME stops = 0, ~stranded
                    PROVE  /\ \A i, j \in DOMAIN given' : i < j => given'[i].value < given'[j].value
                           /\ \A i \in DOMAIN given', k \in DOMAIN w : given'[i].value < w[k]
        BY <1>0, <2>1 DEF GivenInOrder, w
      <4>1. /\ \A i, j \in DOMAIN given : i < j => given[i].value < given[j].value
            /\ \A i \in DOMAIN given, k \in DOMAIN waiting : given[i].value < waiting[k]
        BY <1>1 DEF GivenInOrder
      <4>2. \A i \in DOMAIN given : given[i].value < h
        BY <3>1, <4>1
      <4>3. \A i, j \in DOMAIN given' : i < j => given'[i].value < given'[j].value
        BY <3>5, <4>1, <4>2
      <4>4. \A i \in DOMAIN given', k \in DOMAIN w : given'[i].value < w[k]
        BY <3>3, <3>5, <4>1
      <4>. QED
        BY <4>3, <4>4
    <3>. QED
      BY <3>2, <3>6, <3>7, <3>8, <3>9, <3>10, <3>11 DEF ValueInv
  <2>. QED
    BY <2>1, <2>2, <2>3, <2>4
<1>16. CASE ThrottleProcess
  <2>1. /\ module = "Throttle" /\ work = AtRest /\ arrivals' = arrivals + 1
        /\ UNCHANGED <<inUse, handle, waiting, stops, stranded, given>>
        /\ \/ work' = [AtRest EXCEPT !.step = "queue", !.value = arrivals']
           \/ handle = None /\ work' = [step |-> "store", value |-> arrivals', timer |-> Len(timers')]
    BY <1>16 DEF ThrottleProcess, Arrives, Working
  <2>2. work'.step \in {"queue", "store"} /\ work'.value = arrivals' /\ (work'.step = "store" => handle = None)
    <3>1. CASE work' = [AtRest EXCEPT !.step = "queue", !.value = arrivals']
      BY <3>1 DEF AtRest
    <3>. QED
      BY <2>1, <3>1
  <2>. QED
    BY <1>6, <2>1, <2>2
<1>17. CASE DelayProcess
  <2>1. /\ module = "Delay" /\ work = AtRest /\ arrivals' = arrivals + 1
        /\ UNCHANGED <<inUse, handle, waiting, stops, stranded, given>>
        /\ work' = work \/ work' = [AtRest EXCEPT !.step = "sleep", !.value = arrivals']
    BY <1>17 DEF DelayProcess, Arrives, Working
  <2>2. (work' = work /\ work'.step = "none") \/ (work'.step = "sleep" /\ work'.value = arrivals')
    <3>1. CASE work' = work
      BY <2>1, <3>1 DEF AtRest
    <3>2. CASE work' = [AtRest EXCEPT !.step = "sleep", !.value = arrivals']
      BY <3>2 DEF AtRest
    <3>. QED
      BY <2>1, <3>1, <3>2
  <2>. QED
    BY <1>6, <2>1, <2>2
\* The value at hand joins those that wait; the first may have made room.
<1>18. CASE Queue
  <2>0. /\ work.step = "queue" /\ work' = AtRest /\ UNCHANGED <<inUse, handle, arrivals, stops, given>>
        /\ waiting' = CASE inUse.capacity = 0 -> waiting
                        [] inUse.capacity > 0 /\ Len(waiting) >= inUse.capacity -> Append(Tail(waiting), work.value)
                        [] OTHER -> Append(waiting, work.value)
        /\ stranded' = (stranded \/ (handle = None /\ waiting' # <<>>))
    BY <1>18 DEF Queue
  <2>1. /\ module = "Throttle" /\ inUse.capacity \in Int /\ (inUse.capacity < 0 \/ Len(waiting) <= inUse.capacity)
        /\ work.value = arrivals /\ arrivals >= 1 /\ Newest = arrivals - 1
        /\ work'.step = "none" /\ work'.value = 0 /\ Newest' = arrivals
    BY <1>0, <1>1, <2>0 DEF StepsFit, HasRoom, NumberedValues, Newest, AtRest
  <2>2. ~stranded' => ~stranded /\ (handle = None => waiting' = <<>>)
    BY <2>0
  <2>3. /\ \A i \in DOMAIN given : 1 <= given[i].value /\ given[i].value < arrivals /\ given[i].value <= arrivals /\ given[i].value # arrivals
        /\ \A k \in DOMAIN waiting : 1 <= waiting[k] /\ waiting[k] < arrivals /\ waiting[k] <= arrivals /\ waiting[k] # arrivals
    BY <1>1, <1>2, <2>1 DEF NumberedValues
  <2>4. InTurn' /\ StepsFit'
    BY <2>0, <2>1, <2>2, <1>0 DEF InTurn, StepsFit
  <2>5. CASE waiting' = waiting /\ waiting = <<>>
    <3>1. NumberedValues' /\ GivenOnce' /\ Ascends(waiting)' /\ HasRoom' /\ NoneLost' /\ GivenInOrder'
      BY <1>0, <1>1, <1>2, <2>0, <2>1, <2>2, <2>3, <2>5 DEF NumberedValues, GivenOnce, Ascends, HasRoom, NoneLost, GivenInOrder
    <3>. QED
      BY <2>4, <3>1 DEF ValueInv
  \* Behind x, what is left of the queue, comes the new one.
  <2>6. ASSUME NEW x \in Seq(Nat), NEW d \in 0 .. Len(waiting), LosesFirst(waiting, d, x), waiting' = Append(x, arrivals),
               inUse.capacity < 0 \/ Len(x) < inUse.capacity
        PROVE  ValueInv'
    <3>1. /\ Len(x) = Len(waiting) - d /\ Len(x) \in Nat /\ DOMAIN x = 1 .. Len(x) /\ d \in Nat
          /\ \A k \in DOMAIN x : k + d \in DOMAIN waiting /\ x[k] = waiting[k + d]
          /\ \A k \in DOMAIN waiting : k <= d \/ (k - d \in DOMAIN x /\ (k - d) + d = k)
      <4>1. /\ Len(x) = Len(waiting) - d /\ Len(x) \in Nat /\ DOMAIN x = 1 .. Len(x) /\ d \in Nat
            /\ \A k \in 1 .. Len(waiting) - d : x[k] = waiting[k + d]
        BY <1>2, <2>6 DEF LosesFirst
      <4>0. Len(waiting) \in Nat /\ DOMAIN waiting = 1 .. Len(waiting)
        BY <1>2
      <4>2. \A k \in DOMAIN x : k + d \in DOMAIN waiting
        BY <4>0, <4>1
      <4>3. \A k \in DOMAIN waiting : k <= d \/ (k - d \in DOMAIN x /\ (k - d) + d = k)
        BY <4>0, <4>1
      <4>. QED
        BY <4>1, <4>2, <4>3
    <3>. DEFINE w == waiting'
    <3>2. /\ w \in Seq(Nat) /\ Len(w) = Len(x) + 1 /\ DOMAIN w = 1 .. Len(x) + 1
          /\ \A k \in DOMAIN x : w[k] = x[k]
          /\ w[Len(x) + 1] = arrivals
      BY <1>1, <2>6, <3>1
    <3>. HIDE DEF w
    <3>3. \A k \in DOMAIN w : /\ k \in DOMAIN x \/ k = Len(x) + 1
                              /\ w[k] \in Nat
      <4>1. \A k \in DOMAIN w : w[k] \in Nat
        BY <3>2
      <4>2. \A k \in DOMAIN w : k \in DOMAIN x \/ k = Len(x) + 1
        BY <3>1, <3>2
      <4>. QED
        BY <4>1, <4>2
    <3>4. /\ \A k \in DOMAIN w : w[k] = arrivals \/ \E l \in DOMAIN waiting : w[k] = waiting[l]
          /\ \A k \in DOMAIN w : 1 <= w[k] /\ w[k] <= arrivals
      <4>1. ASSUME NEW k \in DOMAIN w PROVE w[k] = arrivals \/ \E l \in DOMAIN waiting : w[k] = waiting[l]
        <5>1. CASE k \in DOMAIN x
          <6>1. k + d \in DOMAIN waiting /\ w[k] = waiting[k + d]
            BY <3>1, <3>2, <5>1
          <6>. QED
            BY <6>1
        <5>2. CASE k = Len(x) + 1
          BY <3>2, <5>2
        <5>. QED
          BY <3>3, <5>1, <5>2
      <4>2. 1 <= arrivals /\ arrivals <= arrivals
        BY <1>1, <2>1
      <4>3. \A l \in DOMAIN waiting : 1 <= waiting[l] /\ waiting[l] <= arrivals
        BY <2>3
      <4>4. \A k \in DOMAIN w : 1 <= w[k] /\ w[k] <= arrivals
        BY <4>1, <4>2, <4>3, Zenon
      <4>. QED
        BY <4>1, <4>4
    <3>5. Len(x) + 1 \in DOMAIN w /\ \A k \in DOMAIN x : k \in DOMAIN w /\ k < Len(x) + 1
      BY <3>1, <3>2
    <3>6. ASSUME NEW k \in DOMAIN waiting
          PROVE  (\E l \in DOMAIN w : w[l] = waiting[k]) \/ \A l \in DOMAIN w : waiting[k] < w[l]
      <4>1. CASE k <= d
        <5>1. ASSUME NEW l \in DOMAIN x PROVE waiting[k] < x[l]
          <6>1. l + d \in DOMAIN waiting /\ k < l + d
            BY <1>2, <3>1, <4>1
          <6>. QED
            BY <1>1, <3>1, <6>1 DEF Ascends
        <5>. QED
          BY <2>3, <3>2, <3>3, <5>1
      <4>2. CASE k - d \in DOMAIN x /\ (k - d) + d = k
        BY <3>1, <3>2, <3>5, <4>2
      <4>. QED
        BY <3>1, <4>1, <4>2
    <3>7. Ascends(waiting)'
      <4>. SUFFICES ASSUME NEW k \in DOMAIN w, NEW l \in DOMAIN w, k < l PROVE w[k] < w[l]
        BY DEF Ascends, w
      <4>1. k \in DOMAIN x
        BY <3>1, <3>2, <3>3
      <4>2. CASE l = Len(x) + 1
        BY <2>3, <3>1, <3>2, <4>1, <4>2
      <4>3. CASE l \in DOMAIN x
        <5>1. k + d \in DOMAIN waiting /\ l + d \in DOMAIN waiting /\ k + d < l + d
          BY <3>1, <4>1, <4>3
        <5>2. waiting[k + d] < waiting[l + d]
          BY <1>1, <5>1 DEF Ascends
        <5>. QED
          BY <3>1, <3>2, <4>1, <4>3, <5>2
      <4>. QED
        BY <3>3, <4>2, <4>3
    <3>8. NumberedValues'
      BY <1>1, <1>2, <2>0, <2>1, <2>3, <3>2, <3>4 DEF NumberedValues, w
    <3>9. GivenOnce'
      <4>1. \A i, j \in DOMAIN given : i # j => given[i].value # given[j].value
        BY <1>1 DEF GivenOnce
      <4>2. \A i \in DOMAIN given : \A k \in DOMAIN w : given[i].value # w[k]
        BY <1>1, <2>3, <3>4 DEF GivenOnce
      <4>. QED
        BY <2>0, <4>1, <4>2 DEF GivenOnce, w
    <3>10. HasRoom'
      BY <2>0, <2>1, <2>6, <3>1, <3>2 DEF HasRoom, w
    <3>11. NoneLost'
      <4>. SUFFICES ASSUME stops = 0, NEW v \in 1 .. arrivals
                    PROVE  \/ \E i \in DOMAIN given : given[i].value = v
                           \/ \E k \in DOMAIN w : w[k] = v
                           \/ \A k \in DOMAIN w : v < w[k]
        BY <2>0 DEF NoneLost, w
      <4>1. \/ v = arrivals
            \/ \E i \in DOMAIN given : given[i].value = v
            \/ \E k \in DOMAIN waiting : waiting[k] = v
            \/ \A k \in DOMAIN waiting : v < waiting[k]
        BY <1>1, <2>1 DEF NoneLost
      <4>2. v = arrivals => \E k \in DOMAIN w : w[k] = v
        BY <3>2, <3>5
      <4>3. (\A k \in DOMAIN waiting : v < waiting[k]) => v = arrivals \/ \A k \in DOMAIN w : v < w[k]
        BY <1>1, <3>4
      <4>. QED
        BY <3>6, <4>1, <4>2, <4>3
    <3>12. GivenInOrder'
      <4>. SUFFICES ASSUME stops = 0, ~stranded
                    PROVE  /\ \A i, j \in DOMAIN given : i < j => given[i].value < given[j].value
                           /\ \A i \in DOMAIN given, k \in DOMAIN w : given[i].value < w[k]
        BY <1>0, <2>0, <2>1, <2>2 DEF GivenInOrder, w
      <4>. QED
        BY <1>1, <2>3, <3>4 DEF GivenInOrder
    <3>. QED
      BY <2>4, <3>7, <3>8, <3>9, <3>10, <3>11, <3>12 DEF ValueInv
  <2>7. CASE inUse.capacity = 0
    <3>1. waiting' = waiting
      BY <2>0, <2>7
    <3>. QED
      BY <1>2, <2>1, <2>5, <2>7, <3>1
  <2>8. CASE inUse.capacity > 0 /\ Len(waiting) >= inUse.capacity
    <3>1. waiting' = Append(Tail(waiting), arrivals) /\ waiting # <<>> /\ Len(waiting) = inUse.capacity
      BY <1>2, <2>0, <2>1, <2>8
    <3>. DEFINE x == Tail(waiting)
    <3>2. LosesFirst(waiting, 1, x) /\ 1 \in 0 .. Len(waiting)
      BY <1>2, <3>1, TailLosesFirst
    <3>3. x \in Seq(Nat) /\ Len(x) < inUse.capacity
      BY <1>2, <2>1, <3>1, <3>2 DEF LosesFirst
    <3>4. waiting' = Append(x, arrivals)
      BY <3>1
    <3>. HIDE DEF x
    <3>. QED
      BY <2>6, <3>2, <3>3, <3>4
  <2>9. CASE inUse.capacity # 0 /\ ~(inUse.capacity > 0 /\ Len(waiting) >= inUse.capacity)
    <3>1. waiting' = Append(waiting, arrivals) /\ (inUse.capacity < 0 \/ Len(waiting) < inUse.capacity)
      BY <1>2, <2>0, <2>1, <2>9
    <3>2. LosesFirst(waiting, 0, waiting) /\ 0 \in 0 .. Len(waiting)
      BY <1>2 DEF LosesFirst
    <3>. QED
      BY <1>2, <2>6, <3>1, <3>2
  <2>. QED
    BY <2>1, <2>7, <2>8, <2>9
<1>19. ~\E reset \in BOOLEAN : AnswerInput(reset)
  BY <1>0 DEF AnswerInput
<1>20. CASE UNCHANGED runVars
  BY <1>3, <1>20 DEF runVars
<1>. QED
  BY <1>7, <1>8, <1>9, <1>11, <1>12, <1>14, <1>15, <1>16, <1>17, <1>18, <1>19, <1>20 DEF RunNext

\* A module starts with nothing that came and nothing that waits.
LEMMA ValuesStart == RunInit => ValueInv /\ Unsent /\ Unstopped /\ OneTimer
<1>. SUFFICES ASSUME RunInit PROVE ValueInv /\ Unsent /\ Unstopped /\ OneTimer
  OBVIOUS
<1>1. /\ module \in DOMAIN RunConfigs /\ config \in RunConfigs[module] /\ Read(module, config) # None
      /\ inUse = Read(module, config)[1]
      /\ timers = <<>> /\ work = AtRest /\ waiting = <<>> /\ given = <<>> /\ arrivals = 0
  BY DEF RunInit
<1>2. work.step = "none" /\ work.value = 0 /\ Newest = 0
  BY <1>1 DEF AtRest, Newest
<1>3. ASSUME module = "Throttle" PROVE inUse.capacity \in Int
  <2>1. config \in [every : {config.every}, capacity : Int]
    BY <1>1, <1>3, RunAssumption
  <2>. DEFINE ms == ParseDuration(config.every)
  <2>2. Read(module, config) = IF ms = None THEN None ELSE Some([config EXCEPT !.every = ms[1]])
    BY <1>3 DEF Read
  <2>. HIDE DEF ms
  <2>3. inUse = [config EXCEPT !.every = ms[1]]
    BY <1>1, <2>2 DEF Some
  <2>. QED
    BY <2>1, <2>3
<1>4. NumberedValues
  <2>1. given \in Seq(Gives) /\ waiting \in Seq(Nat) /\ DOMAIN given = {} /\ DOMAIN waiting = {}
    BY <1>1
  <2>. QED
    BY <1>2, <2>1 DEF NumberedValues
<1>5. DOMAIN given = {} /\ DOMAIN waiting = {} /\ DOMAIN timers = {} /\ Len(waiting) = 0
  BY <1>1
<1>6. HasRoom
  <2>. SUFFICES ASSUME module = "Throttle" PROVE inUse.capacity < 0 \/ 0 <= inUse.capacity
    BY <1>3, <1>5 DEF HasRoom
  <2>. QED
    BY <1>3
<1>7. GivenOnce /\ StepsFit /\ Ascends(waiting) /\ NoneLost /\ InTurn /\ GivenInOrder
  BY <1>1, <1>2, <1>5 DEF GivenOnce, StepsFit, Ascends, NoneLost, InTurn, GivenInOrder
<1>8. Unsent /\ Unstopped /\ OneTimer
  BY <1>1, <1>5 DEF Unsent, Unstopped, OneTimer
<1>. QED
  BY <1>4, <1>6, <1>7, <1>8 DEF ValueInv

\* The invariant says what the throttle and the delay keep.
LEMMA ValuesMean == RunTypeOK /\ ValueInv => ValuesKept
<1>. SUFFICES ASSUME RunTypeOK, ValueInv, module \in {"Throttle", "Delay"} PROVE ValuesKept
  BY DEF ValuesKept
<1>1. /\ NumberedValues /\ StepsFit /\ GivenOnce /\ Ascends(waiting)
      /\ HasRoom /\ NoneLost /\ InTurn /\ GivenInOrder /\ arrivals \in Nat
  BY DEF ValueInv, RunTypeOK
<1>. DEFINE values == [i \in DOMAIN given |-> given[i].value]
            held   == Range(values) \cup Range(waiting) \cup {work.value}
<1>2. /\ DOMAIN values = DOMAIN given /\ \A i \in DOMAIN given : values[i] = given[i].value
      /\ \A v : v \in Range(values) <=> \E i \in DOMAIN given : v = given[i].value
      /\ \A v : v \in Range(waiting) <=> \E k \in DOMAIN waiting : v = waiting[k]
  BY DEF Range
<1>3. values \in Seq(Nat) /\ waiting \in Seq(Nat)
  <2>1. given \in Seq(Gives) /\ waiting \in Seq(Nat) /\ \A o \in Gives : o.value \in Nat
    BY <1>1 DEF NumberedValues, Gives
  <2>2. DOMAIN given = 1 .. Len(given) /\ Len(given) \in Nat /\ \A i \in DOMAIN given : given[i].value \in Nat
    BY <2>1
  <2>. QED
    BY <2>1, <2>2
<1>. HIDE DEF values
<1>4. \A i, j \in DOMAIN values : i # j => values[i] # values[j]
  BY <1>1, <1>2 DEF GivenOnce
<1>5. \A w \in Range(waiting) : w \notin Range(values)
  BY <1>1, <1>2 DEF GivenOnce
<1>6. module = "Throttle" => inUse.capacity < 0 \/ Len(waiting) <= inUse.capacity
  BY <1>1 DEF HasRoom
<1>7. ASSUME stops = 0, NEW v \in 1 .. arrivals PROVE v \in held \/ \A w \in Range(waiting) : v < w
  BY <1>1, <1>2, <1>7 DEF NoneLost
<1>8. ASSUME (stops = 0 /\ ~stranded) \/ module = "Delay" PROVE Ascends(values \o waiting)
  <2>. DEFINE s == values \o waiting
              n == Len(values)
  <2>1. /\ DOMAIN s = 1 .. n + Len(waiting) /\ n \in Nat /\ Len(waiting) \in Nat
        /\ DOMAIN values = 1 .. n /\ DOMAIN waiting = 1 .. Len(waiting)
        /\ \A i \in DOMAIN s : s[i] = IF i <= n THEN values[i] ELSE waiting[i - n]
    BY <1>3
  <2>. HIDE DEF s, n
  <2>2. /\ \A i, j \in DOMAIN values : i < j => values[i] < values[j]
        /\ \A i \in DOMAIN values, k \in DOMAIN waiting : values[i] < waiting[k]
    BY <1>1, <1>2, <1>8 DEF GivenInOrder
  <2>3. SUFFICES ASSUME NEW i \in DOMAIN s, NEW j \in DOMAIN s, i < j PROVE s[i] < s[j]
    BY DEF Ascends, s
  <2>4. CASE j <= n
    <3>1. i \in DOMAIN values /\ j \in DOMAIN values /\ s[i] = values[i] /\ s[j] = values[j]
      BY <2>1, <2>3, <2>4
    <3>. QED
      BY <2>2, <2>3, <3>1
  <2>5. CASE i <= n /\ ~(j <= n)
    <3>1. i \in DOMAIN values /\ j - n \in DOMAIN waiting /\ s[i] = values[i] /\ s[j] = waiting[j - n]
      BY <2>1, <2>3, <2>5
    <3>. QED
      BY <2>2, <3>1
  <2>6. CASE ~(i <= n)
    <3>1. /\ i - n \in DOMAIN waiting /\ j - n \in DOMAIN waiting /\ i - n < j - n
          /\ s[i] = waiting[i - n] /\ s[j] = waiting[j - n]
      BY <2>1, <2>3, <2>6
    <3>. QED
      BY <1>1, <3>1 DEF Ascends
  <2>. QED
    BY <2>1, <2>3, <2>4, <2>5, <2>6
<1>. QED
  BY <1>1, <1>4, <1>5, <1>6, <1>7, <1>8 DEF ValuesKept, values

\* Whatever is edited, stopped and started while a timer ticks, there is one
\* timer and it loses no value.
THEOREM TimersKeepHolds == RunSpec => []TimersKeep
<1>. DEFINE I == RunTypeOK /\ Unstopped /\ OneTimer /\ Unsent /\ ValueInv
<1>1. RunInit => I
  BY RunStarts, ValuesStart
<1>2. I /\ [RunNext]_runVars => I'
  BY RunKeepsTypes, UnstoppedStays, OneTimerStays, UnsentStays, ValuesStay
<1>3. I => TimersKeep
  BY ValuesMean DEF TimersKeep
<1>. QED
  BY <1>1, <1>2, <1>3, PTL DEF RunSpec

\* A module that is not started emits nothing, not even when it is edited: only
\* what was under way when it was stopped still comes, the tick a timer had
\* decided on, the last events of a watcher, the signal of a delayed start.
THEOREM QuietWhenStoppedHolds == RunSpec => QuietWhenStopped
<1>. DEFINE Quiet == \/ given' # given /\ status = "Start"
                     \/ given' = given
                     \/ \E t \in DOMAIN timers : timers[t].state = "sending" /\ timers'[t].state # "sending"
<1>1. RunInit => RunTypeOK
  BY RunStarts
<1>2. RunTypeOK /\ [RunNext]_runVars => RunTypeOK'
  BY RunKeepsTypes
<1>3. RunTypeOK /\ [RunNext]_runVars => [Quiet]_runVars
  <2>. SUFFICES ASSUME RunTypeOK, RunNext PROVE Quiet
    OBVIOUS
  <2>. HIDE DEF Quiet
  <2>0. ASSUME given' = given \/ status = "Start" PROVE Quiet
    BY <2>0 DEF Quiet
  <2>1. CASE Start \/ Store \/ Stop \/ Queue \/ ThrottleProcess \/ DelayProcess
    BY <2>0, <2>1 DEF Start, Store, Stop, Queue, ThrottleProcess, DelayProcess
  <2>2. ASSUME NEW c \in RunConfigs[module], Reconfigure(c) PROVE Quiet
    BY <2>0, <2>2 DEF Reconfigure
  <2>3. ASSUME NEW t \in DOMAIN timers, Wake(t) \/ Check(t) PROVE Quiet
    BY <2>0, <2>3 DEF Wake, Check
  \* The timer had decided on this tick.
  <2>4. ASSUME NEW t \in DOMAIN timers, Tick(t) PROVE Quiet
    <3>1. timers[t].state = "sending" /\ \E st \in {"done", "asleep"} : timers' = [timers EXCEPT ![t].state = st]
      BY <2>4 DEF Tick
    <3>2. timers'[t].state \in {"done", "asleep"}
      BY <3>1, TaskMoves
    <3>. QED
      BY <3>1, <3>2 DEF Quiet
  \* A throttle with a timer is started.
  <2>5. ASSUME NEW t \in DOMAIN timers, ThrottleTick(t) PROVE Quiet
    <3>1. given' = given \/ handle # None
      BY <2>5 DEF ThrottleTick
    <3>. QED
      BY <2>0, <3>1 DEF RunTypeOK
  \* So is one with a value at hand.
  <2>6. CASE Output
    BY <2>0, <2>6 DEF Output, RunTypeOK
  <2>7. ASSUME NEW reset, AnswerInput(reset) PROVE Quiet
    BY <2>0, <2>7 DEF AnswerInput, Arrives
  <2>. QED
    BY <2>1, <2>2, <2>3, <2>4, <2>5, <2>6, <2>7 DEF RunNext
<1>. QED
  BY <1>1, <1>2, <1>3, PTL DEF RunSpec, QuietWhenStopped
====
