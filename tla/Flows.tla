------------------------------- MODULE Flows -------------------------------
(***************************************************************************)
(* Flows that branch and join.  A Map takes the arrays of a flow apart, a  *)
(* Sequence hands every item to two lanes of other modules, Zip or Sync    *)
(* joins the lanes, and Collect makes arrays again of what the join emits. *)
(* Every value travels with a context whose map frames say which item of   *)
(* which array it is.                                                      *)
(*                                                                         *)
(* The lanes are the rest of the patch: each hands on what it was given, a *)
(* module on it may fail and emit nothing, and where paths of different    *)
(* length meet the items of a lane overtake one another.                   *)
(***************************************************************************)
EXTENDS Naturals, Sequences, FiniteSets, SequencesExt, Functions, Optional, Retain

CONSTANTS Carried,    \* the values: arrays and the items in them
          Arrays,     \* per depth of nesting, the values the flows begin with
          Setups,     \* the configs the joining module may have
          MaxFlows,   \* bound on the arrays sent
          MaxLost     \* per depth, bound on failures, evictions, resets

VARIABLES levels,     \* how many Maps there are, one behind the other
          ordered,    \* do the lanes keep their order?
          sent,       \* the array of every flow, by context id
          lanes,      \* the messages under way, by port
          join,       \* the joining module
          collects,   \* the Collect modules, one per depth
          joined,     \* what the join emitted in the last step
          collected,        \* what the last Collect emitted: <<context id, value>>
          lost

flowVars == <<levels, ordered, sent, lanes, join, collects, joined, collected, lost>>

-----------------------------------------------------------------------------
(* Contexts (context.rs).                                                   *)

Put(f, k, v) == Over([x \in {k} |-> v], f)

NewContext(id) == [id |-> id, vars |-> <<>>, frames |-> <<>>]
WithVar(c, k, v) == [c EXCEPT !.vars = Put(@, k, v)]

PushFrame(c, name, data) == [c EXCEPT !.frames = Append(@, [name |-> name, data |-> data])]
PushMapFrame(c, i, n) == IF n = 0 \/ i >= n THEN None ELSE Some(PushFrame(c, "map", <<i, n>>))

\* Mutant: a pop takes all frames.
PopEveryFrame(c) == [c EXCEPT !.frames = <<>>]
PopFrame(c) == [c EXCEPT !.frames = IF @ = <<>> THEN @ ELSE Front(@)]
InMap(c) == c.frames # <<>> /\ Last(c.frames).name = "map"

CurrentMapFrame(c) == IF InMap(c) THEN Some(Last(c.frames).data) ELSE None
PopMapFrame(c) == IF InMap(c) THEN Some(PopFrame(c)) ELSE None

MapFrameIndices(c) ==
    LET maps == Within(c.frames, {f \in Range(c.frames) : f.name = "map"})
    IN [i \in DOMAIN maps |-> maps[i].data]

\* Mutant: the key of a value is that of its flow.
CtxKeyOfFlow(c) == <<c.id>>
CtxKey(c) == <<c.id, MapFrameIndices(c)>>

-----------------------------------------------------------------------------
(* Map and Sequence.                                                        *)

Carry(ctx, value) == [ctx |-> ctx, value |-> value]
IsItems(v) == v[1] = "array"
Array(s) == <<"array", s>>

MapOut(m) ==
    LET items == IF IsItems(m.value) THEN m.value[2] ELSE <<m.value>>
    IN [i \in DOMAIN items |-> Carry(PushMapFrame(m.ctx, i - 1, Len(items))[1], items[i])]

\* A Map behind each of the others, as many as the arrays are deep.
MapDeep(ms, depth) ==
    LET maps[k \in 0 .. depth] ==
            IF k = 0 THEN ms ELSE FlattenSeq([i \in DOMAIN maps[k - 1] |-> MapOut(maps[k - 1][i])])
    IN maps[depth]

\* Sequence hands a value to its ports one after the other; a lane marks it.
SequenceTo(port, ms) == [i \in DOMAIN ms |-> [ms[i] EXCEPT !.ctx = WithVar(@, "lane", port)]]

-----------------------------------------------------------------------------
(* Zip To Array, Zip To Object and Sync.                                    *)

Ports(setup) == 0 .. setup.n - 1

\* reset_state(): what waits to be joined is given up.
ResetState(setup) ==
    [setup |-> setup, queues |-> [p \in Ports(setup) |-> <<>>], buffers |-> <<>>]

\* An entry of the cache: the values of one key by port; what is missing is not there.
Pending(j, key) == IF key \in DOMAIN j.buffers THEN j.buffers[key] ELSE <<>>
Less(f, key) == Restrict(f, DOMAIN f \ {key})

\* What the module emits when every port has its message; last is the arrival.
Emitted(setup, whole, last) ==
    LET values == [i \in 1 .. setup.n |-> whole[i - 1].value] IN
    CASE setup.kind = "array"  -> << [port |-> 0, ctx |-> last.ctx, value |-> values] >>
      [] setup.kind = "object" ->
            << [port |-> 0, ctx |-> last.ctx,
                value |-> [k \in Range(setup.keys) |->
                             values[CHOOSE i \in 1 .. setup.n : /\ setup.keys[i] = k
                                                                /\ \A j \in i + 1 .. setup.n : setup.keys[j] # k]]] >>
      [] setup.kind = "sync"   ->
            [i \in 1 .. setup.n |->
               [port |-> i - 1, ctx |-> IF setup.use_ctx THEN whole[i - 1].ctx ELSE last.ctx, value |-> values[i]]]

\* use_ctx: a value waits for those of its key, a second one on a port replaces the first.
JoinByContext(j, port, m) ==
    LET key   == CtxKey(m.ctx)
        entry == Put(Pending(j, key), port, m)
    IN IF DOMAIN entry = Ports(j.setup)
       THEN [join |-> [j EXCEPT !.buffers = Less(@, key)], emits |-> Emitted(j.setup, entry, m)]
       ELSE [join |-> [j EXCEPT !.buffers = Put(@, key, entry)], emits |-> <<>>]

\* Without it the values of the ports are paired in the order they come.
JoinInOrder(j, port, m) ==
    LET queues == [j.queues EXCEPT ![port] = Append(@, m)] IN
    IF \A p \in Ports(j.setup) : queues[p] # <<>>
    THEN [join  |-> [j EXCEPT !.queues = [p \in Ports(j.setup) |-> Tail(queues[p])]],
          emits |-> Emitted(j.setup, [p \in Ports(j.setup) |-> Head(queues[p])], m)]
    ELSE [join |-> [j EXCEPT !.queues = queues], emits |-> <<>>]

\* An arrival on a port the module does not have (any more) is an error.
JoinProcess(j, port, m) ==
    IF port \notin Ports(j.setup) THEN [join |-> j, emits |-> <<>>]
    ELSE IF j.setup.use_ctx THEN JoinByContext(j, port, m) ELSE JoinInOrder(j, port, m)

-----------------------------------------------------------------------------
(* Collect.                                                                 *)

NoCollection == [of |-> None, items |-> <<>>]

\* The answer of one Collect to a message: its state and what it emits.
\* Only the flow tells collections apart: a message of another drops what is
\* there and emits nothing of it, whatever the doc says (array.rs:372), one of the
\* same flow must be of an array of the same length.
CollectProcess(s, m) ==
    LET frame == CurrentMapFrame(m.ctx) IN
    IF frame = None THEN [state |-> s, emits |-> <<m>>]
    ELSE LET i == frame[1][1]
             n == frame[1][2]
             kept == IF s.of \in {None, Some(m.ctx.id)} THEN s ELSE NoCollection
             c == IF kept.items # <<>> THEN kept
                  ELSE [of |-> Some(m.ctx.id), items |-> [k \in 1 .. n |-> None]]
             full == [c EXCEPT !.items[i + 1] = Some(m.value)]
         IN IF Len(c.items) # n THEN [state |-> c, emits |-> <<>>]
            ELSE IF \E k \in 1 .. n : full.items[k] = None THEN [state |-> full, emits |-> <<>>]
            ELSE [state |-> NoCollection,
                  emits |-> <<Carry(PopMapFrame(m.ctx)[1], Array([k \in 1 .. n |-> full.items[k][1]]))>>]

\* One message through the Collects, the innermost first.
CollectDeep(cs, m) ==
    LET through[k \in 0 .. Len(cs)] ==
            IF k = 0 THEN [states |-> cs, emits |-> <<m>>]
            ELSE IF through[k - 1].emits = <<>> THEN through[k - 1]
            ELSE LET r == CollectProcess(cs[k], through[k - 1].emits[1])
                 IN [states |-> [through[k - 1].states EXCEPT ![k] = r.state], emits |-> r.emits]
    IN through[Len(cs)]

-----------------------------------------------------------------------------

ASSUME FlowsAssumption ==
    /\ \A v \in Carried : IsItems(v) => v[2] \in Seq(Carried)
    /\ DOMAIN Arrays \subseteq Nat
    /\ \A depth \in DOMAIN Arrays : Arrays[depth] \subseteq Carried
    /\ \A s \in Setups : /\ s.n \in Nat /\ s.use_ctx \in BOOLEAN
                         /\ s.kind \in {"array", "object", "sync"}
                         /\ s.kind = "object" => s.keys \in [1 .. s.n -> STRING]

FlowInit ==
    /\ levels \in DOMAIN Arrays
    /\ ordered \in IF levels = 1 THEN BOOLEAN ELSE {TRUE}
    /\ collects = [k \in 1 .. levels |-> NoCollection]
    /\ sent = <<>> /\ lanes = <<<<>>, <<>>>> /\ collected = <<>> /\ joined = <<>> /\ lost = 0
    /\ \E setup \in Setups : join = ResetState(setup)

Send(array) ==
    /\ Len(sent) < MaxFlows
    /\ sent' = Append(sent, array)
    /\ LET items == MapDeep(<<Carry(NewContext(Len(sent')), array)>>, levels)
       IN lanes' = [l \in 1 .. 2 |-> lanes[l] \o SequenceTo(l - 1, items)]
    /\ joined' = <<>>
    /\ UNCHANGED <<levels, ordered, join, collects, collected, lost>>

\* Where a message leaves its lane.
Leaving(l) == IF ordered THEN {k \in DOMAIN lanes[l] : k = 1} ELSE DOMAIN lanes[l]

Arrive(l, k) ==
    /\ lanes' = [lanes EXCEPT ![l] = RemoveAt(@, k)]
    /\ LET r == JoinProcess(join, l - 1, lanes[l][k])
           c == CollectDeep(collects, Carry(r.emits[1].ctx, r.emits[1].value))
       IN /\ join' = r.join
          /\ joined' = r.emits
          /\ IF r.emits = <<>> THEN UNCHANGED <<collects, collected>>
             ELSE /\ collects' = c.states
                  /\ collected' = collected \o [i \in DOMAIN c.emits |-> <<c.emits[i].ctx, c.emits[i].value>>]
    /\ UNCHANGED <<levels, ordered, sent, lost>>

\* A module on a lane fails on an item.
Fail(l, k) ==
    /\ lost < MaxLost[levels] /\ lost' = lost + 1
    /\ lanes' = [lanes EXCEPT ![l] = RemoveAt(@, k)]
    /\ joined' = <<>>
    /\ UNCHANGED <<levels, ordered, sent, join, collects, collected>>

\* The cache evicts an entry: its time is over, or there are too many.
Evict(key) ==
    /\ lost < MaxLost[levels] /\ lost' = lost + 1
    /\ join' = [join EXCEPT !.buffers = Less(@, key)]
    /\ joined' = <<>>
    /\ UNCHANGED <<levels, ordered, sent, lanes, collects, collected>>

\* stop(), or configs_changed() with another n or other keys; a change of
\* use_ctx resets it too, and is not followed here.
Reset(setup) ==
    /\ lost < MaxLost[levels] /\ lost' = lost + 1
    /\ join' = ResetState(setup)
    /\ joined' = <<>>
    /\ UNCHANGED <<levels, ordered, sent, lanes, collects, collected>>

Alike == {s \in Setups : s.kind = join.setup.kind /\ s.use_ctx = join.setup.use_ctx}

FlowNext ==
    \/ \E array \in Arrays[levels] : Send(array)
    \/ \E l \in 1 .. 2 : \E k \in Leaving(l) : Arrive(l, k) \/ Fail(l, k)
    \/ \E key \in DOMAIN join.buffers : Evict(key)
    \/ \E setup \in Alike : Reset(setup)

-----------------------------------------------------------------------------

\* What an array is to a Map, and the item a context is about.
ItemsOf(v) == IF IsItems(v) THEN v[2] ELSE <<v>>

\* The item at the place that indices, of a frame each, lead to.
ItemAt(v, indices) ==
    LET at[k \in 0 .. Len(indices)] ==
            IF k = 0 THEN v ELSE ItemsOf(at[k - 1])[indices[k][1] + 1]
    IN at[Len(indices)]
ItemOf(ctx) == ItemAt(sent[ctx.id], MapFrameIndices(ctx))

\* With use_ctx the values that are joined are those of one item, under its
\* context, whatever overtook what and whatever failed, was evicted or reset;
\* a Sync gives every value back with the context it came with.  Without it
\* that is so as long as the lanes keep their order and nothing is lost.
JoinsWhatBelongs ==
    (join.setup.use_ctx \/ (ordered /\ lost = 0)) =>
      \A i \in DOMAIN joined :
         LET e == joined[i] IN
         IF join.setup.kind = "sync"
         THEN /\ e.value = ItemOf(e.ctx)
              /\ CtxKey(e.ctx) = CtxKey(joined[1].ctx)
              /\ join.setup.use_ctx => e.ctx.vars["lane"] = e.port
         ELSE \A v \in Range(e.value) : v = ItemOf(e.ctx)

\* The parts of w and of v, pair by pair, so many levels down.
Beside(w, v, level) ==
    LET pairs[k \in 0 .. level] ==
            IF k = 0 THEN {<<w, v>>}
            ELSE UNION {{<<ItemsOf(p[1])[i], ItemsOf(p[2])[i]>> : i \in DOMAIN ItemsOf(p[2])} : p \in pairs[k - 1]}
    IN pairs[level]

\* Is w the array v with every item as the join makes it?
Restores(w, v) ==
    /\ \A k \in 0 .. levels - 1 : \A p \in Beside(w, v, k) :
          IsItems(p[1]) /\ Len(p[1][2]) = Len(ItemsOf(p[2]))
    /\ \A p \in Beside(w, v, levels) :
          IF join.setup.kind = "sync" THEN p[1] = p[2] ELSE Range(p[1]) = {p[2]}

\* Has the array items, and every array in it?
Whole(v) == \A k \in 0 .. levels - 1 : \A p \in Beside(v, v, k) : ItemsOf(p[1]) # <<>>

\* Collect gives back what Map took apart: a whole array of one flow, in its
\* order, once.  For arrays of arrays, and where the join pairs by order, that
\* is so while nothing is lost or overtaken; then every flow that has an item
\* comes out.  An array without items never does, nor one that holds such an array.
\* An array that has lost an item is dropped when another flow comes, as process()
\* does (array.rs:421): the doc says that "incomplete arrays are emitted when the
\* context changes" (array.rs:372), which the code does not do.
CollectRestores ==
    LET faithful == ordered /\ lost = 0
        flows    == {collected[i][1].id : i \in DOMAIN collected}
    IN /\ (faithful \/ (levels = 1 /\ join.setup.use_ctx)) =>
             \A i \in DOMAIN collected :
                /\ collected[i][1].frames = <<>>
                /\ Restores(collected[i][2], sent[collected[i][1].id])
                /\ lost = 0 => \A j \in DOMAIN collected : collected[i][1].id = collected[j][1].id => i = j
       /\ (faithful /\ \A l \in 1 .. 2 : lanes[l] = <<>>) =>
             \A f \in DOMAIN sent : f \in flows <=> Whole(sent[f])

FlowSpec == FlowInit /\ [][FlowNext]_flowVars
=============================================================================
