----------------------------- MODULE PushRunProofs -----------------------------
(***************************************************************************)
(* Proofs about PushRun, for any rows, tables, sizes, limits and number of *)
(* faults.  The inductive invariant IInv says of each unit where it came   *)
(* from and where it is, and of the server what its guard remembers.       *)
(***************************************************************************)
EXTENDS PushRun, ListLemmas, FiniteSetTheorems

Pair(u) == <<u.row, u.ver>>
Pairs(units) == { Pair(u) : u \in ToSet(units) }
RowIds == Rows \X (1..MaxVersion)
Versions == Rows \X (1..MaxVersion)
Bodies == [1..NumTables -> Seq(Versions)]

(***************************************************************************)
(* Types.                                                                  *)
(***************************************************************************)
Whys == {"tooMuch", "busy", "conflict", "applied", "replay", "failed"}
StatusOf(why) == IF why \in {"applied", "replay"} THEN 200 ELSE getErrorStatus(why)
FreeState == [pc: {"free"}]
ApplyState == [pc: {"apply"}, key: SUBSET RowIds, left: Seq(Versions)]
AnswerState == [pc: {"answer"}, why: Whys, status: {200, 409, 413, 500}]

HandlerType ==
    /\ handler \in [Handlers -> FreeState \cup ApplyState \cup AnswerState]
    /\ \A h \in Handlers : handler[h].pc = "answer" => handler[h].status = StatusOf(handler[h].why)

BatchType ==
    /\ DOMAIN batch \subseteq SUBSET RowIds
    /\ \A k \in DOMAIN batch :
          batch[k] \in [status: {"pending", "completed"}, body: Bodies, stale: BOOLEAN]

StateType ==
    /\ TypeOK
    /\ limits \in LimitChoices /\ faults \in Nat
    /\ read \subseteq RowIds /\ overtaken \subseteq Rows
    /\ \A g, h \in at : g = h
    /\ last \in [why: {"none", "done", "lost", "tooLarge", "busy", "conflict", "failed"}, chunk: Seq(Units)]
    /\ HandlerType /\ BatchType

(***************************************************************************)
(* An entry of the outbox carries the latest version of its row, by an     *)
(* edit or a pull.  Its id is that of the edit it was made for.            *)
(***************************************************************************)
OutboxOK ==
    \A e \in ToSet(outbox) :
        /\ e.id[1] = e.row /\ e.ver = version[e.row] /\ e.id[2] <= version[e.row]
        /\ ~ Before(outbox, e, e)

(***************************************************************************)
(* The units of a push: one per row, none of them later than the row, in   *)
(* chunks that have one beginning each and follow one another by it.       *)
(***************************************************************************)
Chunks == ToSet(queue)
Queued == UNION { ToSet(c) : c \in Chunks }
InPlay == ToSet(answered) \cup Queued

UnitOK(u) == u.id[1] = u.row /\ u.ver <= version[u.row]
ListOK(units) ==
    /\ \A u \in ToSet(units) : ~ Before(units, u, u)
    /\ \A u, w \in ToSet(units) : u.row = w.row => u = w

Follows(c, d) == \A u \in ToSet(c), w \in ToSet(d) : u.row # w.row /\ u.of <= w.of

PlayOK ==
    /\ \A u \in InPlay : UnitOK(u)
    /\ ListOK(answered) /\ \A c \in Chunks : ListOK(c)
    /\ \A u, w \in ToSet(answered) : Before(answered, u, w) => u.of <= w.of
    /\ \A c \in Chunks : Follows(answered, c) /\ \A u, w \in ToSet(c) : u.of = w.of
    /\ \A c, d \in Chunks : Before(queue, c, d) => Follows(c, d)
    /\ \A u, w \in InPlay : u.at < w.at => u.of <= w.of

(***************************************************************************)
(* What a push has read is what it has in its deque and what was answered. *)
(***************************************************************************)
ReadOK ==
    /\ \A p \in read : p[2] <= version[p[1]]
    /\ pc # "idle" => read = { u.id : u \in InPlay } /\ last.why = "none"
    /\ pc = "idle" => queue = <<>>
    /\ SuccessIsComplete

(***************************************************************************)
(* What the guard remembers of a key: the rows of its entries, in their    *)
(* tables, one version each, no later than what the device has queued.     *)
(***************************************************************************)
RecordOK(k) ==
    LET body == batch[k].body
    IN  \A t \in 1..NumTables :
          /\ \A p \in ToSet(body[t]) :
                /\ TableOf[p[1]] = t /\ p[2] <= version[p[1]] /\ ~ Before(body[t], p, p)
                /\ \E id \in k : id[1] = p[1]
                /\ \A q \in ToSet(body[t]) : p[1] = q[1] => p = q
                /\ \A u \in Queued : u.row = p[1] => p[2] <= u.ver
          /\ \A id \in k : TableOf[id[1]] = t => \E p \in ToSet(body[t]) : p[1] = id[1]
RecordsOK == \A k \in DOMAIN batch : RecordOK(k)

(***************************************************************************)
(* Two versions of rows of one table that are both in the outbox, in a     *)
(* chunk or in a body that was recorded are in the same order in each.     *)
(***************************************************************************)
Agrees(p, q, units) ==
    \A u, w \in ToSet(units) : Pair(u) = p /\ Pair(w) = q => Before(units, u, w)
RecordsInOrder ==
    \A k \in DOMAIN batch : \A t \in 1..NumTables : \A p, q \in ToSet(batch[k].body[t]) :
        Before(batch[k].body[t], p, q) =>
            Agrees(p, q, outbox) /\ \A c \in Chunks : Agrees(p, q, c)
ChunksInOrder ==
    \A c \in Chunks : \A u, w \in ToSet(c) :
        Before(c, u, w) /\ TableOf[u.row] = TableOf[w.row] => Agrees(Pair(u), Pair(w), outbox)

(***************************************************************************)
(* What the server has said of a version: that it is stored, unless a      *)
(* handler that was left behind has interfered.                            *)
(***************************************************************************)
IsStored(p) == p[2] <= stored[p[1]] \/ p[1] \in overtaken
Changed(units) ==
    Key(units) \in DOMAIN batch =>
        \E u \in ToSet(units) :
            u.ver > 1 /\ Pair(u) \notin ToSet(orderPushChanges(batch[Key(units)].body))

PromisesOK ==
    /\ AcknowledgedIsStored
    /\ \A u \in ToSet(answered) : IsStored(Pair(u))
    /\ \A k \in DOMAIN batch : batch[k].status = "completed" =>
          \A t \in 1..NumTables : \A p \in ToSet(batch[k].body[t]) : IsStored(p)
    /\ \A u \in Queued : acked[u.row] <= u.ver
    /\ \A r \in Rows : acked[r] <= version[r]

(***************************************************************************)
(* The handler that has the request works on the chunk at the front.       *)
(***************************************************************************)
InHand(h) ==
    LET chunk == Head(queue)
    IN  /\ handler[h].pc \in {"apply", "answer"}
        /\ handler[h].pc = "apply" =>
              /\ handler[h].key = Key(chunk)
              /\ ToSet(handler[h].left) \subseteq Pairs(chunk)
              /\ \A p \in Pairs(chunk) : p \in ToSet(handler[h].left) \/ IsStored(p)
        /\ handler[h].pc = "answer" =>
              /\ handler[h].why \in {"applied", "replay"} => \A p \in Pairs(chunk) : IsStored(p)
              /\ handler[h].why = "conflict" => Changed(chunk)
              /\ handler[h].why = "tooMuch" =>
                    \/ ByteCount(chunk) > limits.apiBytes
                    \/ RowCount(merge_pending_units(chunk)) > limits.apiRows
InHandOK == \A h \in at : InHand(h)

LastOK ==
    /\ TooLargeIsTruthful
    /\ last.why = "conflict" => Changed(last.chunk)

IInv ==
    /\ StateType /\ OutboxOK /\ PlayOK /\ ReadOK /\ RecordsOK /\ RecordsInOrder /\ ChunksInOrder
    /\ PromisesOK /\ InHandOK /\ LastOK

-----------------------------------------------------------------------------
(***************************************************************************)
(* The operators.                                                          *)
(***************************************************************************)
LEMMA Constants ==
  /\ NumTables \in Nat \ {0} /\ MaxVersion \in Nat \ {0}
  /\ TableOf \in [Rows -> 1..NumTables]
BY PushAssumption

(* InTable keeps exactly the units of one table, in their order.           *)
LEMMA InTableElements ==
  ASSUME NEW S, NEW units \in Seq(S), NEW t
  PROVE  /\ InTable(units, t) \in Seq(S)
         /\ ToSet(InTable(units, t)) = { u \in ToSet(units) : TableOf[u.row] = t }
         /\ \A x, y : Before(InTable(units, t), x, y) <=>
               /\ x \in ToSet(units) /\ TableOf[x.row] = t
               /\ y \in ToSet(units) /\ TableOf[y.row] = t
               /\ Before(units, x, y)
<1> DEFINE T == { u \in ToSet(units) : TableOf[u.row] = t }
<1>1. /\ Keep(units, T) \in Seq(S) /\ ToSet(Keep(units, T)) = ToSet(units) \cap T
      /\ \A x, y : Before(Keep(units, T), x, y) <=> x \in T /\ y \in T /\ Before(units, x, y)
  <2> HIDE DEF T
  <2> QED BY KeepElements
<1> QED BY <1>1 DEF InTable

(* The body of an envelope has the rows of its units, table by table, in    *)
(* their order.                                                             *)
LEMMA MergeElements ==
  ASSUME NEW c \in Seq(Units)
  PROVE  /\ merge_pending_units(c) \in Bodies
         /\ \A t \in 1..NumTables :
               /\ ToSet(merge_pending_units(c)[t]) =
                     { Pair(u) : u \in { w \in ToSet(c) : TableOf[w.row] = t } }
               /\ \A p, q : Before(merge_pending_units(c)[t], p, q) <=>
                     \E u, w \in ToSet(c) :
                        /\ TableOf[u.row] = t /\ TableOf[w.row] = t
                        /\ Before(c, u, w) /\ Pair(u) = p /\ Pair(w) = q
<1> DEFINE f == [u \in Units |-> Pair(u)]
           Body(t) == LET us == InTable(c, t) IN [i \in DOMAIN us |-> <<us[i].row, us[i].ver>>]
<1>1. f \in [Units -> Versions] /\ \A u \in Units : f[u] = Pair(u)
  BY DEF Units, Pair, Versions
<1>2. ASSUME NEW t \in 1..NumTables
      PROVE  /\ Body(t) \in Seq(Versions)
             /\ ToSet(Body(t)) = { Pair(u) : u \in { w \in ToSet(c) : TableOf[w.row] = t } }
             /\ \A p, q : Before(Body(t), p, q) <=>
                   \E u, w \in ToSet(c) :
                      /\ TableOf[u.row] = t /\ TableOf[w.row] = t
                      /\ Before(c, u, w) /\ Pair(u) = p /\ Pair(w) = q
  <2> DEFINE us == InTable(c, t)
  <2>1. /\ us \in Seq(Units)
        /\ ToSet(us) = { u \in ToSet(c) : TableOf[u.row] = t }
        /\ \A x, y : Before(us, x, y) <=>
               /\ x \in ToSet(c) /\ TableOf[x.row] = t
               /\ y \in ToSet(c) /\ TableOf[y.row] = t
               /\ Before(c, x, y)
    <3> HIDE DEF f
    <3> QED BY InTableElements
  <2>2. ToSet(us) \subseteq Units
    <3> HIDE DEF us, f
    <3> QED BY <2>1 DEF ToSet
  <2>3. Body(t) = [i \in DOMAIN us |-> f[us[i]]]
    <3>1. \A i \in DOMAIN us : us[i] \in Units
      <4> HIDE DEF us, f
      <4> QED BY <2>1
    <3>2. \A i \in DOMAIN us : f[us[i]] = <<us[i].row, us[i].ver>>
      <4> HIDE DEF us, f
      <4> QED BY <3>1, <1>1 DEF Pair
    <3> HIDE DEF f
    <3> QED BY <3>2
  <2> DEFINE m == Body(t)
  <2>4. /\ m \in Seq(Versions)
        /\ ToSet(m) = { f[x] : x \in ToSet(us) }
        /\ \A p, q : Before(m, p, q) <=>
                \E x, y \in ToSet(us) : Before(us, x, y) /\ f[x] = p /\ f[y] = q
    <3>1. f \in [Units -> Versions] /\ us \in Seq(Units)
      BY <1>1, <2>1
    <3>2. DOMAIN m = DOMAIN us /\ \A i \in DOMAIN us : m[i] = f[us[i]]
      <4> HIDE DEF f, us
      <4> QED BY <2>3
    <3>3. m \in Seq(Versions)
      <4>1. DOMAIN us = 1..Len(us) /\ Len(us) \in Nat /\ \A i \in DOMAIN us : us[i] \in Units
        <5> HIDE DEF f, us
        <5> QED BY <3>1
      <4>2. \A i \in DOMAIN us : f[us[i]] \in Versions
        <5> HIDE DEF f, us
        <5> QED BY <3>1, <4>1
      <4>3. m = [i \in 1..Len(us) |-> f[us[i]]] /\ Len(us) \in Nat
        <5> HIDE DEF f, us
        <5> QED BY <2>3, <4>1
      <4>4. \A i \in 1..Len(us) : f[us[i]] \in Versions
        <5> HIDE DEF f, us
        <5> QED BY <4>1, <4>2
      <4> HIDE DEF f, us, m
      <4> QED BY <4>3, <4>4
    <3> HIDE DEF us, f, m
    <3> QED BY <3>1, <3>2, <3>3, MapElements, SMTT(30)
  <2> HIDE DEF us, f, m
  <2>5. ToSet(m) = { Pair(u) : u \in { w \in ToSet(c) : TableOf[w.row] = t } }
    BY <1>1, <2>1, <2>2, <2>4
  <2>6. \A p, q : Before(m, p, q) <=>
                   \E u, w \in ToSet(c) :
                      /\ TableOf[u.row] = t /\ TableOf[w.row] = t
                      /\ Before(c, u, w) /\ Pair(u) = p /\ Pair(w) = q
    BY <1>1, <2>1, <2>2, <2>4
  <2> QED BY <2>4, <2>5, <2>6 DEF m
<1>3. merge_pending_units(c) = [t \in 1..NumTables |-> Body(t)]
  BY DEF merge_pending_units
<1> HIDE DEF Body
<1> QED BY <1>2, <1>3 DEF Bodies

(* The server orders a body's rows table by table, and leaves the order    *)
(* within a table alone.                                                   *)
LEMMA BodyElements ==
  ASSUME NEW body \in Bodies
  PROVE  /\ orderPushChanges(body) \in Seq(Versions)
         /\ ToSet(orderPushChanges(body)) = UNION { ToSet(body[t]) : t \in 1..NumTables }
         /\ \A x, y : Before(orderPushChanges(body), x, y) =>
               \/ \E t \in 1..NumTables : Before(body[t], x, y)
               \/ \E t, w \in 1..NumTables : t < w /\ x \in ToSet(body[t]) /\ y \in ToSet(body[w])
<1>1. body \in Seq(Seq(Versions)) /\ DOMAIN body = 1..NumTables
  BY Constants DEF Bodies
<1> QED BY <1>1, FlattenElements DEF orderPushChanges

(* The rows the server handles for a chunk are the rows and versions of    *)
(* the chunk's units.                                                      *)
LEMMA MergedPairs ==
  ASSUME NEW c \in Seq(Units)
  PROVE  ToSet(orderPushChanges(merge_pending_units(c))) = Pairs(c)
<1>1. \A u \in ToSet(c) : u \in Units /\ TableOf[u.row] \in 1..NumTables
  <2>1. \A u \in ToSet(c) : u \in Units
    BY DEF ToSet
  <2>2. \A u \in Units : u.row \in Rows
    BY DEF Units
  <2> QED BY <2>1, <2>2, Constants
<1>2. /\ merge_pending_units(c) \in Bodies
      /\ \A t \in 1..NumTables :
            ToSet(merge_pending_units(c)[t]) = { Pair(u) : u \in { w \in ToSet(c) : TableOf[w.row] = t } }
  BY MergeElements
<1>3. ToSet(orderPushChanges(merge_pending_units(c)))
        = UNION { ToSet(merge_pending_units(c)[t]) : t \in 1..NumTables }
  BY <1>2, BodyElements
<1> DEFINE body == merge_pending_units(c)
<1>4. ASSUME NEW p \in Pairs(c) PROVE p \in UNION { ToSet(body[t]) : t \in 1..NumTables }
  <2>1. PICK u \in ToSet(c) : p = Pair(u)
    BY DEF Pairs
  <2>2. p \in ToSet(body[TableOf[u.row]])
    BY <2>1, <1>1, <1>2
  <2> QED BY <2>2, <1>1
<1>5. ASSUME NEW t \in 1..NumTables, NEW p \in ToSet(body[t]) PROVE p \in Pairs(c)
  <2>1. PICK u \in ToSet(c) : p = Pair(u)
    BY <1>2, <1>5
  <2> QED BY <2>1 DEF Pairs
<1> QED BY <1>3, <1>4, <1>5

(* One unit makes one row.                                                  *)
LEMMA OneRow ==
  ASSUME NEW c \in Seq(Units), Len(c) = 1
  PROVE  RowCount(merge_pending_units(c)) <= 1
<1> DEFINE body == merge_pending_units(c)
<1>1. \A u, w : ~ Before(c, u, w)
  BY DEF Before
<1>2. \A u, w \in ToSet(c) : u = w
  <2>1. DOMAIN c = {1}
    OBVIOUS
  <2> QED BY <2>1 DEF ToSet
<1>3. /\ body \in Bodies
      /\ \A t \in 1..NumTables :
               /\ ToSet(body[t]) = { Pair(u) : u \in { w \in ToSet(c) : TableOf[w.row] = t } }
               /\ \A p, q : ~ Before(body[t], p, q)
  <2>1. /\ body \in Bodies
        /\ \A t \in 1..NumTables :
              /\ ToSet(body[t]) = { Pair(u) : u \in { w \in ToSet(c) : TableOf[w.row] = t } }
              /\ \A p, q : Before(body[t], p, q) <=>
                     \E u, w \in ToSet(c) :
                        /\ TableOf[u.row] = t /\ TableOf[w.row] = t
                        /\ Before(c, u, w) /\ Pair(u) = p /\ Pair(w) = q
    BY MergeElements
  <2> HIDE DEF body
  <2>2. ASSUME NEW t \in 1..NumTables, NEW p, NEW q, Before(body[t], p, q) PROVE FALSE
    <3>1. \E u, w \in ToSet(c) : Before(c, u, w)
      BY <2>1, <2>2
    <3> QED BY <3>1, <1>1
  <2> QED BY <2>1, <2>2
<1> HIDE DEF body
<1>4. \A t, w \in 1..NumTables : \A x, y : x \in ToSet(body[t]) /\ y \in ToSet(body[w]) => t = w
  <2> SUFFICES ASSUME NEW t \in 1..NumTables, NEW w \in 1..NumTables, NEW x \in ToSet(body[t]), NEW y \in ToSet(body[w])
               PROVE  t = w
    OBVIOUS
  <2>1. PICK u \in ToSet(c) : TableOf[u.row] = t
    BY <1>3
  <2>2. PICK v \in ToSet(c) : TableOf[v.row] = w
    BY <1>3
  <2> QED BY <2>1, <2>2, <1>2
<1>5. orderPushChanges(body) \in Seq(Versions) /\ \A x, y : ~ Before(orderPushChanges(body), x, y)
  <2>1. \A t, w \in 1..NumTables : t < w => t # w
    BY Constants
  <2>2. ASSUME NEW x, NEW y, Before(orderPushChanges(body), x, y) PROVE FALSE
    <3>1. \/ \E t \in 1..NumTables : Before(body[t], x, y)
          \/ \E t, w \in 1..NumTables : t < w /\ x \in ToSet(body[t]) /\ y \in ToSet(body[w])
      BY <1>3, <2>2, BodyElements
    <3>2. \A t \in 1..NumTables : ~ Before(body[t], x, y)
      BY <1>3
    <3>3. \A t, w \in 1..NumTables : x \in ToSet(body[t]) /\ y \in ToSet(body[w]) => ~ (t < w)
      BY <1>4, <2>1
    <3> QED BY <3>1, <3>2, <3>3
  <2>3. orderPushChanges(body) \in Seq(Versions)
    BY <1>3, BodyElements
  <2> QED BY <2>2, <2>3
<1>6. Len(orderPushChanges(body)) <= 1
  BY <1>5, AtMostOneElement
<1> QED BY <1>6 DEF RowCount, orderPushChanges, body

(* A chunk begins where it begins, and where chunks begin never falls.      *)
LEMMA BeginDef ==
  ASSUME NEW S, NEW units \in Seq(S)
  PROVE  /\ DOMAIN Begin(units) = DOMAIN units
         /\ \A n \in DOMAIN units : Begin(units)[n] =
               IF n > 1 /\ Fits(SubSeq(units, Begin(units)[n - 1], n)) THEN Begin(units)[n - 1] ELSE n
<1> DEFINE N == Len(units)
           Next1(n, v) == IF n > 1 /\ Fits(SubSeq(units, v, n)) THEN v ELSE n
           G == [p \in (1..N) \X Nat |-> Next1(p[1], p[2])]
           Eq(f) == f = [n \in DOMAIN units |->
                            IF n > 1 /\ Fits(SubSeq(units, f[n - 1], n)) THEN f[n - 1] ELSE n]
           K == CHOOSE f : Eq(f)
<1>1. N \in Nat /\ DOMAIN units = 1..N
  OBVIOUS
<1>2. G \in [(1..N) \X Nat -> Nat]
  <2>1. \A p \in (1..N) \X Nat : Next1(p[1], p[2]) \in Nat
    OBVIOUS
  <2> HIDE DEF Next1, N
  <2> QED BY <2>1
<1> HIDE DEF N
<1>3. PICK f \in [0..N -> Nat] : f[0] = 0 /\ \A n \in 1..N : f[n] = G[<<n, f[n - 1]>>]
  <2> DEFINE V == Nat
             v0 == 0
  <2>1. N \in Nat /\ v0 \in V /\ G \in [(1..N) \X V -> V]
    BY <1>1, <1>2
  <2> HIDE DEF G, V, v0
  <2>2. PICK f \in Recursive(N, V, v0, G) : TRUE
    BY <2>1, Recursion
  <2> QED BY <2>2 DEF V, v0, Recursive
<1>4. \A n \in 1..N : f[n - 1] \in Nat /\ f[n] = Next1(n, f[n - 1])
  <2> SUFFICES ASSUME NEW n \in 1..N PROVE f[n - 1] \in Nat /\ f[n] = Next1(n, f[n - 1])
    OBVIOUS
  <2>1. f[n - 1] \in Nat
    BY <1>1, <1>3
  <2> HIDE DEF Next1
  <2> QED BY <2>1, <1>3
<1> DEFINE h == [n \in DOMAIN units |-> f[n]]
<1>5. Eq(h)
  <2> DEFINE g == [n \in DOMAIN units |-> Next1(n, h[n - 1])]
  <2>1. ASSUME NEW n \in DOMAIN units PROVE h[n] = g[n]
    <3>1. CASE n = 1
      BY <1>1, <1>4, <3>1
    <3>2. CASE n # 1
      <4>1. n - 1 \in DOMAIN units /\ n \in 1..N
        BY <1>1, <3>2
      <4>2. h[n] = f[n] /\ h[n - 1] = f[n - 1] /\ g[n] = Next1(n, h[n - 1])
        <5> HIDE DEF Next1
        <5> QED BY <4>1
      <4> HIDE DEF h, g, Next1
      <4> QED BY <4>1, <4>2, <1>4
    <3> QED BY <3>1, <3>2
  <2>2. DOMAIN h = DOMAIN g /\ h = [n \in DOMAIN h |-> h[n]] /\ g = [n \in DOMAIN g |-> g[n]]
        /\ DOMAIN h = DOMAIN units
    <3> HIDE DEF Next1
    <3> QED OBVIOUS
  <2>3. h = g
    <3> HIDE DEF g, h
    <3> QED BY <2>1, <2>2
  <2> HIDE DEF h
  <2> QED BY <2>3
<1>6. Eq(K)
  <2> HIDE DEF Eq, h
  <2> QED BY <1>5
<1>7. Begin(units) = K
  BY DEF Begin
<1> DEFINE R(n) == IF n > 1 /\ Fits(SubSeq(units, K[n - 1], n)) THEN K[n - 1] ELSE n
<1>8. DOMAIN K = DOMAIN units /\ \A n \in DOMAIN units : K[n] = R(n)
  <2> DEFINE g == [n \in DOMAIN units |-> R(n)]
  <2>1. K = g
    <3> HIDE DEF K
    <3> QED BY <1>6
  <2>2. DOMAIN g = DOMAIN units /\ \A n \in DOMAIN units : g[n] = R(n)
    <3> HIDE DEF R
    <3> QED OBVIOUS
  <2> HIDE DEF g, R, K
  <2> QED BY <2>1, <2>2
<1> HIDE DEF K
<1> QED BY <1>7, <1>8

(* Begin never decreases along the list, and the unit it names begins its  *)
(* own chunk.                                                              *)
LEMMA BeginGrows ==
  ASSUME NEW S, NEW units \in Seq(S)
  PROVE  LET B == Begin(units)
         IN  \A n \in DOMAIN units :
                /\ B[n] \in 1..n /\ B[B[n]] = B[n]
                /\ \A m \in 1..n : B[m] \in Nat /\ B[m] <= B[n]
<1> DEFINE B == Begin(units)
           N == Len(units)
           Good(n) == B[n] \in 1..n /\ B[B[n]] = B[n] /\ \A m \in 1..n : B[m] \in Nat /\ B[m] <= B[n]
           P == { n \in Nat : n \in 1..N => Good(n) }
<1>1. N \in Nat /\ DOMAIN units = 1..N
  OBVIOUS
<1>2. \A n \in 1..N : B[n] = n \/ (n > 1 /\ B[n] = B[n - 1])
  BY <1>1, BeginDef
<1> HIDE DEF B, N
<1>3. 0 \in P
  OBVIOUS
<1>4. ASSUME NEW n \in Nat, n \in P PROVE n + 1 \in P
  <2> SUFFICES ASSUME n + 1 \in 1..N PROVE Good(n + 1)
    OBVIOUS
  <2>1. \A m \in 1..(n + 1) : m = n + 1 \/ m \in 1..n
    OBVIOUS
  <2>2. CASE n = 0
    <3>1. B[n + 1] = n + 1
      BY <2>2, <1>2
    <3> QED BY <3>1, <2>2
  <2>3. CASE n # 0
    <3>1. n \in 1..N /\ Good(n) /\ (n + 1) - 1 = n
      BY <1>1, <1>4, <2>3
    <3>2. CASE B[n + 1] = n + 1
      <4>1. \A m \in 1..n : B[m] \in Nat /\ B[m] <= n + 1
        BY <3>1
      <4> QED BY <3>2, <4>1, <2>1
    <3>3. CASE B[n + 1] = B[n]
      BY <3>1, <3>3, <2>1
    <3> QED BY <3>1, <3>2, <3>3, <1>2
  <2> QED BY <2>2, <2>3
<1>5. Nat \subseteq P
  <2> HIDE DEF P
  <2> QED BY <1>3, <1>4, SetInduction
<1>6. \A n \in 1..N : Good(n)
  <2> HIDE DEF Good
  <2> QED BY <1>5, <1>1
<1> QED BY <1>1, <1>6 DEF B

(* A push reads the entries table by table, those of a table in their order. *)
PendingUnits == FlattenSeq([t \in 1..NumTables |-> InTable(outbox, t)])

(* The pending units are the outbox's entries, with the rows of one table  *)
(* still in the outbox's order.                                            *)
LEMMA PendingElements ==
  ASSUME outbox \in Seq(Entries)
  PROVE  /\ PendingUnits \in Seq(Entries)
         /\ ToSet(PendingUnits) = ToSet(outbox)
         /\ \A x, y : Before(PendingUnits, x, y) =>
               \/ Before(outbox, x, y) /\ TableOf[x.row] = TableOf[y.row]
               \/ TableOf[x.row] # TableOf[y.row]
         /\ \A x, y \in ToSet(outbox) :
               Before(outbox, x, y) /\ TableOf[x.row] = TableOf[y.row] => Before(PendingUnits, x, y)
<1> DEFINE ss == [t \in 1..NumTables |-> InTable(outbox, t)]
<1>1. ASSUME NEW t \in 1..NumTables
      PROVE  /\ ss[t] \in Seq(Entries)
             /\ ToSet(ss[t]) = { e \in ToSet(outbox) : TableOf[e.row] = t }
             /\ \A x, y : Before(ss[t], x, y) <=>
                   /\ x \in ToSet(outbox) /\ TableOf[x.row] = t
                   /\ y \in ToSet(outbox) /\ TableOf[y.row] = t
                   /\ Before(outbox, x, y)
  <2>1. ss[t] = InTable(outbox, t)
    OBVIOUS
  <2> HIDE DEF ss
  <2> QED BY <2>1, InTableElements
<1>2. ss \in Seq(Seq(Entries)) /\ DOMAIN ss = 1..NumTables
  <2>1. ss = [t \in 1..NumTables |-> ss[t]]
    OBVIOUS
  <2>2. NumTables \in Nat /\ \A t \in 1..NumTables : ss[t] \in Seq(Entries)
    BY <1>1, Constants
  <2> DEFINE N == NumTables
             V == Seq(Entries)
  <2> HIDE DEF ss, N, V
  <2>3. ss \in Seq(V) /\ DOMAIN ss = 1..N
    BY <2>1, <2>2 DEF N, V
  <2> QED BY <2>3 DEF N, V
<1>3. \A e \in ToSet(outbox) : e \in Entries /\ TableOf[e.row] \in 1..NumTables
  <2>1. \A e \in ToSet(outbox) : e \in Entries
    BY DEF ToSet
  <2>2. \A e \in Entries : e.row \in Rows
    BY DEF Entries
  <2> QED BY <2>1, <2>2, Constants
<1>4. PendingUnits = FlattenSeq(ss)
  BY DEF PendingUnits
<1> HIDE DEF ss
<1>5. /\ FlattenSeq(ss) \in Seq(Entries)
      /\ ToSet(FlattenSeq(ss)) = UNION { ToSet(ss[t]) : t \in DOMAIN ss }
      /\ \A x, y : Before(FlattenSeq(ss), x, y) <=>
            \/ \E t \in DOMAIN ss : Before(ss[t], x, y)
            \/ \E t, w \in DOMAIN ss : t < w /\ x \in ToSet(ss[t]) /\ y \in ToSet(ss[w])
  BY <1>2, FlattenElements
<1>6. ToSet(PendingUnits) = ToSet(outbox)
  <2>1. ASSUME NEW e \in ToSet(outbox) PROVE e \in ToSet(PendingUnits)
    <3>1. e \in ToSet(ss[TableOf[e.row]])
      BY <1>1, <1>3
    <3> QED BY <3>1, <1>2, <1>3, <1>4, <1>5
  <2>2. ASSUME NEW e \in ToSet(PendingUnits) PROVE e \in ToSet(outbox)
    <3>1. PICK t \in 1..NumTables : e \in ToSet(ss[t])
      BY <1>2, <1>4, <1>5
    <3> QED BY <3>1, <1>1
  <2> QED BY <2>1, <2>2
<1>7. ASSUME NEW x, NEW y, Before(PendingUnits, x, y)
      PROVE  \/ Before(outbox, x, y) /\ TableOf[x.row] = TableOf[y.row]
             \/ TableOf[x.row] # TableOf[y.row]
  <2>1. CASE \E t \in 1..NumTables : Before(ss[t], x, y)
    BY <2>1, <1>1
  <2>2. CASE \E t, w \in 1..NumTables : t < w /\ x \in ToSet(ss[t]) /\ y \in ToSet(ss[w])
    <3>1. PICK t \in 1..NumTables, w \in 1..NumTables : t < w /\ x \in ToSet(ss[t]) /\ y \in ToSet(ss[w])
      BY <2>2
    <3>2. TableOf[x.row] = t /\ TableOf[y.row] = w
      BY <3>1, <1>1
    <3>3. t # w
      BY <3>1, Constants
    <3> QED BY <3>2, <3>3
  <2> QED BY <2>1, <2>2, <1>2, <1>4, <1>5, <1>7
<1>8. ASSUME NEW x \in ToSet(outbox), NEW y \in ToSet(outbox),
             Before(outbox, x, y), TableOf[x.row] = TableOf[y.row]
      PROVE  Before(PendingUnits, x, y)
  <2>1. Before(ss[TableOf[x.row]], x, y)
    BY <1>1, <1>3, <1>8
  <2> QED BY <2>1, <1>2, <1>3, <1>4, <1>5
<1> QED BY <1>4, <1>5, <1>6, <1>7, <1>8

(* The units with their places.                                             *)
LEMMA PlacedElements ==
  ASSUME NEW units \in Seq(Entries), NEW placed, placed = Placed(units, Begin(units))
  PROVE  /\ placed \in Seq(Units) /\ DOMAIN placed = DOMAIN units
         /\ \A n \in DOMAIN units :
               /\ placed[n].row = units[n].row /\ placed[n].id = units[n].id
               /\ placed[n].ver = units[n].ver /\ placed[n].at = n
               /\ placed[n].of \in 1..n /\ placed[placed[n].of].of = placed[n].of
         /\ \A u, w \in ToSet(placed) : u.at < w.at => u.of <= w.of
         /\ \A u, w \in ToSet(placed) : u.at < w.at <=> Before(placed, u, w)
<1> DEFINE B == Begin(units)
<1>1. DOMAIN units = 1..Len(units) /\ Len(units) \in Nat /\ \A n \in DOMAIN units : units[n] \in Entries
  OBVIOUS
<1>2. \A n \in DOMAIN units :
         B[n] \in 1..n /\ B[B[n]] = B[n] /\ \A m \in 1..n : B[m] \in Nat /\ B[m] <= B[n]
  BY BeginGrows
<1> HIDE DEF B
<1> DEFINE U(n) == [row |-> units[n].row, id |-> units[n].id, ver |-> units[n].ver, of |-> B[n], at |-> n]
<1>3. placed = [n \in DOMAIN units |-> U(n)]
  BY DEF Placed, B
<1>4. ASSUME NEW n \in DOMAIN units PROVE U(n) \in Units
  <2>1. units[n].row \in Rows /\ units[n].id \in Rows \X (1..MaxVersion) /\ units[n].ver \in 1..MaxVersion
    BY <1>1 DEF Entries
  <2>2. B[n] \in Nat \ {0} /\ n \in Nat \ {0}
    BY <1>1, <1>2
  <2> HIDE DEF B
  <2> QED BY <2>1, <2>2 DEF Units
<1>5. \A n \in DOMAIN units : /\ placed[n] = U(n) /\ U(n).row = units[n].row /\ U(n).id = units[n].id
                              /\ U(n).ver = units[n].ver /\ U(n).of = B[n] /\ U(n).at = n
  BY <1>3
<1>6. placed \in Seq(Units) /\ DOMAIN placed = DOMAIN units
  <2> HIDE DEF U
  <2> QED BY <1>1, <1>3, <1>4
<1> HIDE DEF U
<1>7. \A n \in DOMAIN units :
               /\ placed[n].row = units[n].row /\ placed[n].id = units[n].id
               /\ placed[n].ver = units[n].ver /\ placed[n].at = n
               /\ placed[n].of \in 1..n /\ placed[placed[n].of].of = placed[n].of
  <2> SUFFICES ASSUME NEW n \in DOMAIN units
               PROVE  /\ placed[n].row = units[n].row /\ placed[n].id = units[n].id
                      /\ placed[n].ver = units[n].ver /\ placed[n].at = n
                      /\ placed[n].of \in 1..n /\ placed[placed[n].of].of = placed[n].of
    OBVIOUS
  <2>1. placed[n].of = B[n] /\ B[n] \in 1..n /\ B[n] \in DOMAIN units
    BY <1>1, <1>2, <1>5
  <2>2. placed[B[n]].of = B[B[n]] /\ B[B[n]] = B[n]
    BY <2>1, <1>2, <1>5
  <2> QED BY <2>1, <2>2, <1>5
<1>8. ASSUME NEW u \in ToSet(placed), NEW w \in ToSet(placed), u.at < w.at
      PROVE  u.of <= w.of /\ Before(placed, u, w)
  <2>1. PICK m \in DOMAIN units : placed[m] = u
    BY <1>6 DEF ToSet
  <2>2. PICK n \in DOMAIN units : placed[n] = w
    BY <1>6 DEF ToSet
  <2>3. m < n /\ m \in 1..n
    BY <2>1, <2>2, <1>1, <1>5, <1>8
  <2>4. u.of = B[m] /\ w.of = B[n] /\ B[m] <= B[n]
    BY <2>1, <2>2, <2>3, <1>2, <1>5
  <2> QED BY <2>1, <2>2, <2>3, <2>4, <1>6 DEF Before
<1>9. ASSUME NEW u, NEW w, Before(placed, u, w) PROVE u.at < w.at
  <2>1. PICK m \in DOMAIN units, n \in DOMAIN units : m < n /\ placed[m] = u /\ placed[n] = w
    BY <1>6, <1>9 DEF Before
  <2> QED BY <2>1, <1>7
<1> QED BY <1>6, <1>7, <1>8, <1>9

(* The chunks that a push makes of them.                                    *)
LEMMA ChunkElements ==
  ASSUME NEW units \in Seq(Entries),
         NEW placed, placed = Placed(units, Begin(units)),
         NEW chunks, chunks = chunk_pending_push_tables(placed, Starts(placed))
  PROVE  /\ chunks \in Seq(Seq(Units) \ {<<>>})
         /\ UNION { ToSet(c) : c \in ToSet(chunks) } = ToSet(placed)
         /\ \A c \in ToSet(chunks) :
               /\ \A u, w \in ToSet(c) : u.of = w.of
               /\ \A x, y : Before(c, x, y) <=> x \in ToSet(c) /\ y \in ToSet(c) /\ Before(placed, x, y)
         /\ \A c, d : Before(chunks, c, d) => \A u \in ToSet(c), w \in ToSet(d) : u.of < w.of
<1> DEFINE starts == Starts(placed)
           In(o) == { u \in ToSet(placed) : u.of = o }
           C(o) == Keep(placed, In(o))
<1>1. /\ placed \in Seq(Units) /\ DOMAIN placed = DOMAIN units
      /\ \A n \in DOMAIN units :
            placed[n].of \in 1..n /\ placed[placed[n].of].of = placed[n].of
  BY PlacedElements
<1>2. DOMAIN placed = 1..Len(placed) /\ Len(placed) \in Nat
  BY <1>1
<1> DEFINE all == [n \in DOMAIN placed |-> n]
           Begins == { n \in DOMAIN placed : placed[n].of = n }
<1>3. /\ starts \in Seq(Nat)
      /\ ToSet(starts) = Begins
      /\ \A m, n : Before(starts, m, n) => m < n
  <2>1. all \in Seq(Nat) /\ DOMAIN all = DOMAIN placed /\ \A n \in DOMAIN all : all[n] = n
    BY <1>2
  <2>2. starts = Keep(all, Begins)
    BY DEF Starts
  <2> HIDE DEF starts, all, Begins
  <2>3. /\ starts \in Seq(Nat) /\ ToSet(starts) = ToSet(all) \cap Begins
        /\ \A m, n : Before(starts, m, n) => Before(all, m, n)
    BY <2>1, <2>2, KeepElements
  <2>4. ToSet(all) = DOMAIN placed /\ \A m, n : Before(all, m, n) => m < n
    BY <2>1 DEF ToSet, Before
  <2>5. ToSet(starts) = Begins
    BY <2>3, <2>4 DEF Begins
  <2> QED BY <2>3, <2>4, <2>5
<1>4. \A o : /\ C(o) \in Seq(Units) /\ ToSet(C(o)) = In(o)
             /\ \A x, y : Before(C(o), x, y) <=> x \in In(o) /\ y \in In(o) /\ Before(placed, x, y)
  <2> SUFFICES ASSUME NEW o
               PROVE  /\ C(o) \in Seq(Units) /\ ToSet(C(o)) = In(o)
                      /\ \A x, y : Before(C(o), x, y) <=> x \in In(o) /\ y \in In(o) /\ Before(placed, x, y)
    OBVIOUS
  <2> DEFINE T == In(o)
  <2>1. T \subseteq ToSet(placed)
    OBVIOUS
  <2> HIDE DEF T
  <2>2. /\ Keep(placed, T) \in Seq(Units) /\ ToSet(Keep(placed, T)) = ToSet(placed) \cap T
        /\ \A x, y : Before(Keep(placed, T), x, y) <=> x \in T /\ y \in T /\ Before(placed, x, y)
    BY <1>1, KeepElements
  <2> QED BY <2>1, <2>2 DEF T
<1>5. DOMAIN starts = 1..Len(starts) /\ Len(starts) \in Nat
  <2> HIDE DEF starts
  <2> QED BY <1>3
<1>6. chunks = [i \in DOMAIN starts |-> C(starts[i])]
  BY DEF chunk_pending_push_tables
<1>7. \A i \in DOMAIN starts : starts[i] \in Begins
  <2> HIDE DEF starts, Begins
  <2> QED BY <1>3 DEF ToSet
<1> HIDE DEF starts, C
<1>8. \A i \in DOMAIN starts : chunks[i] = C(starts[i]) /\ ToSet(chunks[i]) = In(starts[i])
  BY <1>4, <1>6
<1>9. ASSUME NEW i \in DOMAIN starts PROVE chunks[i] \in Seq(Units) \ {<<>>}
  <2>1. starts[i] \in DOMAIN placed /\ placed[starts[i]].of = starts[i]
    BY <1>7
  <2>2. placed[starts[i]] \in ToSet(chunks[i])
    BY <2>1, <1>8 DEF ToSet
  <2>3. chunks[i] # <<>>
    BY <2>2 DEF ToSet
  <2> QED BY <2>3, <1>4, <1>8
<1>10. chunks \in Seq(Seq(Units) \ {<<>>}) /\ DOMAIN chunks = DOMAIN starts
  <2>1. chunks = [i \in 1..Len(starts) |-> chunks[i]]
    BY <1>5, <1>6
  <2> QED BY <2>1, <1>5, <1>9
<1>11. UNION { ToSet(c) : c \in ToSet(chunks) } = ToSet(placed)
  <2>1. ASSUME NEW u \in ToSet(placed) PROVE \E c \in ToSet(chunks) : u \in ToSet(c)
    <3>1. PICK n \in DOMAIN placed : placed[n] = u
      BY DEF ToSet
    <3>2. u.of \in 1..n /\ placed[u.of].of = u.of
      BY <3>1, <1>1
    <3>3. u.of \in Begins
      BY <3>2, <1>2
    <3>4. PICK i \in DOMAIN starts : starts[i] = u.of
      BY <3>3, <1>3 DEF ToSet
    <3>5. u \in ToSet(chunks[i])
      BY <3>4, <1>8
    <3> QED BY <3>5, <1>10 DEF ToSet
  <2>2. ASSUME NEW c \in ToSet(chunks) PROVE ToSet(c) \subseteq ToSet(placed)
    <3>1. PICK i \in DOMAIN starts : chunks[i] = c
      BY <1>10 DEF ToSet
    <3> QED BY <3>1, <1>8
  <2> QED BY <2>1, <2>2
<1>12. ASSUME NEW c \in ToSet(chunks)
       PROVE  /\ \A u, w \in ToSet(c) : u.of = w.of
              /\ \A x, y : Before(c, x, y) <=> x \in ToSet(c) /\ y \in ToSet(c) /\ Before(placed, x, y)
  <2>1. PICK i \in DOMAIN starts : chunks[i] = c
    BY <1>10 DEF ToSet
  <2>2. c = C(starts[i]) /\ ToSet(c) = In(starts[i])
    BY <2>1, <1>8
  <2>3. \A u, w \in ToSet(c) : u.of = w.of
    BY <2>2
  <2> HIDE DEF In
  <2>4. \A x, y : Before(c, x, y) <=> x \in ToSet(c) /\ y \in ToSet(c) /\ Before(placed, x, y)
    BY <2>2, <1>4
  <2> QED BY <2>3, <2>4
<1>13. ASSUME NEW c, NEW d, Before(chunks, c, d), NEW u \in ToSet(c), NEW w \in ToSet(d)
       PROVE  u.of < w.of
  <2>1. PICK i \in DOMAIN starts, j \in DOMAIN starts : i < j /\ chunks[i] = c /\ chunks[j] = d
    BY <1>10, <1>13 DEF Before
  <2>2. Before(starts, starts[i], starts[j])
    BY <2>1 DEF Before
  <2>3. starts[i] < starts[j]
    BY <2>2, <1>3
  <2>4. u.of = starts[i] /\ w.of = starts[j]
    BY <2>1, <1>8
  <2> QED BY <2>3, <2>4
<1> HIDE DEF In, Begins
<1> QED BY <1>10, <1>11, <1>12, <1>13

-----------------------------------------------------------------------------
(***************************************************************************)
(* What a step does to the deque, the outbox and the records, in terms the *)
(* invariant is made of.                                                   *)
(***************************************************************************)
VersionsGrow ==
    /\ version' \in [Rows -> 1..MaxVersion]
    /\ \A r \in Rows : version[r] <= version'[r]

(* Chunks stay or are cut in pieces that keep their order, or leave.        *)
ChunksShrink ==
    \A d \in Chunks' : \E c \in Chunks :
        /\ ToSet(d) \subseteq ToSet(c)
        /\ \A u, w \in ToSet(d) : Before(d, u, w) <=> Before(c, u, w)

(* Entries keep their order; a version written by now is not written again. *)
OutboxKept ==
    \A p, q \in Versions :
        p[2] <= version[p[1]] /\ q[2] <= version[q[1]] /\ Agrees(p, q, outbox) => Agrees(p, q, outbox')

RecordsKept ==
    /\ DOMAIN batch' \subseteq DOMAIN batch
    /\ \A k \in DOMAIN batch' : batch'[k].body = batch[k].body

-----------------------------------------------------------------------------
(***************************************************************************)
(* Units, entries and rows.                                                *)
(***************************************************************************)
LEMMA UnitFields ==
  ASSUME NEW u \in Units
  PROVE  /\ u.row \in Rows /\ u.id \in RowIds /\ u.id[1] \in Rows /\ u.id[2] \in 1..MaxVersion
         /\ u.ver \in 1..MaxVersion /\ u.of \in Nat \ {0} /\ u.at \in Nat \ {0}
         /\ u.ver \in Nat /\ u.ver >= 1
         /\ Pair(u) \in Versions /\ Pair(u)[1] = u.row /\ Pair(u)[2] = u.ver
         /\ TableOf[u.row] \in 1..NumTables
BY Constants DEF Units, RowIds, Versions, Pair

(* The parts of an outbox entry.                                           *)
LEMMA EntryFields ==
  ASSUME NEW u \in Entries
  PROVE  /\ u.row \in Rows /\ u.id \in RowIds /\ u.id[1] \in Rows /\ u.id[2] \in 1..MaxVersion
         /\ u.ver \in 1..MaxVersion
         /\ Pair(u) \in Versions /\ Pair(u)[1] = u.row /\ Pair(u)[2] = u.ver
         /\ TableOf[u.row] \in 1..NumTables
BY Constants DEF Entries, RowIds, Versions, Pair

(* The parts of a row with its version.                                    *)
LEMMA PairFields ==
  ASSUME NEW p \in Versions
  PROVE  /\ p[1] \in Rows /\ p[2] \in 1..MaxVersion /\ p[2] \in Nat /\ p[2] >= 1 /\ p = <<p[1], p[2]>>
         /\ TableOf[p[1]] \in 1..NumTables
BY Constants DEF Versions

(* A list's elements, and that of two of them one comes before the other.  *)
LEMMA SeqElements ==
  ASSUME NEW S, NEW s \in Seq(S)
  PROVE  /\ ToSet(s) \subseteq S /\ (s = <<>> <=> ToSet(s) = {})
         /\ \A x, y : Before(s, x, y) => x \in ToSet(s) /\ y \in ToSet(s)
         /\ \A x, y \in ToSet(s) : x = y \/ Before(s, x, y) \/ Before(s, y, x)
<1>1. DOMAIN s = 1..Len(s) /\ Len(s) \in Nat /\ \A i \in DOMAIN s : s[i] \in S
  OBVIOUS
<1>2. ToSet(s) = { s[i] : i \in DOMAIN s }
  BY DEF ToSet
<1>3. ToSet(s) \subseteq S /\ (s = <<>> <=> ToSet(s) = {})
  <2>1. s = <<>> <=> Len(s) = 0
    OBVIOUS
  <2>2. Len(s) # 0 => s[1] \in ToSet(s)
    BY <1>1, <1>2
  <2>3. Len(s) = 0 => ToSet(s) = {}
    BY <1>1, <1>2
  <2> QED BY <1>1, <1>2, <2>1, <2>2, <2>3
<1>4. \A x, y : Before(s, x, y) => x \in ToSet(s) /\ y \in ToSet(s)
  BY <1>2 DEF Before
<1>5. ASSUME NEW x \in ToSet(s), NEW y \in ToSet(s) PROVE x = y \/ Before(s, x, y) \/ Before(s, y, x)
  <2>1. PICK i \in DOMAIN s : s[i] = x
    BY <1>2
  <2>2. PICK j \in DOMAIN s : s[j] = y
    BY <1>2
  <2>3. i = j \/ i < j \/ j < i
    BY <1>1
  <2> QED BY <2>1, <2>2, <2>3 DEF Before
<1> QED BY <1>3, <1>4, <1>5

(* Every unit of the push under way is a unit.                             *)
LEMMA InPlayTypes ==
  ASSUME StateType
  PROVE  /\ \A c \in Chunks : c \in Seq(Units) /\ c # <<>> /\ ToSet(c) \subseteq Units /\ ToSet(c) # {}
         /\ \A c \in Chunks : ToSet(c) \subseteq Queued
         /\ ToSet(answered) \subseteq Units /\ Queued \subseteq Units /\ InPlay \subseteq Units
         /\ ToSet(outbox) \subseteq Entries
<1>1. queue \in Seq(Seq(Units) \ {<<>>}) /\ answered \in Seq(Units) /\ outbox \in Seq(Entries)
  BY DEF StateType, TypeOK
<1>2. Chunks \subseteq Seq(Units) \ {<<>>}
  BY <1>1, SeqElements DEF Chunks
<1>3. \A c \in Chunks : c \in Seq(Units) /\ c # <<>> /\ ToSet(c) \subseteq Units /\ ToSet(c) # {}
  BY <1>2, SeqElements
<1>4. ToSet(answered) \subseteq Units /\ ToSet(outbox) \subseteq Entries
  BY <1>1, SeqElements
<1> QED BY <1>3, <1>4 DEF Queued, InPlay

(* No row is in the deque twice.                                            *)
LEMMA ChunksApart ==
  ASSUME StateType, PlayOK, NEW c \in Chunks, NEW d \in Chunks,
         NEW u \in ToSet(c), NEW w \in ToSet(d), u.row = w.row
  PROVE  c = d /\ u = w
<1>1. c = d \/ Before(queue, c, d) \/ Before(queue, d, c)
  <2>1. queue \in Seq(Seq(Units))
    BY DEF StateType, TypeOK
  <2> QED BY <2>1, SeqElements DEF Chunks
<1>2. ~ Before(queue, c, d) /\ ~ Before(queue, d, c)
  BY DEF PlayOK, Follows
<1>3. c = d
  BY <1>1, <1>2
<1>4. ListOK(c)
  BY DEF PlayOK
<1> QED BY <1>3, <1>4 DEF ListOK

(* The chunk being sent and the chunks behind it.                          *)
LEMMA HeadOfQueue ==
  ASSUME StateType, queue # <<>>
  PROVE  /\ Head(queue) \in Chunks /\ Tail(queue) \in Seq(Seq(Units) \ {<<>>})
         /\ Chunks = {Head(queue)} \cup ToSet(Tail(queue))
         /\ \A c, d : Before(queue, c, d) <=>
                Before(Tail(queue), c, d) \/ (c = Head(queue) /\ d \in ToSet(Tail(queue)))
         /\ Head(queue) \in Seq(Units) /\ Head(queue) # <<>> /\ ToSet(Head(queue)) \subseteq Units
<1>1. queue \in Seq(Seq(Units) \ {<<>>})
  BY DEF StateType, TypeOK
<1>2. /\ Head(queue) \in Seq(Units) \ {<<>>} /\ Tail(queue) \in Seq(Seq(Units) \ {<<>>})
      /\ ToSet(queue) = {Head(queue)} \cup ToSet(Tail(queue))
      /\ \A c, d : Before(queue, c, d) <=>
                Before(Tail(queue), c, d) \/ (c = Head(queue) /\ d \in ToSet(Tail(queue)))
  <2> DEFINE V == Seq(Units) \ {<<>>}
  <2> HIDE DEF V
  <2>1. queue \in Seq(V)
    BY <1>1 DEF V
  <2>2. /\ Head(queue) \in V /\ Tail(queue) \in Seq(V)
        /\ ToSet(queue) = {Head(queue)} \cup ToSet(Tail(queue))
        /\ \A c, d : Before(queue, c, d) <=>
                Before(Tail(queue), c, d) \/ (c = Head(queue) /\ d \in ToSet(Tail(queue)))
    BY <2>1, HeadTailElements
  <2> QED BY <2>2 DEF V
<1> QED BY <1>2, SeqElements DEF Chunks

(* The two halves of a chunk.                                               *)
LEMMA SplitElements ==
  ASSUME NEW c \in Seq(Units), Len(c) > 1, ListOK(c)
  PROVE  \E first, second \in Seq(Units) \ {<<>>} :
            /\ split_push_chunk_for_retry(c) = <<second, first>>
            /\ ToSet(first) \cup ToSet(second) = ToSet(c)
            /\ \A u \in ToSet(first), w \in ToSet(second) : u.row # w.row
            /\ \A u, w \in ToSet(first) : Before(first, u, w) <=> Before(c, u, w)
            /\ \A u, w \in ToSet(second) : Before(second, u, w) <=> Before(c, u, w)
<1> DEFINE mid == Len(c) \div 2
           first == SubSeq(c, 1, mid)
           second == SubSeq(c, mid + 1, Len(c))
<1>1. Len(c) \in Nat /\ DOMAIN c = 1..Len(c) /\ ToSet(c) = { c[i] : i \in 1..Len(c) }
  BY DEF ToSet
<1>2. mid \in Nat /\ 1 <= mid /\ mid + 1 <= Len(c)
  BY <1>1
<1>3. /\ first \in Seq(Units) /\ Len(first) = mid /\ ToSet(first) = { c[i] : i \in 1..mid }
      /\ \A x, y : Before(first, x, y) => Before(c, x, y)
  <2> HIDE DEF mid
  <2>1. 1 \in 1..(Len(c) + 1) /\ mid \in 0..Len(c)
    BY <1>1, <1>2
  <2>2. /\ SubSeq(c, 1, mid) \in Seq(Units) /\ Len(SubSeq(c, 1, mid)) = IF 1 <= mid THEN mid - 1 + 1 ELSE 0
        /\ ToSet(SubSeq(c, 1, mid)) = { c[i] : i \in 1..mid }
        /\ \A x, y : Before(SubSeq(c, 1, mid), x, y) => Before(c, x, y)
    BY <2>1, SubSeqElements
  <2> QED BY <2>2, <1>2
<1>4. /\ second \in Seq(Units) /\ Len(second) = Len(c) - mid /\ ToSet(second) = { c[i] : i \in (mid + 1)..Len(c) }
      /\ \A x, y : Before(second, x, y) => Before(c, x, y)
  <2> HIDE DEF mid
  <2>1. mid + 1 \in 1..(Len(c) + 1) /\ Len(c) \in 0..Len(c)
    BY <1>1, <1>2
  <2>2. /\ second \in Seq(Units) /\ Len(second) = IF mid + 1 <= Len(c) THEN Len(c) - (mid + 1) + 1 ELSE 0
        /\ ToSet(second) = { c[i] : i \in (mid + 1)..Len(c) }
        /\ \A x, y : Before(second, x, y) => Before(c, x, y)
    BY <2>1, SubSeqElements
  <2> QED BY <2>2, <1>1, <1>2
<1>5. \A x \in ToSet(c) : ~ Before(c, x, x)
  BY DEF ListOK
<1>6. \A u, w \in ToSet(first) : Before(first, u, w) <=> Before(c, u, w)
  <2> HIDE DEF mid
  <2>1. 1 \in 1..(Len(c) + 1) /\ mid \in 0..Len(c)
    BY <1>1, <1>2
  <2>2. \A u, w \in ToSet(first) : Before(c, u, w) => Before(first, u, w)
    BY <2>1, <1>5, SubSeqOrder
  <2> QED BY <2>2, <1>3
<1>7. \A u, w \in ToSet(second) : Before(second, u, w) <=> Before(c, u, w)
  <2> HIDE DEF mid
  <2>1. mid + 1 \in 1..(Len(c) + 1) /\ Len(c) \in 0..Len(c)
    BY <1>1, <1>2
  <2>2. \A u, w \in ToSet(second) : Before(c, u, w) => Before(second, u, w)
    BY <2>1, <1>5, SubSeqOrder
  <2> QED BY <2>2, <1>4
<1>8. ASSUME NEW u \in ToSet(first), NEW w \in ToSet(second) PROVE u.row # w.row
  <2> HIDE DEF mid
  <2>1. PICK i \in 1..mid : u = c[i]
    BY <1>3
  <2>2. PICK j \in (mid + 1)..Len(c) : w = c[j]
    BY <1>4
  <2>3. i \in DOMAIN c /\ j \in DOMAIN c /\ i < j
    BY <1>1, <1>2
  <2>4. Before(c, u, w) /\ u \in ToSet(c) /\ w \in ToSet(c)
    BY <2>1, <2>2, <2>3, <1>1 DEF Before
  <2> QED BY <2>4 DEF ListOK
<1>9. ToSet(first) \cup ToSet(second) = ToSet(c)
  <2> HIDE DEF mid, first, second
  <2>1. \A i \in 1..Len(c) : i \in 1..mid \/ i \in (mid + 1)..Len(c)
    BY <1>1, <1>2
  <2>2. \A i : i \in 1..mid \/ i \in (mid + 1)..Len(c) => i \in 1..Len(c)
    BY <1>1, <1>2
  <2> QED BY <1>1, <1>3, <1>4, <2>1, <2>2
<1>10. first # <<>> /\ second # <<>>
  <2> HIDE DEF mid, first, second
  <2> QED BY <1>1, <1>2, <1>3, <1>4
<1>11. split_push_chunk_for_retry(c) = Keep(<<second, first>>, {first, second} \ {<<>>})
  BY DEF split_push_chunk_for_retry
<1> HIDE DEF first, second, mid
<1>12. Keep(<<second, first>>, {first, second} \ {<<>>}) = <<second, first>>
  <2> DEFINE T == {first, second} \ {<<>>}
             s == <<second, first>>
             V == Seq(Units)
  <2>1. T = {first, second} /\ s \in Seq(V) /\ Len(s) = 2 /\ s[1] = second /\ s[2] = first
    BY <1>3, <1>4, <1>10
  <2>2. first # second
    <3>1. \A u \in ToSet(first), w \in ToSet(second) : u # w
      BY <1>8
    <3>2. ToSet(first) # {} /\ ToSet(second) # {}
      BY <1>3, <1>4, <1>10, SeqElements
    <3> QED BY <3>1, <3>2
  <2>3. \A x, y : Before(s, x, y) <=> x = second /\ y = first
    BY DEF Before
  <2>4. \A x : ~ Before(s, x, x)
    BY <2>2, <2>3
  <2>5. ToSet(s) = {first, second}
    BY DEF ToSet
  <2> HIDE DEF T, s, V
  <2>6. /\ Keep(s, T) \in Seq(V) /\ ToSet(Keep(s, T)) = ToSet(s) \cap T
        /\ \A x, y : Before(Keep(s, T), x, y) <=> x \in T /\ y \in T /\ Before(s, x, y)
    BY <2>1, KeepElements
  <2>7. ToSet(Keep(s, T)) = ToSet(s)
    BY <2>1, <2>5, <2>6
  <2> DEFINE k == Keep(s, T)
  <2>8. k \in Seq(V) /\ ToSet(s) = ToSet(k) /\ \A x : ~ Before(k, x, x)
    BY <2>4, <2>6, <2>7
  <2>9. \A x, y : Before(k, x, y) => Before(s, x, y)
    BY <2>6
  <2> HIDE DEF k
  <2>10. s = k
    BY <2>1, <2>4, <2>8, <2>9, SameOrder
  <2> QED BY <2>10 DEF T, s, k
<1> QED BY <1>3, <1>4, <1>6, <1>7, <1>8, <1>9, <1>10, <1>11, <1>12

-----------------------------------------------------------------------------
(***************************************************************************)
(* The deque: nothing happens to it, it is emptied, its first chunk is     *)
(* split or answered.                                                      *)
(***************************************************************************)
LEMMA PairOrder ==
  ASSUME NEW a, NEW b, NEW S, a \in S, b \in S
  PROVE  /\ <<a, b>> \in Seq(S) /\ ToSet(<<a, b>>) = {a, b}
         /\ \A x, y : Before(<<a, b>>, x, y) <=> x = a /\ y = b
BY DEF ToSet, Before

(* A step that leaves the queue alone leaves what is in play alone.        *)
LEMMA QueueSame ==
  ASSUME UNCHANGED <<queue, answered>>
  PROVE  /\ Chunks' = Chunks /\ Queued' = Queued /\ InPlay' = InPlay /\ ChunksShrink
BY DEF Chunks, Queued, InPlay, ChunksShrink

(* Ending a push leaves no chunk.                                          *)
LEMMA QueueEmpty ==
  ASSUME queue' = <<>>
  PROVE  /\ Chunks' = {} /\ Queued' = {} /\ ChunksShrink
<1>1. Chunks' = {}
  BY DEF Chunks, ToSet
<1> QED BY <1>1 DEF Queued, ChunksShrink

(* Splitting puts two chunks in the place of one, with the same units.     *)
LEMMA QueueSplit ==
  ASSUME StateType, PlayOK, queue # <<>>, Len(Head(queue)) > 1, Split
  PROVE  /\ queue' \in Seq(Seq(Units) \ {<<>>})
         /\ Queued' = Queued /\ InPlay' = InPlay /\ ChunksShrink
         /\ \E first, second :
              /\ ToSet(first) \cup ToSet(second) = ToSet(Head(queue))
              /\ \A u \in ToSet(first), w \in ToSet(second) : u.row # w.row
              /\ \A u, w \in ToSet(first) : Before(first, u, w) <=> Before(Head(queue), u, w)
              /\ \A u, w \in ToSet(second) : Before(second, u, w) <=> Before(Head(queue), u, w)
              /\ Chunks' = {first, second} \cup ToSet(Tail(queue))
              /\ \A c, d : Before(queue', c, d) =>
                    \/ c = second /\ d = first
                    \/ Before(Tail(queue), c, d)
                    \/ c \in {first, second} /\ d \in ToSet(Tail(queue))
<1> DEFINE front == Head(queue)
           tail == Tail(queue)
           V == Seq(Units) \ {<<>>}
<1>1. /\ front \in Chunks /\ tail \in Seq(V) /\ Chunks = {front} \cup ToSet(tail)
      /\ front \in Seq(Units)
  BY HeadOfQueue
<1>2. PICK first \in V, second \in V :
            /\ split_push_chunk_for_retry(front) = <<second, first>>
            /\ ToSet(first) \cup ToSet(second) = ToSet(front)
            /\ \A u \in ToSet(first), w \in ToSet(second) : u.row # w.row
            /\ \A u, w \in ToSet(first) : Before(first, u, w) <=> Before(front, u, w)
            /\ \A u, w \in ToSet(second) : Before(second, u, w) <=> Before(front, u, w)
  BY <1>1, SplitElements DEF PlayOK
<1>3. queue' = <<second, first>> \o tail /\ answered' = answered
  BY <1>2 DEF Split
<1> HIDE DEF V, front, tail
<1>4. /\ <<second, first>> \in Seq(V) /\ ToSet(<<second, first>>) = {first, second}
      /\ \A x, y : Before(<<second, first>>, x, y) <=> x = second /\ y = first
  BY <1>2, PairOrder
<1>5. /\ queue' \in Seq(V) /\ ToSet(queue') = {first, second} \cup ToSet(tail)
      /\ \A x, y : Before(queue', x, y) <=>
             \/ (x = second /\ y = first) \/ Before(tail, x, y)
             \/ x \in {first, second} /\ y \in ToSet(tail)
  <2> DEFINE two == <<second, first>>
  <2> HIDE DEF two
  <2>1. /\ two \o tail \in Seq(V) /\ ToSet(two \o tail) = ToSet(two) \cup ToSet(tail)
        /\ \A x, y : Before(two \o tail, x, y) <=>
                \/ Before(two, x, y) \/ Before(tail, x, y)
                \/ x \in ToSet(two) /\ y \in ToSet(tail)
    BY <1>1, <1>4, ConcatElements DEF two
  <2> QED BY <1>3, <1>4, <2>1 DEF two
<1>6. Chunks' = {first, second} \cup ToSet(tail)
  BY <1>5 DEF Chunks
<1>7. Queued' = Queued
  <2>1. Queued' = UNION { ToSet(c) : c \in Chunks' }
    BY DEF Queued
  <2> QED BY <2>1, <1>1, <1>2, <1>6 DEF Queued
<1>8. InPlay' = InPlay
  BY <1>3, <1>7 DEF InPlay
<1>9. ChunksShrink
  <2>0. \A c \in Chunks' : c = first \/ c = second \/ c \in ToSet(tail)
    BY <1>6
  <2>1. first \in Chunks' => \E c \in Chunks : /\ ToSet(first) \subseteq ToSet(c)
                         /\ \A u, w \in ToSet(first) : Before(first, u, w) <=> Before(c, u, w)
    BY <1>1, <1>2
  <2>2. second \in Chunks' => \E c \in Chunks : /\ ToSet(second) \subseteq ToSet(c)
                         /\ \A u, w \in ToSet(second) : Before(second, u, w) <=> Before(c, u, w)
    BY <1>1, <1>2
  <2>3. \A c \in ToSet(tail) : c \in Chunks
    BY <1>1
  <2> DEFINE Covered(d) == \E c \in Chunks : /\ ToSet(d) \subseteq ToSet(c)
                                            /\ \A u, w \in ToSet(d) : Before(d, u, w) <=> Before(c, u, w)
  <2>4. \A d \in ToSet(tail) : Covered(d)
    BY <2>3
  <2>5. \A d \in Chunks' : Covered(d)
    <3> HIDE DEF Covered
    <3>1. (first \in Chunks' => Covered(first)) /\ (second \in Chunks' => Covered(second))
      BY <2>1, <2>2 DEF Covered
    <3> QED BY <2>0, <2>4, <3>1
  <2> QED BY <2>5 DEF ChunksShrink
<1>10. /\ ToSet(first) \cup ToSet(second) = ToSet(Head(queue))
       /\ \A u \in ToSet(first), w \in ToSet(second) : u.row # w.row
       /\ \A u, w \in ToSet(first) : Before(first, u, w) <=> Before(Head(queue), u, w)
       /\ \A u, w \in ToSet(second) : Before(second, u, w) <=> Before(Head(queue), u, w)
  BY <1>2 DEF front
<1>11. /\ Chunks' = {first, second} \cup ToSet(Tail(queue))
       /\ \A c, d : Before(queue', c, d) =>
             \/ c = second /\ d = first
             \/ Before(Tail(queue), c, d)
             \/ c \in {first, second} /\ d \in ToSet(Tail(queue))
  BY <1>5, <1>6 DEF tail
<1>12. queue' \in Seq(Seq(Units) \ {<<>>})
  BY <1>5 DEF V
<1> QED BY <1>7, <1>8, <1>9, <1>10, <1>11, <1>12, SMTT(30)

Moved == answered' = answered \o Head(queue) /\ queue' = Tail(queue)

(* An answered chunk leaves the queue, and its units join the answered     *)
(* ones.                                                                   *)
LEMMA QueueMoved ==
  ASSUME StateType, queue # <<>>, Moved
  PROVE  /\ queue' \in Seq(Seq(Units) \ {<<>>}) /\ answered' \in Seq(Units)
         /\ Chunks' \subseteq Chunks /\ Queued' \subseteq Queued /\ InPlay' = InPlay /\ ChunksShrink
         /\ Chunks = {Head(queue)} \cup Chunks'
         /\ \A c, d : Before(queue, c, d) <=> Before(queue', c, d) \/ (c = Head(queue) /\ d \in Chunks')
         /\ ToSet(answered') = ToSet(answered) \cup ToSet(Head(queue))
         /\ \A u, w : Before(answered', u, w) <=>
              \/ Before(answered, u, w) \/ Before(Head(queue), u, w)
              \/ u \in ToSet(answered) /\ w \in ToSet(Head(queue))
<1>1. /\ queue' \in Seq(Seq(Units) \ {<<>>})
      /\ Chunks = {Head(queue)} \cup Chunks'
      /\ \A c, d : Before(queue, c, d) <=> Before(queue', c, d) \/ (c = Head(queue) /\ d \in Chunks')
      /\ Head(queue) \in Seq(Units)
  BY HeadOfQueue DEF Moved, Chunks
<1>2. answered \in Seq(Units)
  BY DEF StateType, TypeOK
<1>3. /\ answered' \in Seq(Units)
      /\ ToSet(answered') = ToSet(answered) \cup ToSet(Head(queue))
      /\ \A u, w : Before(answered', u, w) <=>
              \/ Before(answered, u, w) \/ Before(Head(queue), u, w)
              \/ u \in ToSet(answered) /\ w \in ToSet(Head(queue))
  BY <1>1, <1>2, ConcatElements DEF Moved
<1>4. Queued = ToSet(Head(queue)) \cup Queued'
  BY <1>1 DEF Queued
<1>5. InPlay' = InPlay
  BY <1>3, <1>4 DEF InPlay
<1>6. ChunksShrink
  BY <1>1 DEF ChunksShrink
<1> QED BY <1>1, <1>3, <1>4, <1>5, <1>6

-----------------------------------------------------------------------------
(***************************************************************************)
(* PlayOK.                                                                 *)
(***************************************************************************)
LEMMA UnitsStayOK ==
  ASSUME StateType, PlayOK, VersionsGrow, InPlay' \subseteq InPlay
  PROVE  /\ \A u \in InPlay' : UnitOK(u)'
         /\ \A u, w \in InPlay' : u.at < w.at => u.of <= w.of
<1>1. version \in [Rows -> 1..MaxVersion]
  BY DEF StateType, TypeOK
<1>2. ASSUME NEW u \in InPlay' PROVE UnitOK(u)'
  <2>1. u \in Units /\ UnitOK(u)
    BY InPlayTypes DEF PlayOK
  <2>2. u.row \in Rows /\ u.ver \in Nat
    BY <2>1, UnitFields
  <2>3. version[u.row] \in Nat /\ version'[u.row] \in Nat /\ version[u.row] <= version'[u.row]
    BY <1>1, <2>2, Constants DEF VersionsGrow
  <2> QED BY <2>1, <2>2, <2>3 DEF UnitOK
<1> QED BY <1>2 DEF PlayOK

(* What is known of the units in play stays true when the queue does not   *)
(* change, even if rows are edited or pulled.                              *)
LEMMA PlaySame ==
  ASSUME StateType, PlayOK, VersionsGrow, UNCHANGED <<queue, answered>>
  PROVE  PlayOK'
<1>1. Chunks' = Chunks /\ InPlay' = InPlay
  BY QueueSame
<1>2. /\ \A u \in InPlay' : UnitOK(u)'
      /\ \A u, w \in InPlay' : u.at < w.at => u.of <= w.of
  BY <1>1, UnitsStayOK
<1> QED BY <1>1, <1>2 DEF PlayOK

(* With nothing in play there is nothing to show.                          *)
LEMMA PlayEmpty ==
  ASSUME queue' = <<>>, answered' = <<>>
  PROVE  PlayOK'
<1>1. Chunks' = {} /\ Queued' = {}
  BY QueueEmpty
<1>2. ToSet(answered') = {} /\ \A x, y : ~ Before(answered', x, y)
  BY DEF ToSet, Before
<1>3. InPlay' = {}
  BY <1>1, <1>2 DEF InPlay
<1> QED BY <1>1, <1>2, <1>3 DEF PlayOK, ListOK

(* A split keeps what is known of the units in play: its halves share no   *)
(* row.                                                                    *)
LEMMA PlaySplit ==
  ASSUME StateType, PlayOK, VersionsGrow, queue # <<>>, Len(Head(queue)) > 1, Split
  PROVE  PlayOK'
<1> DEFINE front == Head(queue)
           tail == Tail(queue)
<1>1. PICK first, second :
              /\ ToSet(first) \cup ToSet(second) = ToSet(front)
              /\ \A u \in ToSet(first), w \in ToSet(second) : u.row # w.row
              /\ \A u, w \in ToSet(first) : Before(first, u, w) <=> Before(front, u, w)
              /\ \A u, w \in ToSet(second) : Before(second, u, w) <=> Before(front, u, w)
              /\ Chunks' = {first, second} \cup ToSet(tail)
              /\ \A c, d : Before(queue', c, d) =>
                    \/ c = second /\ d = first
                    \/ Before(tail, c, d)
                    \/ c \in {first, second} /\ d \in ToSet(tail)
  BY QueueSplit
<1>2. InPlay' = InPlay /\ answered' = answered
  BY QueueSplit DEF Split
<1>3. /\ \A u \in InPlay' : UnitOK(u)'
      /\ \A u, w \in InPlay' : u.at < w.at => u.of <= w.of
  BY <1>2, UnitsStayOK
<1>4. /\ front \in Chunks /\ Chunks = {front} \cup ToSet(tail) /\ ToSet(front) \subseteq Units
      /\ \A c, d : Before(queue, c, d) <=> Before(tail, c, d) \/ (c = front /\ d \in ToSet(tail))
  BY HeadOfQueue
<1> HIDE DEF front, tail
<1>5. ListOK(first) /\ ListOK(second)
  <2>1. ListOK(front)
    BY <1>4 DEF PlayOK
  <2> QED BY <1>1, <2>1 DEF ListOK
<1>6. ASSUME NEW c \in {first, second}
      PROVE  /\ ToSet(c) \subseteq ToSet(front)
             /\ Follows(answered, c) /\ \A u, w \in ToSet(c) : u.of = w.of
             /\ \A d \in ToSet(tail) : Follows(c, d)
  <2>1. ToSet(c) \subseteq ToSet(front)
    BY <1>1
  <2>2. Follows(answered, front) /\ \A u, w \in ToSet(front) : u.of = w.of
    BY <1>4 DEF PlayOK
  <2>3. \A d \in ToSet(tail) : Follows(front, d)
    BY <1>4 DEF PlayOK
  <2> QED BY <2>1, <2>2, <2>3 DEF Follows
<1>7. Follows(second, first)
  <2>1. \A u, w \in ToSet(front) : u.of \in Nat /\ u.of = w.of
    BY <1>4, UnitFields DEF PlayOK
  <2>2. \A u \in ToSet(second), w \in ToSet(first) : u.row # w.row /\ u.of <= w.of
    BY <1>1, <2>1
  <2> QED BY <2>2 DEF Follows
<1>8. ASSUME NEW c \in Chunks'
      PROVE  ListOK(c) /\ Follows(answered, c) /\ \A u, w \in ToSet(c) : u.of = w.of
  <2>1. CASE c \in {first, second}
    BY <1>5, <1>6, <2>1
  <2>2. CASE c \in ToSet(tail)
    BY <1>4, <2>2 DEF PlayOK
  <2> QED BY <1>1, <2>1, <2>2
<1>9. ASSUME NEW c \in Chunks', NEW d \in Chunks', Before(queue', c, d) PROVE Follows(c, d)
  <2>1. CASE c = second /\ d = first
    BY <1>7, <2>1
  <2>2. CASE Before(tail, c, d)
    <3>1. c \in ToSet(tail) /\ d \in ToSet(tail)
      BY <2>2 DEF Before, ToSet
    <3> QED BY <1>4, <2>2, <3>1 DEF PlayOK
  <2>3. CASE c \in {first, second} /\ d \in ToSet(tail)
    BY <1>6, <2>3
  <2> QED BY <1>1, <1>9, <2>1, <2>2, <2>3
<1> QED BY <1>2, <1>3, <1>8, <1>9 DEF PlayOK

(* So does an answer: the head's units are before the others', or of the   *)
(* same original chunk.                                                    *)
LEMMA PlayMoved ==
  ASSUME StateType, PlayOK, VersionsGrow, queue # <<>>, Moved
  PROVE  PlayOK'
<1> DEFINE front == Head(queue)
<1>1. /\ Chunks' \subseteq Chunks /\ InPlay' = InPlay
      /\ Chunks = {front} \cup Chunks'
      /\ \A c, d : Before(queue, c, d) <=> Before(queue', c, d) \/ (c = front /\ d \in Chunks')
      /\ ToSet(answered') = ToSet(answered) \cup ToSet(front)
      /\ \A u, w : Before(answered', u, w) <=>
              \/ Before(answered, u, w) \/ Before(front, u, w)
              \/ u \in ToSet(answered) /\ w \in ToSet(front)
  BY QueueMoved
<1>2. /\ \A u \in InPlay' : UnitOK(u)'
      /\ \A u, w \in InPlay' : u.at < w.at => u.of <= w.of
  BY <1>1, UnitsStayOK
<1>3. ToSet(front) \subseteq Units
  BY HeadOfQueue
<1> HIDE DEF front
<1>4. /\ ListOK(answered) /\ ListOK(front) /\ Follows(answered, front)
      /\ \A u, w \in ToSet(front) : u.of = w.of
      /\ \A u, w \in ToSet(answered) : Before(answered, u, w) => u.of <= w.of
      /\ \A c \in Chunks' : ListOK(c) /\ Follows(answered, c) /\ Follows(front, c)
                            /\ \A u, w \in ToSet(c) : u.of = w.of
  BY <1>1 DEF PlayOK
<1>5. ListOK(answered')
  <2>1. ASSUME NEW u \in ToSet(answered') PROVE ~ Before(answered', u, u)
    <3>1. ~ (u \in ToSet(answered) /\ u \in ToSet(front))
      BY <1>4 DEF Follows
    <3>2. ~ Before(answered, u, u) /\ ~ Before(front, u, u)
      <4>1. Before(answered, u, u) => u \in ToSet(answered)
        BY DEF Before, ToSet
      <4>2. Before(front, u, u) => u \in ToSet(front)
        BY DEF Before, ToSet
      <4> QED BY <1>4, <4>1, <4>2 DEF ListOK
    <3> QED BY <1>1, <3>1, <3>2
  <2>2. ASSUME NEW u \in ToSet(answered'), NEW w \in ToSet(answered'), u.row = w.row PROVE u = w
    BY <1>1, <1>4, <2>2 DEF ListOK, Follows
  <2> QED BY <2>1, <2>2 DEF ListOK
<1>6. ASSUME NEW u \in ToSet(answered'), NEW w \in ToSet(answered'), Before(answered', u, w)
      PROVE  u.of <= w.of
  <2>1. CASE Before(answered, u, w)
    <3>1. u \in ToSet(answered) /\ w \in ToSet(answered)
      BY <2>1 DEF Before, ToSet
    <3> QED BY <1>4, <2>1, <3>1
  <2>2. CASE Before(front, u, w)
    <3>1. u \in ToSet(front) /\ w \in ToSet(front)
      BY <2>2 DEF Before, ToSet
    <3>2. u.of = w.of /\ u.of \in Nat
      BY <3>1, <1>3, <1>4, UnitFields
    <3> QED BY <3>2
  <2>3. CASE u \in ToSet(answered) /\ w \in ToSet(front)
    BY <1>4, <2>3 DEF Follows
  <2> QED BY <1>1, <1>6, <2>1, <2>2, <2>3
<1>7. ASSUME NEW c \in Chunks' PROVE Follows(answered', c)
  BY <1>1, <1>4 DEF Follows
<1>8. ASSUME NEW c \in Chunks', NEW d \in Chunks', Before(queue', c, d) PROVE Follows(c, d)
  BY <1>1, <1>8 DEF PlayOK
<1> QED BY <1>2, <1>4, <1>5, <1>6, <1>7, <1>8 DEF PlayOK

-----------------------------------------------------------------------------
(***************************************************************************)
(* StartPush: the units are the entries.                                   *)
(***************************************************************************)
EntryOf(u) == [row |-> u.row, id |-> u.id, ver |-> u.ver]

(* A push starts with the outbox's entries, each in one unit, cut into     *)
(* chunks with no repeated unit.                                           *)
LEMMA QueueStarted ==
  ASSUME StateType, OutboxOK, StartPush
  PROVE  /\ queue' \in Seq(Seq(Units) \ {<<>>}) /\ answered' = <<>> /\ Queued' \subseteq Units
         /\ { EntryOf(u) : u \in Queued' } = ToSet(outbox)
         /\ \A u, w \in Queued' : (EntryOf(u) = EntryOf(w) => u = w) /\ (u.at < w.at => u.of <= w.of)
         /\ \A c \in Chunks' :
              /\ ToSet(c) \subseteq Queued'
              /\ \A u, w \in ToSet(c) :
                    /\ u.of = w.of /\ ~ Before(c, u, u)
                    /\ TableOf[u.row] = TableOf[w.row] =>
                         (Before(c, u, w) <=> Before(outbox, EntryOf(u), EntryOf(w)))
         /\ \A c, d : Before(queue', c, d) => \A u \in ToSet(c), w \in ToSet(d) : u.of < w.of
<1> DEFINE units == PendingUnits
           placed == Placed(units, Begin(units))
           chunks == chunk_pending_push_tables(placed, Starts(placed))
<1>1. outbox \in Seq(Entries)
  BY DEF StateType, TypeOK
<1>2. queue' = chunks /\ answered' = <<>>
  BY DEF StartPush, PendingUnits
<1>3. /\ units \in Seq(Entries) /\ ToSet(units) = ToSet(outbox)
      /\ \A x, y : Before(units, x, y) =>
               \/ Before(outbox, x, y) /\ TableOf[x.row] = TableOf[y.row]
               \/ TableOf[x.row] # TableOf[y.row]
      /\ \A x, y \in ToSet(outbox) :
               Before(outbox, x, y) /\ TableOf[x.row] = TableOf[y.row] => Before(units, x, y)
  BY <1>1, PendingElements
<1>4. /\ placed \in Seq(Units) /\ DOMAIN placed = DOMAIN units
      /\ \A n \in DOMAIN units :
            /\ placed[n].row = units[n].row /\ placed[n].id = units[n].id
            /\ placed[n].ver = units[n].ver /\ placed[n].at = n
      /\ \A u, w \in ToSet(placed) : u.at < w.at => u.of <= w.of
      /\ \A u, w \in ToSet(placed) : u.at < w.at <=> Before(placed, u, w)
  <2> HIDE DEF units
  <2> QED BY <1>3, PlacedElements
<1>5. /\ chunks \in Seq(Seq(Units) \ {<<>>})
      /\ UNION { ToSet(c) : c \in ToSet(chunks) } = ToSet(placed)
      /\ \A c \in ToSet(chunks) :
               /\ \A u, w \in ToSet(c) : u.of = w.of
               /\ \A x, y : Before(c, x, y) <=> x \in ToSet(c) /\ y \in ToSet(c) /\ Before(placed, x, y)
      /\ \A c, d : Before(chunks, c, d) => \A u \in ToSet(c), w \in ToSet(d) : u.of < w.of
  <2> HIDE DEF units
  <2> QED BY <1>3, ChunkElements
<1> HIDE DEF units, placed, chunks
<1>6. Chunks' = ToSet(chunks) /\ Queued' = ToSet(placed)
  <2>1. Chunks' = ToSet(chunks)
    BY <1>2 DEF Chunks
  <2>2. Queued' = UNION { ToSet(c) : c \in Chunks' }
    BY DEF Queued
  <2> QED BY <2>1, <2>2, <1>5
<1>7. DOMAIN units = 1..Len(units) /\ Len(units) \in Nat /\ \A n \in DOMAIN units : units[n] \in Entries
  BY <1>3
<1>8. \A n \in DOMAIN units : EntryOf(placed[n]) = units[n]
  <2>1. ASSUME NEW n \in DOMAIN units PROVE EntryOf(placed[n]) = units[n]
    <3>1. units[n] \in Entries
      BY <1>7
    <3>2. units[n] = [row |-> units[n].row, id |-> units[n].id, ver |-> units[n].ver]
      BY <3>1 DEF Entries
    <3> QED BY <3>2, <1>4 DEF EntryOf
  <2> QED BY <2>1
<1>9. \A e \in ToSet(outbox) : ~ Before(units, e, e)
  BY <1>3 DEF OutboxOK
<1>10. \A m, n \in DOMAIN units : units[m] = units[n] => m = n
  <2>1. ASSUME NEW m \in DOMAIN units, NEW n \in DOMAIN units, units[m] = units[n] PROVE m = n
    <3>1. units[m] \in ToSet(outbox)
      BY <1>3 DEF ToSet
    <3>2. ~ m < n /\ ~ n < m
      BY <3>1, <2>1, <1>9 DEF Before
    <3> QED BY <3>2, <1>7
  <2> QED BY <2>1
<1>11. \A u \in ToSet(placed) : \E n \in DOMAIN units : placed[n] = u
  BY <1>4 DEF ToSet
<1>12. { EntryOf(u) : u \in Queued' } = ToSet(outbox)
  <2>1. ASSUME NEW u \in Queued' PROVE EntryOf(u) \in ToSet(outbox)
    <3>1. PICK n \in DOMAIN units : placed[n] = u
      BY <1>6, <1>11
    <3> QED BY <3>1, <1>3, <1>8 DEF ToSet
  <2>2. ASSUME NEW e \in ToSet(outbox) PROVE \E u \in Queued' : EntryOf(u) = e
    <3>1. PICK n \in DOMAIN units : units[n] = e
      BY <1>3 DEF ToSet
    <3>2. placed[n] \in Queued'
      BY <1>4, <1>6 DEF ToSet
    <3> QED BY <3>1, <3>2, <1>8
  <2> QED BY <2>1, <2>2
<1>13. ASSUME NEW u \in Queued', NEW w \in Queued', EntryOf(u) = EntryOf(w) PROVE u = w
  <2>1. PICK m \in DOMAIN units : placed[m] = u
    BY <1>6, <1>11
  <2>2. PICK n \in DOMAIN units : placed[n] = w
    BY <1>6, <1>11
  <2> QED BY <2>1, <2>2, <1>8, <1>10, <1>13
<1>14. ASSUME NEW c \in Chunks', NEW u \in ToSet(c), NEW w \in ToSet(c)
       PROVE  /\ u.of = w.of /\ ~ Before(c, u, u)
              /\ TableOf[u.row] = TableOf[w.row] =>
                   (Before(c, u, w) <=> Before(outbox, EntryOf(u), EntryOf(w)))
  <2>1. u \in Queued' /\ w \in Queued'
    BY <1>5, <1>6
  <2>2. PICK m \in DOMAIN units : placed[m] = u
    BY <2>1, <1>6, <1>11
  <2>3. PICK n \in DOMAIN units : placed[n] = w
    BY <2>1, <1>6, <1>11
  <2>4. u.at = m /\ w.at = n /\ m \in Nat /\ EntryOf(u) = units[m] /\ EntryOf(w) = units[n]
    BY <2>2, <2>3, <1>4, <1>7, <1>8
  <2>5. Before(c, u, w) <=> m < n
    BY <2>1, <2>4, <1>4, <1>5, <1>6
  <2>6. ~ Before(c, u, u)
    BY <2>1, <2>4, <1>4, <1>5, <1>6
  <2>7. Before(units, EntryOf(u), EntryOf(w)) <=> m < n
    BY <2>4, <1>10 DEF Before
  <2>8. EntryOf(u).row = u.row /\ EntryOf(w).row = w.row
    BY DEF EntryOf
  <2>9. EntryOf(u) \in ToSet(outbox) /\ EntryOf(w) \in ToSet(outbox)
    BY <2>1, <1>12
  <2>10. TableOf[u.row] = TableOf[w.row] =>
           (Before(units, EntryOf(u), EntryOf(w)) <=> Before(outbox, EntryOf(u), EntryOf(w)))
    BY <2>8, <2>9, <1>3
  <2> QED BY <2>5, <2>6, <2>7, <2>10, <1>5, <1>6
<1>15. Queued' \subseteq Units
  BY <1>4, <1>6, SeqElements
<1>16. \A c \in Chunks' : ToSet(c) \subseteq Queued'
  BY <1>5, <1>6
<1> QED BY <1>2, <1>4, <1>5, <1>6, <1>12, <1>13, <1>14, <1>15, <1>16

(* A unit of a push that starts stands for the one entry of its row, at    *)
(* the row's version.                                                      *)
LEMMA StartedUnits ==
  ASSUME StateType, OutboxOK, StartPush, NEW u \in Queued'
  PROVE  /\ EntryOf(u) \in ToSet(outbox) /\ u \in Units
         /\ u.id[1] = u.row /\ u.ver = version[u.row] /\ u.id[2] <= version[u.row]
         /\ \A w \in Queued' : u.row = w.row => u = w
<1>1. /\ EntryOf(u) \in ToSet(outbox) /\ u \in Units
      /\ \A w \in Queued' : EntryOf(w) \in ToSet(outbox) /\ (EntryOf(u) = EntryOf(w) => u = w)
  BY QueueStarted
<1>2. \A w : EntryOf(w).row = w.row /\ EntryOf(w).id = w.id /\ EntryOf(w).ver = w.ver
  BY DEF EntryOf
<1>3. \A e, f \in ToSet(outbox) : e.row = f.row => e = f
  BY DEF StateType, TypeOK
<1> QED BY <1>1, <1>2, <1>3 DEF OutboxOK

(* The units in play are right when a push starts.                         *)
LEMMA PlayStarted ==
  ASSUME StateType, OutboxOK, StartPush
  PROVE  PlayOK'
<1>1. /\ answered' = <<>>
      /\ \A u, w \in Queued' : u.at < w.at => u.of <= w.of
      /\ \A c \in Chunks' :
              /\ ToSet(c) \subseteq Queued'
              /\ \A u, w \in ToSet(c) : u.of = w.of /\ ~ Before(c, u, u)
      /\ \A c, d : Before(queue', c, d) => \A u \in ToSet(c), w \in ToSet(d) : u.of < w.of
  BY QueueStarted
<1>2. ToSet(answered') = {} /\ \A x, y : ~ Before(answered', x, y)
  BY <1>1 DEF ToSet, Before
<1>3. InPlay' = Queued'
  BY <1>2 DEF InPlay
<1>4. version' = version
  BY DEF StartPush, Frame, device
<1>5. ASSUME NEW u \in Queued' PROVE UnitOK(u)'
  <2>1. u.id[1] = u.row /\ u.ver = version[u.row] /\ u \in Units
    BY StartedUnits
  <2>2. u.ver <= version[u.row]
    BY <2>1, UnitFields
  <2> QED BY <2>1, <2>2, <1>4 DEF UnitOK
<1>6. \A c \in Chunks' : ListOK(c)
  BY <1>1, StartedUnits DEF ListOK
<1>7. ASSUME NEW c \in Chunks', NEW d \in Chunks', Before(queue', c, d) PROVE Follows(c, d)
  <2> SUFFICES ASSUME NEW u \in ToSet(c), NEW w \in ToSet(d) PROVE u.row # w.row /\ u.of <= w.of
    BY DEF Follows
  <2>1. u \in Queued' /\ w \in Queued' /\ u.of < w.of
    BY <1>1, <1>7
  <2>2. u.of \in Nat /\ w.of \in Nat
    BY <2>1, StartedUnits, UnitFields
  <2>3. u # w
    BY <2>1, <2>2
  <2> QED BY <2>1, <2>2, <2>3, StartedUnits
<1> QED BY <1>1, <1>2, <1>3, <1>5, <1>6, <1>7 DEF PlayOK, ListOK, Follows

-----------------------------------------------------------------------------
(***************************************************************************)
(* Edit, Pull and MarkSynced: the outbox.                                  *)
(***************************************************************************)
LEMMA Edited ==
  ASSUME StateType, OutboxOK, NEW r \in Rows, Edit(r)
  PROVE  /\ version[r] + 1 \in 1..MaxVersion /\ version' = [version EXCEPT ![r] = version[r] + 1]
         /\ VersionsGrow /\ version'[r] = version[r] + 1
         /\ outbox' \in Seq(Entries)
         /\ \E e \in Entries :
              /\ e.row = r /\ e.ver = version'[r] /\ e.id[1] = r
              /\ e.id[2] = version'[r] \/ \E o \in ToSet(outbox) : e.id = o.id
              /\ \A x : x \in ToSet(outbox') <=> x = e \/ (x \in ToSet(outbox) /\ x.row # r)
              /\ \A x, y : Before(outbox', x, y) <=>
                    \/ Before(outbox, x, y) /\ x.row # r /\ y.row # r
                    \/ x \in ToSet(outbox) /\ x.row # r /\ y = e
<1> DEFINE old == { e \in ToSet(outbox) : e.row = r }
           v == version[r] + 1
           rest == ToSet(outbox) \ old
<1>1. /\ outbox \in Seq(Entries) /\ version \in [Rows -> 1..MaxVersion] /\ ToSet(outbox) \subseteq Entries
      /\ MaxVersion \in Nat
  BY InPlayTypes, Constants DEF StateType, TypeOK
<1>2. v \in 1..MaxVersion /\ version' = [version EXCEPT ![r] = v]
  BY <1>1 DEF Edit
<1>3. VersionsGrow /\ version'[r] = v
  BY <1>1, <1>2 DEF VersionsGrow
<1>4. PICK e \in IF old = {} THEN { Entry(r, v, v) } ELSE { Entry(r, o.id[2], v) : o \in old } :
          outbox' = Append(Keep(outbox, rest), e)
  BY DEF Edit
<1>5. /\ e \in Entries /\ e.row = r /\ e.ver = v /\ e.id[1] = r
      /\ e.id[2] = v \/ \E o \in ToSet(outbox) : e.id = o.id
  <2>1. CASE old = {}
    <3>1. e = Entry(r, v, v)
      BY <1>4, <2>1
    <3> QED BY <3>1, <1>2 DEF Entry, Entries
  <2>2. CASE old # {}
    <3>1. PICK o \in old : e = Entry(r, o.id[2], v)
      BY <1>4, <2>2
    <3>2. o \in Entries /\ o.id[1] = r /\ o \in ToSet(outbox)
      BY <1>1 DEF OutboxOK
    <3>3. o.id[2] \in 1..MaxVersion /\ o.id = <<r, o.id[2]>>
      BY <3>2 DEF Entries
    <3> QED BY <3>1, <3>2, <3>3, <1>2 DEF Entry, Entries
  <2> QED BY <2>1, <2>2
<1>6. \A x : x \in rest <=> x \in ToSet(outbox) /\ x.row # r
  OBVIOUS
<1> HIDE DEF rest, old, v
<1>7. /\ Keep(outbox, rest) \in Seq(Entries) /\ ToSet(Keep(outbox, rest)) = ToSet(outbox) \cap rest
      /\ \A x, y : Before(Keep(outbox, rest), x, y) <=> x \in rest /\ y \in rest /\ Before(outbox, x, y)
  BY <1>1, KeepElements
<1>8. /\ outbox' \in Seq(Entries)
      /\ ToSet(outbox') = ToSet(Keep(outbox, rest)) \cup {e}
      /\ \A x, y : Before(outbox', x, y) <=>
             Before(Keep(outbox, rest), x, y) \/ (x \in ToSet(Keep(outbox, rest)) /\ y = e)
  <2> DEFINE k == Keep(outbox, rest)
  <2> HIDE DEF k
  <2>1. k \in Seq(Entries) /\ outbox' = Append(k, e)
    BY <1>4, <1>7 DEF k
  <2>2. /\ outbox' \in Seq(Entries) /\ ToSet(outbox') = ToSet(k) \cup {e}
        /\ \A x, y : Before(outbox', x, y) <=> Before(k, x, y) \/ (x \in ToSet(k) /\ y = e)
    BY <2>1, <1>5, AppendElements
  <2> QED BY <2>2 DEF k
<1>9. \A x, y : Before(outbox, x, y) => x \in ToSet(outbox) /\ y \in ToSet(outbox)
  BY <1>1, SeqElements
<1>10. \A x : x \in ToSet(outbox') <=> x = e \/ (x \in ToSet(outbox) /\ x.row # r)
  BY <1>6, <1>7, <1>8
<1>11. \A x, y : Before(outbox', x, y) <=>
                    \/ Before(outbox, x, y) /\ x.row # r /\ y.row # r
                    \/ x \in ToSet(outbox) /\ x.row # r /\ y = e
  BY <1>6, <1>7, <1>8, <1>9
<1> QED BY <1>2, <1>3, <1>5, <1>8, <1>10, <1>11 DEF v

(* An edit keeps the outbox right: one entry per row, under the row's      *)
(* version, in the order of edits.                                         *)
LEMMA EditOutbox ==
  ASSUME StateType, OutboxOK, NEW r \in Rows, Edit(r)
  PROVE  /\ OutboxOK' /\ OutboxKept
         /\ \A e, f \in ToSet(outbox') : e.row = f.row => e = f
<1>1. /\ VersionsGrow /\ version'[r] = version[r] + 1
      /\ version' = [version EXCEPT ![r] = version[r] + 1]
  BY Edited
<1>2. PICK e \in Entries :
              /\ e.row = r /\ e.ver = version'[r] /\ e.id[1] = r
              /\ e.id[2] = version'[r] \/ \E o \in ToSet(outbox) : e.id = o.id
              /\ \A x : x \in ToSet(outbox') <=> x = e \/ (x \in ToSet(outbox) /\ x.row # r)
              /\ \A x, y : Before(outbox', x, y) <=>
                    \/ Before(outbox, x, y) /\ x.row # r /\ y.row # r
                    \/ x \in ToSet(outbox) /\ x.row # r /\ y = e
  BY Edited
<1>3. /\ version \in [Rows -> 1..MaxVersion] /\ ToSet(outbox) \subseteq Entries /\ MaxVersion \in Nat
      /\ \A x, y \in ToSet(outbox) : x.row = y.row => x = y
  BY InPlayTypes, Constants DEF StateType, TypeOK
<1>4. \A s \in Rows : s # r => version'[s] = version[s]
  BY <1>1, <1>3
<1>5. version[r] \in Nat
  BY <1>3
<1>6. e.id[2] <= version'[r]
  <2>1. CASE e.id[2] = version'[r]
    BY <2>1, <1>1, <1>5
  <2>2. CASE \E o \in ToSet(outbox) : e.id = o.id
    <3>1. PICK o \in ToSet(outbox) : e.id = o.id
      BY <2>2
    <3>2. o.row = r /\ o.id[2] <= version[r] /\ o.id[2] \in Nat
      BY <3>1, <1>2, <1>3, EntryFields DEF OutboxOK
    <3> QED BY <3>1, <3>2, <1>1, <1>5
  <2> QED BY <1>2, <2>1, <2>2
<1>7. ASSUME NEW x \in ToSet(outbox')
      PROVE  /\ x.id[1] = x.row /\ x.ver = version'[x.row] /\ x.id[2] <= version'[x.row]
             /\ ~ Before(outbox', x, x)
  <2>1. CASE x = e
    BY <2>1, <1>2, <1>6
  <2>2. CASE x \in ToSet(outbox) /\ x.row # r
    <3>1. x.row \in Rows
      BY <2>2, <1>3, EntryFields
    <3>2. version'[x.row] = version[x.row]
      BY <3>1, <2>2, <1>4
    <3> QED BY <3>2, <2>2, <1>2 DEF OutboxOK
  <2> QED BY <1>2, <1>7, <2>1, <2>2
<1>8. \A x, y \in ToSet(outbox') : x.row = y.row => x = y
  BY <1>2, <1>3
<1>9. OutboxKept
  <2> SUFFICES ASSUME NEW p \in Versions, NEW q \in Versions,
                      p[2] <= version[p[1]], q[2] <= version[q[1]], Agrees(p, q, outbox),
                      NEW x \in ToSet(outbox'), NEW y \in ToSet(outbox'), Pair(x) = p, Pair(y) = q
               PROVE  Before(outbox', x, y)
    BY DEF OutboxKept, Agrees
  <2>1. Pair(e)[1] = r /\ Pair(e)[2] = version[r] + 1
    BY <1>1, <1>2 DEF Pair
  <2>2. p # Pair(e) /\ q # Pair(e)
    BY <2>1, <1>5
  <2>3. x # e /\ y # e
    BY <2>2
  <2>4. x \in ToSet(outbox) /\ x.row # r /\ y \in ToSet(outbox) /\ y.row # r
    BY <2>3, <1>2
  <2>5. Before(outbox, x, y)
    BY <2>4 DEF Agrees
  <2> QED BY <2>4, <2>5, <1>2
<1> QED BY <1>7, <1>8, <1>9 DEF OutboxOK

(* A pull puts the new version under the pending entry, where it is.       *)
LEMMA PulledOutbox ==
  ASSUME StateType, OutboxOK, NEW r \in Rows, Pull(r)
  PROVE  /\ version[r] + 1 \in 1..MaxVersion /\ version' = [version EXCEPT ![r] = version[r] + 1]
         /\ VersionsGrow /\ version'[r] = version[r] + 1
         /\ outbox' \in Seq(Entries) /\ OutboxOK' /\ OutboxKept
         /\ \A e, f \in ToSet(outbox') : e.row = f.row => e = f
         /\ \A e \in ToSet(outbox') : \E o \in ToSet(outbox) : e.id = o.id
<1> DEFINE v == version[r] + 1
           f == [e \in Entries |-> IF e.row = r THEN Entry(r, e.id[2], v) ELSE e]
<1>1. /\ outbox \in Seq(Entries) /\ version \in [Rows -> 1..MaxVersion] /\ ToSet(outbox) \subseteq Entries
      /\ MaxVersion \in Nat /\ \A x, y \in ToSet(outbox) : x.row = y.row => x = y
  BY InPlayTypes, Constants DEF StateType, TypeOK
<1>2. /\ v \in 1..MaxVersion /\ version' = [version EXCEPT ![r] = v]
      /\ outbox' = [i \in DOMAIN outbox |->
                        IF outbox[i].row = r THEN Entry(r, outbox[i].id[2], v) ELSE outbox[i]]
  BY <1>1 DEF Pull
<1>3. VersionsGrow /\ version'[r] = v /\ v = version[r] + 1 /\ version[r] \in Nat
  BY <1>1, <1>2 DEF VersionsGrow
<1>4. \A s \in Rows : s # r => version'[s] = version[s]
  BY <1>1, <1>2
<1>5. ASSUME NEW e \in Entries
      PROVE  /\ e.row = r => f[e] = Entry(r, e.id[2], v)
             /\ e.row # r => f[e] = e
             /\ f[e] \in Entries /\ f[e].row = e.row
  <2>1. e.id[2] \in 1..MaxVersion
    BY EntryFields
  <2>2. Entry(r, e.id[2], v) \in Entries /\ Entry(r, e.id[2], v).row = r
    BY <2>1, <1>2 DEF Entry, Entries
  <2> QED BY <2>2
<1>6. f \in [Entries -> Entries]
  BY <1>5
<1>7. DOMAIN outbox = 1..Len(outbox) /\ Len(outbox) \in Nat /\ \A i \in DOMAIN outbox : outbox[i] \in Entries
  BY <1>1
<1>8. DOMAIN outbox' = DOMAIN outbox /\ \A i \in DOMAIN outbox : outbox'[i] = f[outbox[i]]
  BY <1>2, <1>7
<1> HIDE DEF f, v
<1>9. outbox' = [i \in 1..Len(outbox) |-> outbox'[i]] /\ \A i \in 1..Len(outbox) : outbox'[i] \in Entries
  BY <1>2, <1>5, <1>7, <1>8
<1>10. outbox' \in Seq(Entries)
  BY <1>7, <1>9
<1>11. /\ ToSet(outbox') = { f[x] : x \in ToSet(outbox) }
       /\ \A p, q : Before(outbox', p, q) <=>
              \E x, y \in ToSet(outbox) : Before(outbox, x, y) /\ f[x] = p /\ f[y] = q
  <2> DEFINE m == outbox'
  <2>1. m \in Seq(Entries) /\ DOMAIN m = DOMAIN outbox /\ \A i \in DOMAIN outbox : m[i] = f[outbox[i]]
    BY <1>8, <1>10
  <2> HIDE DEF m
  <2>2. /\ ToSet(m) = { f[x] : x \in ToSet(outbox) }
        /\ \A p, q : Before(m, p, q) <=>
               \E x, y \in ToSet(outbox) : Before(outbox, x, y) /\ f[x] = p /\ f[y] = q
    BY <1>1, <1>6, <2>1, MapElements
  <2> QED BY <2>2 DEF m
<1>12. ASSUME NEW o \in ToSet(outbox)
       PROVE  /\ f[o].id = o.id /\ f[o].row = o.row /\ f[o].ver = version'[o.row]
              /\ o.id[1] = o.row /\ o.id[2] <= version'[o.row]
              /\ o.row # r => f[o] = o
  <2>1. /\ o \in Entries /\ o.row \in Rows /\ o.id \in RowIds /\ o.id[2] \in Nat
        /\ version[o.row] \in Nat /\ version'[o.row] \in Nat /\ version[o.row] <= version'[o.row]
    BY <1>1, <1>3, EntryFields DEF VersionsGrow, RowIds
  <2>2. o.id[1] = o.row /\ o.ver = version[o.row] /\ o.id[2] <= version[o.row]
    BY DEF OutboxOK
  <2>3. CASE o.row = r
    <3>1. f[o] = Entry(r, o.id[2], v) /\ o.id = <<r, o.id[2]>>
      BY <2>1, <2>2, <2>3, <1>5 DEF RowIds
    <3> QED BY <3>1, <2>1, <2>2, <2>3, <1>3 DEF Entry
  <2>4. CASE o.row # r
    BY <2>1, <2>2, <2>4, <1>4, <1>5
  <2> QED BY <2>3, <2>4
<1>13. \A x, y \in ToSet(outbox) : f[x].row = f[y].row => x = y
  BY <1>1, <1>12
<1>14. ASSUME NEW e \in ToSet(outbox')
       PROVE  /\ e.id[1] = e.row /\ e.ver = version'[e.row] /\ e.id[2] <= version'[e.row]
              /\ ~ Before(outbox', e, e)
              /\ \E o \in ToSet(outbox) : e.id = o.id
  <2>1. PICK o \in ToSet(outbox) : e = f[o]
    BY <1>11
  <2>2. ~ Before(outbox', e, e)
    <3> SUFFICES ASSUME Before(outbox', e, e) PROVE FALSE
      OBVIOUS
    <3>1. PICK x \in ToSet(outbox), y \in ToSet(outbox) : Before(outbox, x, y) /\ f[x] = e /\ f[y] = e
      BY <1>11
    <3>2. x = y
      BY <3>1, <1>13
    <3> QED BY <3>1, <3>2 DEF OutboxOK
  <2> QED BY <2>1, <2>2, <1>12
<1>15. \A x, y \in ToSet(outbox') : x.row = y.row => x = y
  BY <1>11, <1>13
<1>16. OutboxKept
  <2> SUFFICES ASSUME NEW p \in Versions, NEW q \in Versions,
                      p[2] <= version[p[1]], q[2] <= version[q[1]], Agrees(p, q, outbox),
                      NEW x \in ToSet(outbox'), NEW y \in ToSet(outbox'), Pair(x) = p, Pair(y) = q
               PROVE  Before(outbox', x, y)
    BY DEF OutboxKept, Agrees
  <2>1. PICK a \in ToSet(outbox), b \in ToSet(outbox) : x = f[a] /\ y = f[b]
    BY <1>11
  <2>2. p[1] = a.row /\ p[2] = version'[a.row] /\ q[1] = b.row /\ q[2] = version'[b.row]
    BY <2>1, <1>12 DEF Pair
  <2>3. a.row # r /\ b.row # r
    BY <2>2, <1>3
  <2>4. x = a /\ y = b
    BY <2>1, <2>3, <1>12
  <2>5. Before(outbox, a, b)
    BY <2>4 DEF Agrees
  <2> QED BY <2>1, <2>5, <1>11
<1> QED BY <1>2, <1>3, <1>10, <1>14, <1>15, <1>16 DEF OutboxOK, v

(* Marking takes out the entries whose ids were answered, and no other.    *)
LEMMA MarkedOutbox ==
  ASSUME StateType, OutboxOK, MarkSynced
  PROVE  /\ outbox' \in Seq(Entries) /\ OutboxOK' /\ OutboxKept
         /\ \A x : x \in ToSet(outbox') <=> x \in ToSet(outbox) /\ x.id \notin Ids(answered)
<1> DEFINE rest == { e \in ToSet(outbox) : e.id \notin Ids(answered) }
<1>1. outbox' = Keep(outbox, rest) /\ version' = version
  BY DEF MarkSynced
<1>2. outbox \in Seq(Entries)
  BY DEF StateType, TypeOK
<1>3. \A x : x \in rest <=> x \in ToSet(outbox) /\ x.id \notin Ids(answered)
  OBVIOUS
<1> HIDE DEF rest
<1>4. /\ outbox' \in Seq(Entries) /\ ToSet(outbox') = ToSet(outbox) \cap rest
      /\ \A x, y : Before(outbox', x, y) <=> x \in rest /\ y \in rest /\ Before(outbox, x, y)
  BY <1>1, <1>2, KeepElements
<1>5. \A x : x \in ToSet(outbox') <=> x \in ToSet(outbox) /\ x.id \notin Ids(answered)
  BY <1>3, <1>4
<1>6. OutboxOK'
  BY <1>1, <1>4, <1>5 DEF OutboxOK
<1>7. OutboxKept
  BY <1>4 DEF OutboxKept, Agrees
<1> QED BY <1>4, <1>5, <1>6, <1>7

(* A step that leaves the outbox and the versions alone keeps the outbox   *)
(* right.                                                                  *)
LEMMA OutboxSame ==
  ASSUME OutboxOK, UNCHANGED <<outbox, version>>
  PROVE  OutboxOK' /\ OutboxKept
BY DEF OutboxOK, OutboxKept, Agrees

-----------------------------------------------------------------------------
(* Versions that do not change do not decrease.                            *)
LEMMA VersionsSame ==
  ASSUME StateType, version' = version
  PROVE  VersionsGrow
<1>1. version \in [Rows -> 1..MaxVersion] /\ MaxVersion \in Nat
  BY Constants DEF StateType, TypeOK
<1> QED BY <1>1 DEF VersionsGrow

(***************************************************************************)
(* RecordsOK, RecordsInOrder and ChunksInOrder: the steps that make no new *)
(* chunks and no new record; StartPush; Handle.                            *)
(***************************************************************************)
LEMMA BodyTypes ==
  ASSUME StateType, NEW k \in DOMAIN batch
  PROVE  /\ k \subseteq RowIds /\ batch[k].body \in Bodies
         /\ batch[k].status \in {"pending", "completed"} /\ batch[k].stale \in BOOLEAN
         /\ \A t \in 1..NumTables : batch[k].body[t] \in Seq(Versions) /\ ToSet(batch[k].body[t]) \subseteq Versions
<1>1. /\ k \subseteq RowIds /\ batch[k].body \in Bodies
      /\ batch[k].status \in {"pending", "completed"} /\ batch[k].stale \in BOOLEAN
  BY DEF StateType, BatchType
<1>2. ASSUME NEW t \in 1..NumTables PROVE batch[k].body[t] \in Seq(Versions)
  BY <1>1 DEF Bodies
<1> QED BY <1>1, <1>2, SeqElements

(* A record the server has stays a record of rows at versions that         *)
(* existed.                                                                *)
LEMMA RecordsStayOK ==
  ASSUME StateType, RecordsOK, VersionsGrow, RecordsKept, Queued' \subseteq Queued
  PROVE  RecordsOK'
<1> SUFFICES ASSUME NEW k \in DOMAIN batch' PROVE RecordOK(k)'
  BY DEF RecordsOK
<1>1. k \in DOMAIN batch /\ batch'[k].body = batch[k].body /\ RecordOK(k)
  BY DEF RecordsKept, RecordsOK
<1>2. version \in [Rows -> 1..MaxVersion] /\ MaxVersion \in Nat
  BY Constants DEF StateType, TypeOK
<1> DEFINE body == batch[k].body
<1>3. \A t \in 1..NumTables :
          /\ \A p \in ToSet(body[t]) :
                /\ TableOf[p[1]] = t /\ p[2] <= version[p[1]] /\ ~ Before(body[t], p, p)
                /\ \E id \in k : id[1] = p[1]
                /\ \A q \in ToSet(body[t]) : p[1] = q[1] => p = q
                /\ \A u \in Queued : u.row = p[1] => p[2] <= u.ver
          /\ \A id \in k : TableOf[id[1]] = t => \E p \in ToSet(body[t]) : p[1] = id[1]
  BY <1>1 DEF RecordOK
<1>4. ASSUME NEW t \in 1..NumTables, NEW p \in ToSet(body[t])
      PROVE  p[2] <= version'[p[1]] /\ \A u \in Queued' : u.row = p[1] => p[2] <= u.ver
  <2>1. p \in Versions
    BY <1>1, BodyTypes
  <2>2. p[1] \in Rows /\ p[2] \in Nat
    BY <2>1, PairFields
  <2>3. version[p[1]] \in Nat /\ version'[p[1]] \in Nat /\ version[p[1]] <= version'[p[1]]
    BY <1>2, <2>2 DEF VersionsGrow
  <2> QED BY <1>3, <2>2, <2>3
<1> HIDE DEF body
<1>5. batch'[k].body = body
  BY <1>1 DEF body
<1> QED BY <1>3, <1>4, <1>5 DEF RecordOK

(* A record and the outbox keep agreeing on the order of the rows they     *)
(* both hold.                                                              *)
LEMMA RecordsStayInOrder ==
  ASSUME StateType, RecordsOK, RecordsInOrder, RecordsKept, ChunksShrink, OutboxKept
  PROVE  RecordsInOrder'
<1> SUFFICES ASSUME NEW k \in DOMAIN batch', NEW t \in 1..NumTables,
                    NEW p \in ToSet(batch'[k].body[t]), NEW q \in ToSet(batch'[k].body[t]),
                    Before(batch'[k].body[t], p, q)
             PROVE  Agrees(p, q, outbox') /\ \A c \in Chunks' : Agrees(p, q, c)
  BY DEF RecordsInOrder
<1>1. k \in DOMAIN batch /\ batch'[k].body = batch[k].body /\ RecordOK(k)
  BY DEF RecordsKept, RecordsOK
<1>2. p \in Versions /\ q \in Versions
  BY <1>1, BodyTypes
<1>3. p[2] <= version[p[1]] /\ q[2] <= version[q[1]]
  BY <1>1 DEF RecordOK
<1>4. Agrees(p, q, outbox) /\ \A c \in Chunks : Agrees(p, q, c)
  BY <1>1 DEF RecordsInOrder
<1>5. Agrees(p, q, outbox')
  BY <1>2, <1>3, <1>4 DEF OutboxKept
<1>6. ASSUME NEW d \in Chunks' PROVE Agrees(p, q, d)
  <2>1. PICK c \in Chunks : /\ ToSet(d) \subseteq ToSet(c)
                            /\ \A u, w \in ToSet(d) : Before(d, u, w) <=> Before(c, u, w)
    BY DEF ChunksShrink
  <2> QED BY <2>1, <1>4 DEF Agrees
<1> QED BY <1>5, <1>6

(* So do a chunk and the outbox.                                           *)
LEMMA ChunksStayInOrder ==
  ASSUME StateType, PlayOK, ChunksInOrder, ChunksShrink, OutboxKept
  PROVE  ChunksInOrder'
<1> SUFFICES ASSUME NEW d \in Chunks', NEW u \in ToSet(d), NEW w \in ToSet(d),
                    Before(d, u, w), TableOf[u.row] = TableOf[w.row]
             PROVE  Agrees(Pair(u), Pair(w), outbox')
  BY DEF ChunksInOrder
<1>1. PICK c \in Chunks : /\ ToSet(d) \subseteq ToSet(c)
                          /\ \A x, y \in ToSet(d) : Before(d, x, y) <=> Before(c, x, y)
  BY DEF ChunksShrink
<1>2. Agrees(Pair(u), Pair(w), outbox)
  BY <1>1 DEF ChunksInOrder
<1>3. u \in Queued /\ w \in Queued
  BY <1>1, InPlayTypes
<1>4. u \in Units /\ w \in Units /\ u.ver <= version[u.row] /\ w.ver <= version[w.row]
  BY <1>3, InPlayTypes DEF PlayOK, UnitOK, InPlay
<1> QED BY <1>2, <1>4, UnitFields DEF OutboxKept

(* A push that starts builds chunks in the outbox's order, and so in the   *)
(* order of the records.                                                   *)
LEMMA StartedInOrder ==
  ASSUME StateType, OutboxOK, RecordsOK, RecordsInOrder, StartPush
  PROVE  RecordsOK' /\ RecordsInOrder' /\ ChunksInOrder'
<1>1. UNCHANGED <<outbox, version, batch>>
  BY DEF StartPush, Frame, device, server
<1>2. \A c \in Chunks' :
              /\ ToSet(c) \subseteq Queued'
              /\ \A u, w \in ToSet(c) : TableOf[u.row] = TableOf[w.row] =>
                         (Before(c, u, w) <=> Before(outbox, EntryOf(u), EntryOf(w)))
  BY QueueStarted
<1>3. \A e, f \in ToSet(outbox) : e.row = f.row => e = f
  BY DEF StateType, TypeOK
<1>4. \A u : EntryOf(u).row = u.row /\ Pair(EntryOf(u)) = Pair(u) /\ Pair(u)[1] = u.row
  BY DEF EntryOf, Pair
<1>5. RecordsOK'
  <2> SUFFICES ASSUME NEW k \in DOMAIN batch PROVE RecordOK(k)'
    BY <1>1 DEF RecordsOK
  <2>1. RecordOK(k) /\ batch' = batch /\ version' = version
    BY <1>1 DEF RecordsOK
  <2>2. \A t \in 1..NumTables : \A p \in ToSet(batch[k].body[t]) :
           \A u \in Queued' : u.row = p[1] => p[2] <= u.ver
    BY <2>1, StartedUnits DEF RecordOK
  <2> QED BY <2>1, <2>2 DEF RecordOK
<1>6. RecordsInOrder'
  <2> SUFFICES ASSUME NEW k \in DOMAIN batch, NEW t \in 1..NumTables,
                      NEW p \in ToSet(batch[k].body[t]), NEW q \in ToSet(batch[k].body[t]),
                      Before(batch[k].body[t], p, q)
               PROVE  Agrees(p, q, outbox) /\ \A c \in Chunks' : Agrees(p, q, c)
    BY <1>1 DEF RecordsInOrder
  <2>1. Agrees(p, q, outbox)
    BY DEF RecordsInOrder
  <2>2. TableOf[p[1]] = TableOf[q[1]]
    BY DEF RecordsOK, RecordOK
  <2>3. ASSUME NEW c \in Chunks', NEW u \in ToSet(c), NEW w \in ToSet(c), Pair(u) = p, Pair(w) = q
        PROVE  Before(c, u, w)
    <3>1. TableOf[u.row] = TableOf[w.row]
      BY <2>2, <2>3, <1>4
    <3>2. EntryOf(u) \in ToSet(outbox) /\ EntryOf(w) \in ToSet(outbox)
      BY <1>2, <2>3, StartedUnits
    <3>3. Before(outbox, EntryOf(u), EntryOf(w))
      BY <2>1, <2>3, <3>2, <1>4 DEF Agrees
    <3> QED BY <1>2, <2>3, <3>1, <3>3
  <2> QED BY <2>1, <2>3 DEF Agrees
<1>7. ChunksInOrder'
  <2> SUFFICES ASSUME NEW c \in Chunks', NEW u \in ToSet(c), NEW w \in ToSet(c),
                      Before(c, u, w), TableOf[u.row] = TableOf[w.row],
                      NEW e \in ToSet(outbox), NEW f \in ToSet(outbox), Pair(e) = Pair(u), Pair(f) = Pair(w)
               PROVE  Before(outbox, e, f)
    BY <1>1 DEF ChunksInOrder, Agrees
  <2>1. EntryOf(u) \in ToSet(outbox) /\ EntryOf(w) \in ToSet(outbox)
    BY <1>2, StartedUnits
  <2>2. e.row = u.row /\ f.row = w.row
    BY DEF Pair
  <2>3. e = EntryOf(u) /\ f = EntryOf(w)
    BY <2>1, <2>2, <1>3, <1>4
  <2> QED BY <2>3, <1>2
<1> QED BY <1>5, <1>6, <1>7

InOrder(c, t, p, q) ==
    \E u, w \in ToSet(c) :
        /\ TableOf[u.row] = t /\ TableOf[w.row] = t
        /\ Before(c, u, w) /\ Pair(u) = p /\ Pair(w) = q

(* MergeElements for one table and two rows.                               *)
LEMMA MergedOrder ==
  ASSUME NEW c \in Seq(Units), NEW t \in 1..NumTables, NEW p, NEW q
  PROVE  Before(merge_pending_units(c)[t], p, q) <=> InOrder(c, t, p, q)
<1> DEFINE body == merge_pending_units(c)
<1>1. \A tt \in 1..NumTables : \A pp, qq : Before(body[tt], pp, qq) <=> InOrder(c, tt, pp, qq)
  BY MergeElements DEF InOrder
<1> HIDE DEF body
<1>2. Before(body[t], p, q) <=> InOrder(c, t, p, q)
  BY <1>1
<1> QED BY <1>2 DEF body

(* The record that Handle makes of the chunk at the front.                  *)
LEMMA NewRecord ==
  ASSUME StateType, PlayOK, RecordsOK, RecordsInOrder, ChunksInOrder, queue # <<>>,
         UNCHANGED <<outbox, version, queue>>,
         NEW key, key = Key(Head(queue)),
         DOMAIN batch' = DOMAIN batch \cup {key},
         batch'[key].body = merge_pending_units(Head(queue)),
         \A k \in DOMAIN batch : k # key => batch'[k].body = batch[k].body
  PROVE  RecordsOK' /\ RecordsInOrder'
<1> DEFINE front == Head(queue)
           body == merge_pending_units(front)
<1>1. Chunks' = Chunks /\ Queued' = Queued
  BY DEF Chunks, Queued
<1>2. front \in Chunks /\ front \in Seq(Units) /\ ToSet(front) \subseteq Units /\ ListOK(front)
  BY HeadOfQueue DEF PlayOK
<1>3. \A t \in 1..NumTables :
               /\ ToSet(body[t]) = { Pair(u) : u \in { w \in ToSet(front) : TableOf[w.row] = t } }
               /\ \A p, q : Before(body[t], p, q) <=>
                     \E u, w \in ToSet(front) :
                        /\ TableOf[u.row] = t /\ TableOf[w.row] = t
                        /\ Before(front, u, w) /\ Pair(u) = p /\ Pair(w) = q
  BY <1>2, MergeElements
<1>13. ASSUME NEW t \in 1..NumTables, NEW p \in ToSet(body[t])
       PROVE  \E u \in ToSet(front) : TableOf[u.row] = t /\ p = Pair(u)
  <2>1. p \in { Pair(u) : u \in { w \in ToSet(front) : TableOf[w.row] = t } }
    BY <1>3
  <2> QED BY <2>1
<1>14. ASSUME NEW t \in 1..NumTables, NEW p, NEW q, Before(body[t], p, q)
       PROVE  InOrder(front, t, p, q)
  BY <1>2, <1>14, MergedOrder
<1>4. key = { u.id : u \in ToSet(front) }
  BY DEF Key, Ids
<1>5. \A u \in ToSet(front) : u \in Queued /\ u.id[1] = u.row /\ u.ver <= version[u.row]
  BY <1>2 DEF PlayOK, UnitOK, InPlay, Queued
<1> HIDE DEF front, body
<1>6. \A u : Pair(u)[1] = u.row /\ Pair(u)[2] = u.ver
  BY DEF Pair
<1>7. \A u \in ToSet(front), c \in Chunks : \A w \in ToSet(c) : u.row = w.row => c = front /\ u = w
  BY <1>2, ChunksApart
<1>8. batch'[key].body = body
  BY DEF body, front
<1>9. RecordOK(key)'
  <2>1. ASSUME NEW t \in 1..NumTables, NEW p \in ToSet(body[t])
        PROVE  /\ TableOf[p[1]] = t /\ p[2] <= version[p[1]] /\ ~ Before(body[t], p, p)
               /\ \E id \in key : id[1] = p[1]
               /\ \A q \in ToSet(body[t]) : p[1] = q[1] => p = q
               /\ \A u \in Queued : u.row = p[1] => p[2] <= u.ver
    <3>1. PICK u \in ToSet(front) : TableOf[u.row] = t /\ p = Pair(u)
      BY <1>3, <2>1
    <3>2. TableOf[p[1]] = t /\ p[2] <= version[p[1]] /\ \E id \in key : id[1] = p[1]
      BY <3>1, <1>4, <1>5, <1>6
    <3>3. ~ Before(body[t], p, p)
      <4>1. \A v, w \in ToSet(front) : Pair(v) = Pair(w) => v = w /\ ~ Before(front, v, w)
        BY <1>2, <1>6 DEF ListOK
      <4>2. SUFFICES ASSUME Before(body[t], p, p) PROVE FALSE
        OBVIOUS
      <4>3. PICK v \in ToSet(front), w \in ToSet(front) : Before(front, v, w) /\ Pair(v) = p /\ Pair(w) = p
        <5>1. InOrder(front, t, p, p)
          BY <4>2, <1>14
        <5> QED BY <5>1 DEF InOrder
      <4> QED BY <4>1, <4>3
    <3>4. \A q \in ToSet(body[t]) : p[1] = q[1] => p = q
      <4>1. \A w \in ToSet(front) : w.row = u.row => w = u
        BY <1>2 DEF ListOK
      <4>2. ASSUME NEW q \in ToSet(body[t]), p[1] = q[1] PROVE p = q
        <5>1. PICK w \in ToSet(front) : q = Pair(w)
          BY <1>13
        <5> QED BY <5>1, <3>1, <4>1, <4>2, <1>6
      <4> QED BY <4>2
    <3>5. ASSUME NEW w \in Queued, w.row = p[1] PROVE p[2] <= w.ver
      <4>1. PICK c \in Chunks : w \in ToSet(c)
        BY DEF Queued
      <4>2. w = u
        BY <4>1, <3>1, <3>5, <1>6, <1>7
      <4>3. u.ver \in Nat
        BY <3>1, <1>2, UnitFields
      <4> QED BY <4>2, <4>3, <3>1, <1>6
    <3> QED BY <3>2, <3>3, <3>4, <3>5
  <2>2. ASSUME NEW t \in 1..NumTables, NEW id \in key, TableOf[id[1]] = t
        PROVE  \E p \in ToSet(body[t]) : p[1] = id[1]
    <3>1. PICK u \in ToSet(front) : id = u.id
      BY <1>4, <2>2
    <3>2. TableOf[u.row] = t /\ id[1] = u.row
      BY <3>1, <1>5, <2>2
    <3>3. Pair(u) \in ToSet(body[t])
      BY <3>2, <1>3
    <3> QED BY <3>2, <3>3, <1>6
  <2> QED BY <1>1, <1>8, <2>1, <2>2 DEF RecordOK
<1>10. RecordsOK'
  <2> SUFFICES ASSUME NEW k \in DOMAIN batch, k # key PROVE RecordOK(k)'
    BY <1>9 DEF RecordsOK
  <2>1. RecordOK(k) /\ batch'[k].body = batch[k].body
    BY DEF RecordsOK
  <2> QED BY <1>1, <2>1 DEF RecordOK
<1>11. ASSUME NEW t \in 1..NumTables, NEW p \in ToSet(body[t]), NEW q \in ToSet(body[t]), Before(body[t], p, q)
       PROVE  Agrees(p, q, outbox) /\ \A c \in Chunks : Agrees(p, q, c)
  <2>1. PICK u \in ToSet(front), w \in ToSet(front) :
                        /\ TableOf[u.row] = t /\ TableOf[w.row] = t
                        /\ Before(front, u, w) /\ Pair(u) = p /\ Pair(w) = q
    <3>1. InOrder(front, t, p, q)
      BY <1>14, <1>11
    <3> QED BY <3>1 DEF InOrder
  <2>2. Agrees(p, q, outbox)
    BY <2>1, <1>2 DEF ChunksInOrder
  <2>3. ASSUME NEW c \in Chunks, NEW x \in ToSet(c), NEW y \in ToSet(c), Pair(x) = p, Pair(y) = q
        PROVE  Before(c, x, y)
    <3>1. u.row = x.row /\ w.row = y.row
      BY <2>1, <2>3, <1>6
    <3> QED BY <2>1, <3>1, <1>7
  <2> QED BY <2>2, <2>3 DEF Agrees
<1>12. RecordsInOrder'
  <2> SUFFICES ASSUME NEW k \in DOMAIN batch', NEW t \in 1..NumTables,
                    NEW p \in ToSet(batch'[k].body[t]), NEW q \in ToSet(batch'[k].body[t]),
                    Before(batch'[k].body[t], p, q)
               PROVE  Agrees(p, q, outbox) /\ \A c \in Chunks : Agrees(p, q, c)
    BY <1>1 DEF RecordsInOrder
  <2>1. CASE k = key
    BY <2>1, <1>8, <1>11
  <2>2. CASE k # key
    <3>1. k \in DOMAIN batch /\ batch'[k].body = batch[k].body
      BY <2>2
    <3> QED BY <3>1 DEF RecordsInOrder
  <2> QED BY <2>1, <2>2
<1> QED BY <1>10, <1>12

-----------------------------------------------------------------------------
(***************************************************************************)
(* PromisesOK.                                                             *)
(***************************************************************************)
StoredKept ==
    \A r \in Rows, v \in Nat :
        v <= stored[r] \/ r \in overtaken => v <= stored'[r] \/ r \in overtaken'

CompletedKept ==
    \A k \in DOMAIN batch' : batch'[k].status = "completed" =>
        k \in DOMAIN batch /\ batch[k].status = "completed" /\ batch'[k].body = batch[k].body

(* What is stored, or passed by a later version, stays so while StoredKept *)
(* holds of the step.                                                      *)
LEMMA StoredStays ==
  ASSUME StoredKept, NEW p \in Versions, IsStored(p)
  PROVE  IsStored(p)'
BY PairFields DEF StoredKept, IsStored

(* A step that does not touch the rows stored keeps them.                  *)
LEMMA StoredSame ==
  ASSUME UNCHANGED <<stored, overtaken>>
  PROVE  StoredKept
BY DEF StoredKept

(* The promises made to the device survive a step that keeps what is       *)
(* stored and completes no record in vain.                                 *)
LEMMA PromisesStay ==
  ASSUME StateType, PromisesOK, VersionsGrow, acked' = acked, StoredKept, CompletedKept,
         \A u \in ToSet(answered') : u \in Units /\ (u \in ToSet(answered) \/ IsStored(Pair(u))),
         \A u \in Queued' : u \in Queued \/ (u \in Units /\ u.ver = version[u.row])
  PROVE  PromisesOK'
<1>1. /\ acked \in [Rows -> 0..MaxVersion] /\ version \in [Rows -> 1..MaxVersion] /\ MaxVersion \in Nat
  BY Constants DEF StateType, TypeOK
<1>2. AcknowledgedIsStored'
  <2>1. \A r \in Rows : acked[r] \in Nat /\ (acked[r] <= stored[r] \/ r \in overtaken)
    BY <1>1 DEF PromisesOK, AcknowledgedIsStored
  <2> QED BY <2>1 DEF AcknowledgedIsStored, StoredKept
<1>3. ASSUME NEW u \in ToSet(answered') PROVE IsStored(Pair(u))'
  <2>1. IsStored(Pair(u)) /\ Pair(u) \in Versions
    BY UnitFields DEF PromisesOK
  <2>2. Pair(u)' = Pair(u)
    BY DEF Pair
  <2> QED BY <2>1, StoredStays
<1>4. ASSUME NEW k \in DOMAIN batch', batch'[k].status = "completed",
             NEW t \in 1..NumTables, NEW p \in ToSet(batch'[k].body[t])
      PROVE  IsStored(p)'
  <2>1. k \in DOMAIN batch /\ batch[k].status = "completed" /\ batch'[k].body = batch[k].body
    BY <1>4 DEF CompletedKept
  <2>2. p \in Versions /\ IsStored(p)
    BY <1>4, <2>1, BodyTypes DEF PromisesOK
  <2> QED BY <2>2, StoredStays
<1>5. ASSUME NEW u \in Queued' PROVE acked[u.row] <= u.ver
  <2>1. CASE u \in Queued
    BY <2>1 DEF PromisesOK
  <2>2. CASE u \in Units /\ u.ver = version[u.row]
    <3>1. u.row \in Rows
      BY <2>2, UnitFields
    <3> QED BY <2>2, <3>1 DEF PromisesOK
  <2> QED BY <2>1, <2>2
<1>6. ASSUME NEW r \in Rows PROVE acked[r] <= version'[r]
  <2>1. acked[r] <= version[r] /\ version[r] <= version'[r]
    BY DEF PromisesOK, VersionsGrow
  <2>2. acked[r] \in Nat /\ version[r] \in Nat /\ version'[r] \in Nat
    BY <1>1 DEF VersionsGrow
  <2> QED BY <2>1, <2>2
<1> QED BY <1>2, <1>3, <1>4, <1>5, <1>6 DEF PromisesOK, Pair

(* Marking acknowledges only rows whose versions are stored.               *)
LEMMA PromisesMarked ==
  ASSUME StateType, PlayOK, PromisesOK, MarkSynced
  PROVE  PromisesOK' /\ acked' \in [Rows -> 0..MaxVersion]
<1>1. /\ acked \in [Rows -> 0..MaxVersion] /\ version \in [Rows -> 1..MaxVersion] /\ MaxVersion \in Nat
  BY Constants DEF StateType, TypeOK
<1>2. UNCHANGED <<queue, answered, version, batch, stored, overtaken>> /\ queue = <<>>
  BY DEF MarkSynced, server
<1> DEFINE U(r) == CHOOSE u \in ToSet(answered) : u.row = r
<1>3. acked' = [ r \in Rows |-> IF \E u \in ToSet(answered) : u.row = r THEN U(r).ver ELSE acked[r] ]
  BY DEF MarkSynced
<1>4. \A r : (\E u \in ToSet(answered) : u.row = r) => U(r) \in ToSet(answered) /\ U(r).row = r
  OBVIOUS
<1> HIDE DEF U
<1>5. ASSUME NEW r \in Rows
      PROVE  /\ acked'[r] \in 0..MaxVersion /\ acked'[r] <= version[r]
             /\ acked'[r] <= stored[r] \/ r \in overtaken
  <2>1. CASE \E u \in ToSet(answered) : u.row = r
    <3>1. acked'[r] = U(r).ver /\ U(r) \in ToSet(answered) /\ U(r).row = r
      BY <2>1, <1>3, <1>4
    <3>2. U(r) \in Units /\ U(r) \in InPlay /\ IsStored(Pair(U(r))) /\ UnitOK(U(r))
      BY <3>1, InPlayTypes DEF InPlay, PlayOK, PromisesOK
    <3>3. U(r).ver \in 1..MaxVersion /\ Pair(U(r))[1] = r /\ Pair(U(r))[2] = U(r).ver
      BY <3>1, <3>2, UnitFields
    <3> QED BY <3>1, <3>2, <3>3, <1>1 DEF UnitOK, IsStored
  <2>2. CASE ~ \E u \in ToSet(answered) : u.row = r
    <3>1. acked'[r] = acked[r]
      BY <2>2, <1>3
    <3> QED BY <3>1, <1>1 DEF PromisesOK, AcknowledgedIsStored
  <2> QED BY <2>1, <2>2
<1>6. acked' \in [Rows -> 0..MaxVersion]
  <2>1. acked' = [r \in Rows |-> acked'[r]]
    BY <1>3
  <2> QED BY <2>1, <1>5
<1>7. AcknowledgedIsStored'
  BY <1>2, <1>5 DEF AcknowledgedIsStored
<1>8. Queued' = {}
  BY <1>2, QueueEmpty
<1>9. \A p : IsStored(p) => IsStored(p)'
  BY <1>2 DEF IsStored
<1> QED BY <1>2, <1>5, <1>6, <1>7, <1>8, <1>9 DEF PromisesOK, Pair

(* A row is applied.                                                        *)
LEMMA LeftTypes ==
  ASSUME StateType, NEW h \in Handlers, handler[h].pc = "apply"
  PROVE  /\ handler[h] \in ApplyState
         /\ handler[h].key \subseteq RowIds /\ handler[h].left \in Seq(Versions)
         /\ handler[h].left # <<>> =>
               /\ Head(handler[h].left) \in ToSet(handler[h].left)
               /\ Head(handler[h].left) \in Versions /\ Tail(handler[h].left) \in Seq(Versions)
               /\ ToSet(handler[h].left) = {Head(handler[h].left)} \cup ToSet(Tail(handler[h].left))
<1>1. handler[h] \in FreeState \cup ApplyState \cup AnswerState
  BY DEF StateType, HandlerType
<1>2. handler[h] \in ApplyState
  BY <1>1 DEF FreeState, ApplyState, AnswerState
<1>3. handler[h].key \subseteq RowIds /\ handler[h].left \in Seq(Versions)
  BY <1>2 DEF ApplyState
<1> DEFINE left == handler[h].left
<1> HIDE DEF left
<1>4. left \in Seq(Versions)
  BY <1>3 DEF left
<1>5. left # <<>> =>
               /\ Head(left) \in Versions /\ Tail(left) \in Seq(Versions)
               /\ ToSet(left) = {Head(left)} \cup ToSet(Tail(left))
  BY <1>4, HeadTailElements
<1> QED BY <1>2, <1>3, <1>5 DEF left

(* What applying one row does to the store.                                *)
LEMMA Applied ==
  ASSUME StateType, NEW h \in Handlers, ApplyRow(h)
  PROVE  LET p == Head(handler[h].left)
         IN  /\ p \in Versions /\ p \in ToSet(handler[h].left)
             /\ stored' = [stored EXCEPT ![p[1]] = p[2]]
             /\ stored' \in [Rows -> 0..MaxVersion]
             /\ overtaken' = IF ~ LeftBehind(h) THEN overtaken \ {p[1]}
                             ELSE IF p[2] < stored[p[1]] THEN overtaken \cup {p[1]} ELSE overtaken
             /\ overtaken' \subseteq Rows
             /\ handler' = [handler EXCEPT ![h].left = Tail(@)]
<1> DEFINE p == Head(handler[h].left)
<1>1. handler[h].pc = "apply" /\ handler[h].left # <<>>
  BY DEF ApplyRow
<1>2. p \in Versions /\ p \in ToSet(handler[h].left)
  BY <1>1, LeftTypes
<1>3. /\ stored' = [stored EXCEPT ![p[1]] = p[2]]
      /\ overtaken' = IF ~ LeftBehind(h) THEN overtaken \ {p[1]}
                      ELSE IF p[2] < stored[p[1]] THEN overtaken \cup {p[1]} ELSE overtaken
      /\ handler' = [handler EXCEPT ![h].left = Tail(@)]
  BY DEF ApplyRow
<1>4. stored \in [Rows -> 0..MaxVersion] /\ overtaken \subseteq Rows
  BY DEF StateType, TypeOK
<1> HIDE DEF p
<1>5. p[1] \in Rows /\ p[2] \in 1..MaxVersion
  BY <1>2, PairFields
<1>6. p[2] \in 0..MaxVersion
  BY <1>5, Constants
<1>7. stored' \in [Rows -> 0..MaxVersion] /\ overtaken' \subseteq Rows
  BY <1>3, <1>4, <1>5, <1>6
<1> QED BY <1>2, <1>3, <1>7 DEF p

(* A handler left behind by its device writes a row the promises do not    *)
(* rest on, or marks it overtaken.                                         *)
LEMMA AppliedUnheard ==
  ASSUME StateType, NEW h \in Handlers, ApplyRow(h), LeftBehind(h)
  PROVE  StoredKept
<1> DEFINE p == Head(handler[h].left)
<1>1. /\ p \in Versions
      /\ stored' = [stored EXCEPT ![p[1]] = p[2]]
      /\ overtaken' = IF p[2] < stored[p[1]] THEN overtaken \cup {p[1]} ELSE overtaken
  BY Applied
<1> HIDE DEF p
<1>2. stored \in [Rows -> 0..MaxVersion] /\ MaxVersion \in Nat
  BY Constants DEF StateType, TypeOK
<1>3. p[1] \in Rows /\ p[2] \in Nat
  BY <1>1, PairFields
<1>4. \A r \in Rows : stored[r] \in Nat
  BY <1>2
<1> QED BY <1>1, <1>2, <1>3, <1>4 DEF StoredKept

(* The handler whose client listens writes what is at the front of the      *)
(* deque, and nothing later than that was promised of its rows.             *)
LEMMA AppliedHeard ==
  ASSUME IInv, NEW h \in Handlers, ApplyRow(h), ~ LeftBehind(h)
  PROVE  PromisesOK' /\ InHand(h)'
<1> DEFINE p == Head(handler[h].left)
           front == Head(queue)
<1>1. /\ p \in Versions /\ p \in ToSet(handler[h].left)
      /\ stored' = [stored EXCEPT ![p[1]] = p[2]]
      /\ overtaken' = overtaken \ {p[1]}
      /\ handler' = [handler EXCEPT ![h].left = Tail(@)]
  BY Applied DEF IInv
<1>2. StateType /\ PlayOK /\ PromisesOK /\ RecordsOK /\ InHand(h) /\ h \in at
  BY DEF IInv, InHandOK, LeftBehind
<1>3. handler[h].pc = "apply" /\ handler[h].left # <<>>
  BY DEF ApplyRow
<1>4. UNCHANGED <<version, queue, answered, acked, batch>>
  BY DEF ApplyRow, ServerFrame, device, push
<1>5. queue # <<>>
  BY <1>2 DEF StateType, TypeOK
<1>6. /\ front \in Chunks /\ ToSet(front) \subseteq Units /\ front \in Seq(Units)
  BY <1>2, <1>5, HeadOfQueue
<1>7. /\ handler[h].key = Key(front)
      /\ ToSet(handler[h].left) \subseteq Pairs(front)
      /\ \A q \in Pairs(front) : q \in ToSet(handler[h].left) \/ IsStored(q)
  BY <1>2, <1>3 DEF InHand
<1>8. handler[h] \in ApplyState /\ ToSet(handler[h].left) = {p} \cup ToSet(Tail(handler[h].left))
      /\ h \in DOMAIN handler
  BY <1>2, <1>3, LeftTypes DEF StateType, HandlerType
<1>9. /\ stored \in [Rows -> 0..MaxVersion] /\ acked \in [Rows -> 0..MaxVersion]
      /\ MaxVersion \in Nat
  BY <1>2, Constants DEF StateType, TypeOK
<1> HIDE DEF p, front
<1>10. PICK u \in ToSet(front) : p = Pair(u)
  BY <1>1, <1>7 DEF Pairs
<1>11. u \in Units /\ u \in Queued /\ p[1] = u.row /\ p[2] = u.ver /\ u.row \in Rows /\ u.ver \in Nat
  <2>1. u \in Units /\ u \in Queued
    BY <1>6 DEF Queued
  <2> QED BY <2>1, <1>10, UnitFields
<1>12. stored'[p[1]] = p[2] /\ \A r \in Rows : r # p[1] => stored'[r] = stored[r]
  BY <1>1, <1>9, <1>11
<1>13. ASSUME NEW q \in Versions, IsStored(q), q[1] = p[1] => q[2] <= p[2]
       PROVE  IsStored(q)'
  <2>1. q[1] \in Rows
    BY PairFields
  <2>2. CASE q[1] = p[1]
    <3>1. q[2] <= stored'[q[1]]
      BY <2>2, <1>12, <1>13
    <3> QED BY <3>1 DEF IsStored
  <2>3. CASE q[1] # p[1]
    <3>1. stored'[q[1]] = stored[q[1]] /\ (q[1] \in overtaken => q[1] \in overtaken')
      BY <1>1, <1>12, <2>1, <2>3
    <3> QED BY <3>1, <1>13 DEF IsStored
  <2> QED BY <2>2, <2>3
<1>14. AcknowledgedIsStored'
  <2> SUFFICES ASSUME NEW r \in Rows PROVE acked[r] <= stored'[r] \/ r \in overtaken'
    BY <1>4 DEF AcknowledgedIsStored
  <2>1. CASE r = p[1]
    <3>1. acked[r] <= u.ver
      BY <1>2, <1>11, <2>1 DEF PromisesOK
    <3> QED BY <2>1, <3>1, <1>11, <1>12
  <2>2. CASE r # p[1]
    <3>1. stored'[r] = stored[r] /\ (r \in overtaken => r \in overtaken')
      BY <1>1, <1>12, <2>2
    <3> QED BY <3>1, <1>2 DEF PromisesOK, AcknowledgedIsStored
  <2> QED BY <2>1, <2>2
<1>15. ASSUME NEW w \in ToSet(answered) PROVE IsStored(Pair(w))'
  <2>1. w \in Units /\ IsStored(Pair(w))
    BY <1>2, InPlayTypes DEF PromisesOK
  <2>2. w.row # u.row
    BY <1>2, <1>6 DEF PlayOK, Follows
  <2>3. Pair(w) \in Versions /\ Pair(w)[1] # p[1]
    BY <2>1, <2>2, <1>11, UnitFields
  <2>4. \A q : q = Pair(w) => IsStored(q)'
    BY <2>1, <2>3, <1>13
  <2> QED BY <2>4 DEF Pair
<1>16. ASSUME NEW k \in DOMAIN batch, batch[k].status = "completed",
              NEW t \in 1..NumTables, NEW q \in ToSet(batch[k].body[t])
       PROVE  IsStored(q)'
  <2>1. q \in Versions /\ IsStored(q)
    BY <1>2, <1>16, BodyTypes DEF PromisesOK
  <2>2. q[1] = p[1] => q[2] <= p[2]
    BY <1>2, <1>11 DEF RecordsOK, RecordOK
  <2> QED BY <2>1, <2>2, <1>13
<1>17. Queued' = Queued
  BY <1>4 DEF Queued, Chunks
<1>18. PromisesOK'
  <2>1. /\ \A w \in Queued' : acked'[w.row] <= w.ver
        /\ \A r \in Rows : acked'[r] <= version'[r]
    BY <1>2, <1>4, <1>17 DEF PromisesOK
  <2>2. \A w \in ToSet(answered') : IsStored(Pair(w))'
    BY <1>4, <1>15
  <2>3. \A k \in DOMAIN batch' : batch'[k].status = "completed" =>
          \A t \in 1..NumTables : \A q \in ToSet(batch'[k].body[t]) : IsStored(q)'
    BY <1>4, <1>16
  <2> QED BY <1>14, <2>1, <2>2, <2>3 DEF PromisesOK, Pair
<1>19. InHand(h)'
  <2>1. /\ handler'[h].pc = "apply" /\ handler'[h].key = handler[h].key
        /\ handler'[h].left = Tail(handler[h].left)
    BY <1>1, <1>3, <1>8 DEF ApplyState
  <2>2. ToSet(handler'[h].left) \subseteq Pairs(front)
    BY <1>7, <1>8, <2>1
  <2>3. ASSUME NEW q \in Pairs(front) PROVE q \in ToSet(handler'[h].left) \/ IsStored(q)'
    <3>1. PICK w \in ToSet(front) : q = Pair(w)
      BY DEF Pairs
    <3>2. w \in Units /\ q \in Versions /\ q[1] = w.row /\ q[2] = w.ver
      BY <3>1, <1>6, UnitFields
    <3>3. w.row = u.row => w = u
      BY <1>2, <1>6 DEF PlayOK, ListOK
    <3>4. q[1] = p[1] => q[2] <= p[2]
      BY <3>2, <3>3, <1>11
    <3>5. CASE q \in ToSet(handler[h].left)
      <4>1. q = p \/ q \in ToSet(handler'[h].left)
        BY <3>5, <1>8, <2>1
      <4>2. q = p => IsStored(q)'
        <5>1. p[2] <= stored'[p[1]]
          BY <1>11, <1>12
        <5> QED BY <5>1 DEF IsStored
      <4> QED BY <4>1, <4>2
    <3>6. CASE IsStored(q)
      BY <3>2, <3>4, <3>6, <1>13
    <3> QED BY <3>5, <3>6, <1>7
  <2>4. Key(front)' = Key(front) /\ Pairs(front)' = Pairs(front) /\ Head(queue)' = front
    BY <1>4 DEF Key, Ids, Pairs, Pair, front
  <2> QED BY <1>7, <2>1, <2>2, <2>3, <1>4 DEF InHand, front, Pairs, Pair, Key, Ids
<1> QED BY <1>18, <1>19

-----------------------------------------------------------------------------
(***************************************************************************)
(* The handler that has the request.                                       *)
(***************************************************************************)
LEMMA Waiting ==
  ASSUME StateType, NEW h \in at
  PROVE  pc = "wait" /\ queue # <<>> /\ at = {h} /\ h \in Handlers
<1>1. /\ (at # {}) = (pc = "wait") /\ (pc \in {"sent", "wait"} => queue # <<>>)
      /\ at \subseteq Handlers /\ \A f, g \in at : f = g
  BY DEF StateType, TypeOK
<1>2. pc = "wait" /\ queue # <<>>
  BY <1>1
<1> QED BY <1>1, <1>2

(* An answer is the handler's state from then on.                          *)
LEMMA AnswerGiven ==
  ASSUME StateType, NEW h \in Handlers, NEW why, Answer(h, why)
  PROVE  /\ handler'[h] = [pc |-> "answer", why |-> why, status |-> StatusOf(why)]
         /\ handler'[h].pc = "answer" /\ handler'[h].why = why
         /\ \A g \in Handlers : g # h => handler'[g] = handler[g]
<1>1. DOMAIN handler = Handlers
  BY DEF StateType, HandlerType
<1> QED BY <1>1 DEF Answer, StatusOf

(* A chunk with a row changed after the record under its key was made      *)
(* stays such a chunk.                                                     *)
LEMMA ChangedStays ==
  ASSUME NEW c, RecordsKept, Changed(c)
  PROVE  Changed(c)'
BY DEF RecordsKept, Changed, Key, Ids, Pair

(* What the waited-for handler is known to have done stays true while      *)
(* others act.                                                             *)
LEMMA InHandStays ==
  ASSUME StateType, NEW h \in at, InHand(h), handler'[h] = handler[h],
         UNCHANGED <<queue, limits>>, StoredKept, RecordsKept
  PROVE  InHand(h)'
<1> DEFINE front == Head(queue)
<1>1. front \in Seq(Units) /\ ToSet(front) \subseteq Units
  BY Waiting, HeadOfQueue
<1>2. \A p \in Pairs(front) : p \in Versions
  <2> HIDE DEF front
  <2> QED BY <1>1, UnitFields DEF Pairs
<1>3. \A p \in Pairs(front) : IsStored(p) => IsStored(p)'
  <2> HIDE DEF front
  <2> QED BY <1>2, StoredStays
<1>4. \A c : Changed(c) => Changed(c)'
  BY ChangedStays
<1>5. front' = front
  OBVIOUS
<1>6. Pairs(front)' = Pairs(front) /\ Key(front)' = Key(front)
  BY DEF Pairs, Pair, Key, Ids
<1>7. Changed(front) => Changed(front)'
  BY <1>4, <1>5 DEF Changed, Key, Ids, Pair
<1>8. merge_pending_units(front)' = merge_pending_units(front)
  BY DEF merge_pending_units, InTable, Keep
<1> QED BY <1>3, <1>6, <1>7, <1>8 DEF InHand, ByteCount, RowCount, encoded_push_chunk_len

(* Completing a record promises only rows that are stored.                 *)
LEMMA Completed ==
  ASSUME IInv, NEW h \in Handlers, Complete(h)
  PROVE  StoredKept /\ RecordsKept /\ PromisesOK' /\ (h \in at => InHand(h)')
<1> DEFINE key == handler[h].key
<1>1. StateType /\ PlayOK /\ PromisesOK /\ RecordsOK
  BY DEF IInv
<1>2. handler[h].pc = "apply" /\ handler[h].left = <<>>
  BY DEF Complete
<1>3. UNCHANGED <<limits, version, queue, answered, acked, stored>>
  BY DEF Complete, ServerFrame, device, push
<1>4. handler[h] \in ApplyState
  BY <1>1, <1>2, LeftTypes
<1>5. /\ DOMAIN batch' = DOMAIN batch
      /\ \A k \in DOMAIN batch : batch'[k] = IF k = key THEN [batch[k] EXCEPT !.status = "completed", !.stale = FALSE]
                                             ELSE batch[k]
  BY DEF Complete
<1>6. \A k \in DOMAIN batch : batch[k] \in [status: {"pending", "completed"}, body: Bodies, stale: BOOLEAN]
  BY <1>1 DEF StateType, BatchType
<1>7. \A k \in DOMAIN batch : /\ batch'[k].body = batch[k].body
                              /\ batch'[k].status = "completed" => k = key \/ batch[k].status = "completed"
  <2> HIDE DEF key
  <2> QED BY <1>5, <1>6
<1>8. overtaken' = IF LeftBehind(h) THEN overtaken \cup Unwritten(key) ELSE overtaken
  BY DEF Complete
<1>9. StoredKept
  BY <1>3, <1>8 DEF StoredKept
<1>10. RecordsKept
  BY <1>5, <1>7 DEF RecordsKept
<1>11. Answer(h, "applied")
  BY DEF Complete
<1> HIDE DEF key
<1>12. ASSUME key \in DOMAIN batch, NEW t \in 1..NumTables, NEW p \in ToSet(batch[key].body[t])
       PROVE  IsStored(p)'
  <2>1. p \in Versions /\ batch[key].body \in Bodies
    BY <1>1, <1>12, BodyTypes
  <2>2. p[1] \in Rows /\ p[2] \in 1..MaxVersion /\ p = <<p[1], p[2]>>
    BY <2>1, PairFields
  <2>3. CASE LeftBehind(h)
    <3>1. CASE p[2] <= stored[p[1]]
      BY <3>1, <1>3 DEF IsStored
    <3>2. CASE ~ p[2] <= stored[p[1]]
      <4>1. stored[p[1]] \in Nat /\ MaxVersion \in Nat
        BY <1>1, <2>2, Constants DEF StateType, TypeOK
      <4>2. p[2] \in stored[p[1]] + 1..MaxVersion
        BY <4>1, <3>2, <2>2
      <4>3. p \in ToSet(orderPushChanges(batch[key].body))
        BY <2>1, <1>12, BodyElements
      <4>4. p[1] \in Unwritten(key)
        BY <4>2, <4>3, <2>2, <1>12 DEF Unwritten
      <4> QED BY <4>4, <1>8, <2>3 DEF IsStored
    <3> QED BY <3>1, <3>2
  <2>4. CASE ~ LeftBehind(h)
    <3>1. h \in at /\ InHand(h)
      BY <2>4 DEF LeftBehind, IInv, InHandOK
    <3>2. key = Key(Head(queue)) /\ \A q \in Pairs(Head(queue)) : q \in ToSet(handler[h].left) \/ IsStored(q)
      BY <3>1, <1>2 DEF InHand, key
    <3>3. ToSet(handler[h].left) = {}
      BY <1>2 DEF ToSet
    <3>4. Head(queue) \in Chunks /\ ToSet(Head(queue)) \subseteq Units
      BY <3>1, <1>1, Waiting, HeadOfQueue
    <3>5. PICK id \in key : id[1] = p[1]
      BY <1>1, <1>12 DEF RecordsOK, RecordOK
    <3>6. PICK u \in ToSet(Head(queue)) : u.id = id
      BY <3>2, <3>5 DEF Key, Ids
    <3>7. u \in Queued /\ UnitOK(u) /\ u \in Units
      BY <3>4, <3>6, <1>1 DEF Queued, PlayOK, InPlay
    <3>8. p[2] <= u.ver /\ u.row = p[1]
      BY <3>5, <3>6, <3>7, <1>1, <1>12 DEF UnitOK, RecordsOK, RecordOK
    <3>9. IsStored(Pair(u))
      BY <3>2, <3>3, <3>6 DEF Pairs
    <3>10. IsStored(p)
      <4>1. Pair(u)[1] = p[1] /\ Pair(u)[2] = u.ver /\ u.ver \in Nat
        BY <3>7, <3>8, UnitFields
      <4>2. stored[p[1]] \in Nat /\ p[2] \in Nat
        BY <1>1, <2>2, Constants DEF StateType, TypeOK
      <4> QED BY <3>8, <3>9, <4>1, <4>2 DEF IsStored
    <3> QED BY <3>10, <1>9, <2>1, StoredStays
  <2> QED BY <2>3, <2>4
<1>13. PromisesOK'
  <2>1. VersionsGrow
    BY <1>1, <1>3, VersionsSame
  <2>2. /\ \A r \in Rows : acked[r] \in Nat /\ (acked[r] <= stored[r] \/ r \in overtaken)
    BY <1>1, Constants DEF StateType, TypeOK, PromisesOK, AcknowledgedIsStored
  <2>3. AcknowledgedIsStored'
    BY <2>2, <1>3, <1>9 DEF AcknowledgedIsStored, StoredKept
  <2>4. ASSUME NEW u \in ToSet(answered) PROVE IsStored(Pair(u))'
    <3>1. u \in Units /\ IsStored(Pair(u))
      BY <1>1, InPlayTypes DEF PromisesOK
    <3>2. Pair(u) \in Versions /\ Pair(u)' = Pair(u)
      BY <3>1, UnitFields DEF Pair
    <3> QED BY <3>1, <3>2, <1>9, StoredStays
  <2>5. ASSUME NEW k \in DOMAIN batch', batch'[k].status = "completed",
               NEW t \in 1..NumTables, NEW p \in ToSet(batch'[k].body[t])
        PROVE  IsStored(p)'
    <3>1. k \in DOMAIN batch /\ batch'[k].body = batch[k].body /\ (k = key \/ batch[k].status = "completed")
      BY <2>5, <1>5, <1>7
    <3>2. CASE k = key
      BY <3>1, <3>2, <2>5, <1>12
    <3>3. CASE batch[k].status = "completed"
      <4>1. p \in Versions /\ IsStored(p)
        BY <3>1, <3>3, <2>5, <1>1, BodyTypes DEF PromisesOK
      <4> QED BY <4>1, <1>9, StoredStays
    <3> QED BY <3>1, <3>2, <3>3
  <2>6. Queued' = Queued
    BY <1>3, QueueSame
  <2>7. /\ \A u \in Queued' : acked'[u.row] <= u.ver
        /\ \A r \in Rows : acked'[r] <= version'[r]
    BY <2>6, <1>1, <1>3 DEF PromisesOK
  <2> QED BY <2>3, <2>4, <2>5, <2>7, <1>3 DEF PromisesOK, Pair
<1>14. ASSUME h \in at PROVE InHand(h)'
  <2>1. handler'[h].pc = "answer" /\ handler'[h].why = "applied"
    BY <1>1, <1>11, AnswerGiven
  <2>2. \A q \in Pairs(Head(queue)) : q \in ToSet(handler[h].left) \/ IsStored(q)
    BY <1>2, <1>14 DEF IInv, InHandOK, InHand
  <2>3. ToSet(handler[h].left) = {}
    BY <1>2 DEF ToSet
  <2>4. ToSet(Head(queue)) \subseteq Units
    BY <1>1, <1>14, Waiting, HeadOfQueue
  <2>5. ASSUME NEW q \in Pairs(Head(queue)) PROVE IsStored(q)'
    <3>1. q \in Versions
      BY <2>4, UnitFields DEF Pairs
    <3> QED BY <3>1, <2>2, <2>3, <1>9, StoredStays
  <2>6. Pairs(Head(queue))' = Pairs(Head(queue))
    BY <1>3 DEF Pairs, Pair
  <2> QED BY <2>1, <2>5, <2>6 DEF InHand
<1> QED BY <1>9, <1>10, <1>13, <1>14

(* A body is refused: a row has been edited since its key was first used.   *)
LEMMA OtherBody ==
  ASSUME StateType, PlayOK, RecordsOK, RecordsInOrder, queue # <<>>,
         NEW key, key = Key(Head(queue)), key \in DOMAIN batch,
         batch[key].body # merge_pending_units(Head(queue))
  PROVE  Changed(Head(queue))
<1> DEFINE front == Head(queue)
           old == batch[key].body
           body == merge_pending_units(front)
<1>1. /\ front \in Chunks /\ front \in Seq(Units) /\ ToSet(front) \subseteq Units /\ ListOK(front)
  BY HeadOfQueue DEF PlayOK
<1>2. \A u \in ToSet(front) : u.id[1] = u.row /\ u \in Queued
  BY <1>1 DEF PlayOK, UnitOK, InPlay, Queued
<1> HIDE DEF front
<1>3. /\ body \in Bodies
      /\ \A t \in 1..NumTables :
            ToSet(body[t]) = { Pair(u) : u \in { w \in ToSet(front) : TableOf[w.row] = t } }
  BY <1>1, MergeElements
<1>4. \A t \in 1..NumTables : \A p, q : Before(body[t], p, q) <=> InOrder(front, t, p, q)
  BY <1>1, MergedOrder
<1>5. old \in Bodies /\ RecordOK(key)
  BY BodyTypes DEF RecordsOK
<1>6. key = { u.id : u \in ToSet(front) }
  BY DEF Key, Ids, front
<1> SUFFICES ASSUME \A u \in ToSet(front) : u.ver > 1 => Pair(u) \in ToSet(orderPushChanges(old))
             PROVE  FALSE
  BY DEF Changed, front
<1>7. old # body
  BY DEF front
<1>8. \A t \in 1..NumTables : \A p \in ToSet(old[t]) :
                /\ TableOf[p[1]] = t /\ ~ Before(old[t], p, p)
                /\ \E id \in key : id[1] = p[1]
                /\ \A q \in ToSet(old[t]) : p[1] = q[1] => p = q
                /\ \A u \in Queued : u.row = p[1] => p[2] <= u.ver
  BY <1>5 DEF RecordOK
<1>9. \A t \in 1..NumTables : \A id \in key : TableOf[id[1]] = t => \E p \in ToSet(old[t]) : p[1] = id[1]
  BY <1>5 DEF RecordOK
<1>10. \A t \in 1..NumTables : \A p, q \in ToSet(old[t]) : Before(old[t], p, q) => Agrees(p, q, front)
  BY <1>1 DEF RecordsInOrder
<1>11. \A t \in 1..NumTables : ToSet(old[t]) \subseteq Versions
  BY BodyTypes
<1>12. ToSet(orderPushChanges(old)) = UNION { ToSet(old[t]) : t \in 1..NumTables }
  BY <1>5, BodyElements
<1> HIDE DEF old, body
<1>13. ASSUME NEW u \in ToSet(front), NEW t \in 1..NumTables, NEW p \in ToSet(old[t]), p[1] = u.row
       PROVE  p = Pair(u)
  <2>1. /\ p \in Versions /\ p = <<p[1], p[2]>> /\ p[2] \in Nat /\ p[2] >= 1
        /\ p[2] <= u.ver /\ u.ver \in Nat /\ u.ver >= 1 /\ u \in Units
    BY <1>1, <1>2, <1>8, <1>11, <1>13, PairFields, UnitFields
  <2>2. CASE u.ver = 1
    <3>1. p[2] = 1
      BY <2>1, <2>2
    <3> QED BY <2>1, <2>2, <3>1, <1>13 DEF Pair
  <2>3. CASE u.ver # 1
    <3>1. u.ver > 1
      BY <2>1, <2>3
    <3>2. Pair(u) \in ToSet(orderPushChanges(old))
      BY <3>1
    <3>3. PICK s \in 1..NumTables : Pair(u) \in ToSet(old[s])
      BY <3>2, <1>12
    <3>4. Pair(u)[1] = u.row
      BY <2>1, UnitFields
    <3>5. s = t
      BY <3>3, <3>4, <1>8, <1>13
    <3> QED BY <3>3, <3>4, <3>5, <1>8, <1>13
  <2> QED BY <2>2, <2>3
<1>14. ASSUME NEW t \in 1..NumTables PROVE ToSet(old[t]) = ToSet(body[t])
  <2>1. ASSUME NEW p \in ToSet(old[t]) PROVE p \in ToSet(body[t])
    <3>1. PICK id \in key : id[1] = p[1]
      BY <1>8
    <3>2. PICK u \in ToSet(front) : u.id = id
      BY <3>1, <1>6
    <3>3. u.row = p[1] /\ TableOf[u.row] = t
      BY <3>1, <3>2, <1>2, <1>8
    <3>4. p = Pair(u)
      BY <3>3, <1>13
    <3> QED BY <3>3, <3>4, <1>3
  <2>2. ASSUME NEW p \in ToSet(body[t]) PROVE p \in ToSet(old[t])
    <3>1. p \in { Pair(u) : u \in { w \in ToSet(front) : TableOf[w.row] = t } }
      BY <1>3
    <3>2. PICK u \in ToSet(front) : TableOf[u.row] = t /\ p = Pair(u)
      BY <3>1
    <3>3. u.id \in key /\ u.id[1] = u.row
      BY <1>2, <1>6
    <3>4. PICK q \in ToSet(old[t]) : q[1] = u.row
      BY <3>2, <3>3, <1>9
    <3> QED BY <3>2, <3>4, <1>13
  <2> QED BY <2>1, <2>2
<1>15. ASSUME NEW t \in 1..NumTables PROVE old[t] = body[t]
  <2> DEFINE s == body[t]
             o == old[t]
  <2>1. s \in Seq(Versions) /\ o \in Seq(Versions) /\ ToSet(s) = ToSet(o)
    BY <1>3, <1>5, <1>14 DEF Bodies
  <2>2. \A x, y : Before(o, x, y) => x \in ToSet(o) /\ y \in ToSet(o)
    <3> HIDE DEF o, s
    <3> QED BY <2>1, SeqElements
  <2>3. \A x : ~ Before(o, x, x)
    BY <2>2, <1>8
  <2>4. ASSUME NEW x, Before(s, x, x) PROVE FALSE
    <3>1. InOrder(front, t, x, x)
      BY <2>4, <1>4
    <3>2. PICK u \in ToSet(front), w \in ToSet(front) : Before(front, u, w) /\ Pair(u) = x /\ Pair(w) = x
      BY <3>1 DEF InOrder
    <3>3. u.row = w.row
      BY <3>2 DEF Pair
    <3> QED BY <3>2, <3>3, <1>1 DEF ListOK
  <2>5. ASSUME NEW x, NEW y, Before(o, x, y) PROVE Before(s, x, y)
    <3>1. x \in ToSet(old[t]) /\ y \in ToSet(old[t])
      BY <2>2, <2>5
    <3>2. Agrees(x, y, front)
      BY <2>5, <3>1, <1>10
    <3>3. x \in ToSet(body[t]) /\ y \in ToSet(body[t])
      BY <3>1, <1>14
    <3>4. /\ x \in { Pair(u) : u \in { w \in ToSet(front) : TableOf[w.row] = t } }
          /\ y \in { Pair(u) : u \in { w \in ToSet(front) : TableOf[w.row] = t } }
      BY <3>3, <1>3
    <3>5. PICK u \in ToSet(front) : TableOf[u.row] = t /\ x = Pair(u)
      BY <3>4
    <3>6. PICK w \in ToSet(front) : TableOf[w.row] = t /\ y = Pair(w)
      BY <3>4
    <3>7. Before(front, u, w)
      BY <3>2, <3>5, <3>6 DEF Agrees
    <3>8. InOrder(front, t, x, y)
      BY <3>5, <3>6, <3>7 DEF InOrder
    <3> QED BY <3>8, <1>4
  <2> HIDE DEF s, o
  <2>6. s = o
    BY <2>1, <2>3, <2>4, <2>5, SameOrder
  <2> QED BY <2>6 DEF s, o
<1>16. old = [t \in 1..NumTables |-> old[t]] /\ body = [t \in 1..NumTables |-> body[t]]
  BY <1>3, <1>5 DEF Bodies
<1> QED BY <1>7, <1>15, <1>16

-----------------------------------------------------------------------------
(* Only a request refused for its size is answered 413.                    *)
LEMMA ErrorStatus ==
  ASSUME NEW why
  PROVE  /\ getErrorStatus(why) \in {409, 413, 500}
         /\ getErrorStatus(why) = 413 <=> why = "tooMuch"
BY DEF getErrorStatus

(* Every answer has its type.                                              *)
LEMMA AnswerIsTyped ==
  ASSUME NEW why \in Whys
  PROVE  [pc |-> "answer", why |-> why, status |-> StatusOf(why)] \in AnswerState
<1>1. StatusOf(why) = 200 \/ StatusOf(why) = getErrorStatus(why)
  BY DEF StatusOf
<1>2. StatusOf(why) \in {200, 409, 413, 500}
  BY <1>1, ErrorStatus
<1> QED BY <1>2 DEF AnswerState

(* A handler that moves to a typed state leaves all of them typed.         *)
LEMMA HandlerTypes ==
  ASSUME StateType, NEW h \in Handlers, NEW x \in FreeState \cup ApplyState \cup AnswerState,
         x.pc = "answer" => x.status = StatusOf(x.why),
         handler' = [handler EXCEPT ![h] = x]
  PROVE  HandlerType' /\ \A g \in Handlers : handler'[g].pc \in {"free", "apply", "answer"}
<1>1. handler \in [Handlers -> FreeState \cup ApplyState \cup AnswerState]
      /\ \A g \in Handlers : handler[g].pc = "answer" => handler[g].status = StatusOf(handler[g].why)
  BY DEF StateType, HandlerType
<1> DEFINE HS == FreeState \cup ApplyState \cup AnswerState
<1>2. \A y \in HS : y.pc \in {"free", "apply", "answer"}
  BY DEF FreeState, ApplyState, AnswerState
<1> HIDE DEF HS
<1>3. handler' \in [Handlers -> HS] /\ \A g \in Handlers : handler'[g] = IF g = h THEN x ELSE handler[g]
  BY <1>1 DEF HS
<1>4. \A g \in Handlers : handler'[g].pc = "answer" => handler'[g].status = StatusOf(handler'[g].why)
  BY <1>1, <1>3
<1>5. \A g \in Handlers : handler'[g].pc \in {"free", "apply", "answer"}
  BY <1>2, <1>3
<1>6. HandlerType' = (/\ handler' \in [Handlers -> FreeState \cup ApplyState \cup AnswerState]
                      /\ \A g \in Handlers : handler'[g].pc = "answer" => handler'[g].status = StatusOf(handler'[g].why))
  BY DEF HandlerType, FreeState, ApplyState, AnswerState, StatusOf, getErrorStatus, Whys, RowIds, Versions
<1> QED BY <1>3, <1>4, <1>5, <1>6 DEF HS

(* In particular one that answers.                                         *)
LEMMA AnswerTypes ==
  ASSUME StateType, NEW h \in Handlers, NEW why \in Whys, Answer(h, why)
  PROVE  HandlerType' /\ \A g \in Handlers : handler'[g].pc \in {"free", "apply", "answer"}
<1> DEFINE x == [pc |-> "answer", why |-> why, status |-> StatusOf(why)]
<1>1. x \in AnswerState /\ x.status = StatusOf(x.why)
  BY AnswerIsTyped
<1>2. handler' = [handler EXCEPT ![h] = x]
  BY DEF Answer, StatusOf
<1> HIDE DEF x
<1> QED BY <1>1, <1>2, HandlerTypes

(* An idempotency key is a set of row ids.                                 *)
LEMMA KeyTypes ==
  ASSUME NEW c \in Seq(Units)
  PROVE  Key(c) \subseteq RowIds
BY SeqElements, UnitFields DEF Key, Ids

(* What the guard does with a request: the record it makes, and what the   *)
(* handler then knows.                                                     *)
LEMMA Handled ==
  ASSUME IInv, NEW h \in Handlers, Handle(h)
  PROVE  /\ HandlerType' /\ (\A g \in Handlers : handler'[g].pc \in {"free", "apply", "answer"})
         /\ BatchType' /\ RecordsOK' /\ RecordsInOrder'
         /\ CompletedKept /\ InHand(h)'
         /\ \A k \in DOMAIN batch : k \in DOMAIN batch' /\ batch'[k].body = batch[k].body
<1> DEFINE front == Head(queue)
           body == merge_pending_units(front)
           key == Key(front)
           Known == key \in DOMAIN batch
           x == [pc |-> "apply", key |-> key, left |-> orderPushChanges(body)]
           Works == handler' = [handler EXCEPT ![h] = x]
           TooMuch == ByteCount(front) > limits.apiBytes \/ RowCount(body) > limits.apiRows
<1>1. StateType /\ PlayOK /\ RecordsOK /\ RecordsInOrder /\ ChunksInOrder /\ PromisesOK
  BY DEF IInv
<1>2. UNCHANGED <<limits, outbox, version, queue, stored, overtaken>> /\ pc = "sent" /\ queue # <<>>
  BY <1>1 DEF Handle, device, StateType, TypeOK
<1>3. front \in Chunks /\ front \in Seq(Units) /\ ToSet(front) \subseteq Units
  BY <1>1, <1>2, HeadOfQueue
<1>4. \/ TooMuch /\ Answer(h, "tooMuch") /\ UNCHANGED batch
      \/ /\ ~ TooMuch /\ ~ Known /\ Works
         /\ batch' = [k \in DOMAIN batch \cup {key} |->
                        IF k = key THEN [status |-> "pending", body |-> body, stale |-> FALSE] ELSE batch[k]]
      \/ /\ ~ TooMuch /\ Known /\ UNCHANGED batch
         /\ \/ batch[key].status = "completed" /\ SameBody(key, body) /\ Answer(h, "replay")
            \/ batch[key].status = "completed" /\ ~ SameBody(key, body) /\ Answer(h, "conflict")
            \/ batch[key].status = "pending" /\ ~ TimedOut(key) /\ Answer(h, "busy")
      \/ /\ ~ TooMuch /\ Known /\ batch[key].status = "pending" /\ TimedOut(key) /\ Works
         /\ batch' = [batch EXCEPT ![key].stale = FALSE]
  BY DEF Handle
<1> HIDE DEF front
<1>5. body \in Bodies /\ key \subseteq RowIds /\ ToSet(orderPushChanges(body)) = Pairs(front)
      /\ orderPushChanges(body) \in Seq(Versions)
  BY <1>3, MergeElements, KeyTypes, MergedPairs, BodyElements
<1>6. x \in ApplyState /\ x.pc = "apply" /\ x.key = key /\ x.left = orderPushChanges(body)
  <2> HIDE DEF body, key
  <2> QED BY <1>5 DEF ApplyState
<1>7. DOMAIN handler = Handlers
  BY <1>1 DEF StateType, HandlerType
<1>8. \A k \in DOMAIN batch : batch[k] \in [status: {"pending", "completed"}, body: Bodies, stale: BOOLEAN]
  BY <1>1 DEF StateType, BatchType
<1>9. DOMAIN batch \subseteq SUBSET RowIds
  BY <1>1 DEF StateType, BatchType
<1>10. /\ Pairs(Head(queue))' = Pairs(Head(queue)) /\ Key(Head(queue))' = Key(Head(queue))
       /\ ByteCount(Head(queue))' = ByteCount(Head(queue))
       /\ merge_pending_units(Head(queue))' = merge_pending_units(Head(queue))
  BY <1>2 DEF Pairs, Pair, Key, Ids, ByteCount, encoded_push_chunk_len, merge_pending_units, InTable, Keep
<1>11. Head(queue)' = Head(queue) /\ limits' = limits
  BY <1>2
<1> DEFINE Same == DOMAIN batch' = DOMAIN batch /\ \A k \in DOMAIN batch :
                      /\ batch'[k].body = batch[k].body /\ batch'[k].status = batch[k].status
                      /\ batch'[k] \in [status: {"pending", "completed"}, body: Bodies, stale: BOOLEAN]
           New == /\ key \notin DOMAIN batch /\ DOMAIN batch' = DOMAIN batch \cup {key}
                  /\ batch'[key] = [status |-> "pending", body |-> body, stale |-> FALSE]
                  /\ \A k \in DOMAIN batch : batch'[k] = batch[k]
<1>12. Same \/ New
  <2>1. CASE UNCHANGED batch
    BY <2>1, <1>8
  <2>2. CASE /\ ~ Known
             /\ batch' = [k \in DOMAIN batch \cup {key} |->
                        IF k = key THEN [status |-> "pending", body |-> body, stale |-> FALSE] ELSE batch[k]]
    <3> HIDE DEF body, key
    <3> QED BY <2>2
  <2>3. CASE Known /\ batch' = [batch EXCEPT ![key].stale = FALSE]
    <3> HIDE DEF key
    <3> QED BY <2>3, <1>8
  <2> QED BY <1>4, <2>1, <2>2, <2>3
<1> HIDE DEF body, key
<1>13. ASSUME Same
       PROVE  /\ BatchType' /\ RecordsOK' /\ RecordsInOrder' /\ CompletedKept
              /\ \A k \in DOMAIN batch : k \in DOMAIN batch' /\ batch'[k].body = batch[k].body
  <2>1. BatchType'
    BY <1>9, <1>13 DEF BatchType, Bodies, RowIds, Versions
  <2>2. CompletedKept /\ \A k \in DOMAIN batch : k \in DOMAIN batch' /\ batch'[k].body = batch[k].body
    BY <1>13 DEF CompletedKept
  <2>3. VersionsGrow /\ RecordsKept /\ OutboxKept
    BY <1>1, <1>2, <1>13, VersionsSame DEF RecordsKept, OutboxKept, Agrees
  <2>4. Queued' = Queued /\ ChunksShrink
    BY <1>2 DEF Queued, Chunks, ChunksShrink
  <2>5. RecordsOK' /\ RecordsInOrder'
    BY <1>1, <2>3, <2>4, RecordsStayOK, RecordsStayInOrder
  <2> QED BY <2>1, <2>2, <2>5
<1>14. ASSUME New
       PROVE  /\ BatchType' /\ RecordsOK' /\ RecordsInOrder' /\ CompletedKept
              /\ \A k \in DOMAIN batch : k \in DOMAIN batch' /\ batch'[k].body = batch[k].body
  <2>1. batch'[key].body = body /\ batch'[key].status = "pending" /\ batch'[key].stale = FALSE
        /\ \A k \in DOMAIN batch : k # key
    BY <1>14
  <2>2. batch'[key] \in [status: {"pending", "completed"}, body: Bodies, stale: BOOLEAN]
    BY <1>5, <1>14
  <2>3. BatchType'
    <3>1. DOMAIN batch' \subseteq SUBSET RowIds
      BY <1>5, <1>9, <1>14
    <3>2. \A k \in DOMAIN batch' : batch'[k] \in [status: {"pending", "completed"}, body: Bodies, stale: BOOLEAN]
      BY <1>8, <1>14, <2>2
    <3> QED BY <3>1, <3>2 DEF BatchType, Bodies, RowIds, Versions
  <2>4. CompletedKept /\ \A k \in DOMAIN batch : k \in DOMAIN batch' /\ batch'[k].body = batch[k].body
    BY <1>14, <2>1 DEF CompletedKept
  <2>5. RecordsOK' /\ RecordsInOrder'
    BY <1>1, <1>2, <1>14, <2>1, NewRecord DEF key, body, front
  <2> QED BY <2>3, <2>4, <2>5
<1>15. ASSUME Works
       PROVE  /\ HandlerType' /\ \A g \in Handlers : handler'[g].pc \in {"free", "apply", "answer"}
              /\ InHand(h)'
  <2>1. HandlerType' /\ \A g \in Handlers : handler'[g].pc \in {"free", "apply", "answer"}
    <3> HIDE DEF x
    <3> QED BY <1>1, <1>6, <1>15, HandlerTypes
  <2>2. handler'[h] = x
    <3> HIDE DEF x
    <3> QED BY <1>7, <1>15
  <2>3. handler'[h].pc = "apply" /\ handler'[h].key = key /\ handler'[h].left = orderPushChanges(body)
    <3> HIDE DEF x
    <3> QED BY <1>6, <2>2
  <2>4. InHand(h)'
    BY <1>5, <1>10, <1>11, <2>3 DEF InHand, front, key
  <2> QED BY <2>1, <2>4
<1>16. ASSUME \E why \in Whys : Answer(h, why)
       PROVE  /\ HandlerType' /\ \A g \in Handlers : handler'[g].pc \in {"free", "apply", "answer"}
              /\ InHand(h)'
  <2>1. PICK why \in Whys : Answer(h, why)
    BY <1>16
  <2>2. HandlerType' /\ \A g \in Handlers : handler'[g].pc \in {"free", "apply", "answer"}
    BY <1>1, <2>1, AnswerTypes
  <2>3. handler'[h].pc = "answer" /\ handler'[h].why = why
    BY <1>1, <2>1, AnswerGiven
  <2>4. /\ why = "tooMuch" => TooMuch
        /\ why = "replay" => Known /\ batch[key].status = "completed" /\ batch[key].body = body
        /\ why = "conflict" => Known /\ batch[key].body # body /\ UNCHANGED batch
        /\ why # "applied"
    <3>1. /\ ~ Works
          /\ \A other : Answer(h, other) => other = why
      <4>1. \A other : Answer(h, other) => handler'[h].why = other
        BY <1>1, AnswerGiven
      <4>2. ~ Works
        <5> SUFFICES ASSUME Works PROVE FALSE
          OBVIOUS
        <5>1. handler'[h] = x
          <6> HIDE DEF x
          <6> QED BY <1>7
        <5> QED BY <5>1, <2>3, <1>6
      <4> QED BY <4>1, <4>2, <2>3
    <3> HIDE DEF Works, TooMuch
    <3>2. ~ Works /\ (Answer(h, "tooMuch") => why = "tooMuch") /\ (Answer(h, "replay") => why = "replay")
          /\ (Answer(h, "conflict") => why = "conflict") /\ (Answer(h, "busy") => why = "busy")
      BY <3>1
    <3> QED BY <3>2, <1>4 DEF SameBody
  <2>5. why = "replay" => \A q \in Pairs(front) : IsStored(q)
    <3> SUFFICES ASSUME why = "replay", NEW q \in Pairs(front) PROVE IsStored(q)
      OBVIOUS
    <3>1. q \in UNION { ToSet(body[t]) : t \in 1..NumTables }
      BY <1>5, BodyElements
    <3>2. PICK t \in 1..NumTables : q \in ToSet(body[t])
      BY <3>1
    <3> QED BY <3>2, <2>4, <1>1 DEF PromisesOK
  <2>6. why = "conflict" => Changed(front)
    BY <2>4, <1>1, <1>2, OtherBody DEF front, key, body
  <2>7. why = "conflict" => RecordsKept
    BY <2>4 DEF RecordsKept
  <2>8. why = "conflict" => Changed(front)'
    <3>1. front' = front
      BY <1>2 DEF front
    <3>2. \A c : RecordsKept /\ Changed(c) => Changed(c)'
      BY ChangedStays
    <3>3. ASSUME NEW c, c = front, Changed(c)' PROVE Changed(front)'
      BY <3>1, <3>3 DEF Changed, Key, Ids, Pair
    <3> QED BY <3>2, <3>3, <2>6, <2>7
  <2>9. \A q : IsStored(q) => IsStored(q)'
    BY <1>2 DEF IsStored
  <2>10. front' = front
    BY <1>2 DEF front
  <2>11. InHand(h)'
    BY <1>10, <1>11, <2>3, <2>4, <2>5, <2>8, <2>9, <2>10 DEF InHand, RowCount, front, body
  <2> QED BY <2>2, <2>11
<1>17. Works \/ \E why \in Whys : Answer(h, why)
  BY <1>4 DEF Whys
<1> QED BY <1>12, <1>13, <1>14, <1>15, <1>16, <1>17

-----------------------------------------------------------------------------
(***************************************************************************)
(* The parts of the invariant that a step leaves alone.                    *)
(***************************************************************************)
LEMMA DeviceSame ==
  ASSUME StateType, OutboxOK, PlayOK, ChunksInOrder, UNCHANGED <<outbox, version, queue, answered>>
  PROVE  /\ VersionsGrow /\ OutboxOK' /\ OutboxKept /\ PlayOK' /\ ChunksShrink /\ ChunksInOrder'
         /\ Chunks' = Chunks /\ Queued' = Queued /\ InPlay' = InPlay
<1>1. /\ VersionsGrow /\ OutboxOK' /\ OutboxKept
  BY VersionsSame, OutboxSame
<1>2. Chunks' = Chunks /\ Queued' = Queued /\ InPlay' = InPlay /\ ChunksShrink
  BY QueueSame
<1>3. PlayOK'
  BY <1>1, PlaySame
<1>4. ChunksInOrder'
  BY <1>1, <1>2, ChunksStayInOrder
<1> QED BY <1>1, <1>2, <1>3, <1>4

(* A step that leaves the records alone keeps them.                        *)
LEMMA BatchSame ==
  ASSUME StateType, UNCHANGED batch
  PROVE  BatchType' /\ RecordsKept /\ CompletedKept
<1>1. BatchType'
  BY DEF StateType, BatchType, Bodies, RowIds, Versions
<1> QED BY <1>1 DEF RecordsKept, CompletedKept

(* A step that leaves the handlers alone keeps them typed.                 *)
LEMMA HandlersSame ==
  ASSUME StateType, UNCHANGED handler
  PROVE  HandlerType' /\ \A g \in Handlers : handler'[g].pc \in {"free", "apply", "answer"}
BY DEF StateType, TypeOK, HandlerType, FreeState, ApplyState, AnswerState, StatusOf, getErrorStatus,
       Whys, RowIds, Versions

(* What the push has read and not yet marked stays accounted for.          *)
LEMMA ReadSame ==
  ASSUME StateType, ReadOK, UNCHANGED <<outbox, version, queue, answered, read, last>>,
         pc' = "idle" <=> pc = "idle"
  PROVE  ReadOK'
<1>1. InPlay' = InPlay
  BY QueueSame
<1> QED BY <1>1 DEF ReadOK, SuccessIsComplete, Ids

(* What is known of the last outcome stays true.                           *)
LEMMA LastSame ==
  ASSUME LastOK, RecordsKept, UNCHANGED <<last, limits>>
  PROVE  LastOK'
<1>1. last.why = "conflict" => Changed(last.chunk)
  BY DEF LastOK
<1>2. \A c : Changed(c) => Changed(c)'
  BY ChangedStays
<1>3. last.why = "conflict" => Changed(last.chunk)'
  BY <1>1, <1>2 DEF Changed, Key, Ids, Pair
<1>4. TooLargeIsTruthful'
  BY DEF LastOK, TooLargeIsTruthful, encoded_push_chunk_len
<1> QED BY <1>3, <1>4 DEF LastOK

(* A device that is not waiting has no handler to hear from.               *)
LEMMA NobodyWaits ==
  ASSUME StateType, pc # "wait"
  PROVE  at = {}
BY DEF StateType, TypeOK

(***************************************************************************)
(* A step of the server that the device does not see.                      *)
(***************************************************************************)
LEMMA ServerStep ==
  ASSUME IInv, UNCHANGED <<limits, device, push>>, RecordsKept, BatchType', HandlerType',
         \A g \in Handlers : handler'[g].pc \in {"free", "apply", "answer"},
         stored' \in [Rows -> 0..MaxVersion], overtaken' \subseteq Rows, faults' \in Nat,
         PromisesOK', \A h \in at : InHand(h)'
  PROVE  IInv'
<1>1. /\ UNCHANGED <<limits, outbox, version, pc, queue, answered, read, at, last, acked>>
      /\ StateType /\ OutboxOK /\ PlayOK /\ ReadOK /\ RecordsOK /\ RecordsInOrder /\ ChunksInOrder /\ LastOK
  BY DEF IInv, device, push
<1>2. /\ VersionsGrow /\ OutboxOK' /\ OutboxKept /\ PlayOK' /\ ChunksShrink /\ ChunksInOrder' /\ Queued' = Queued
  BY <1>1, DeviceSame
<1>3. RecordsOK' /\ RecordsInOrder'
  BY <1>1, <1>2, RecordsStayOK, RecordsStayInOrder
<1>4. ReadOK'
  BY <1>1, ReadSame
<1>5. LastOK'
  BY <1>1, LastSame
<1>6. InHandOK'
  BY <1>1 DEF InHandOK
<1>7. StateType'
  <2>1. TypeOK'
    BY <1>1 DEF StateType, TypeOK
  <2> QED BY <1>1, <2>1 DEF StateType
<1> QED BY <1>2, <1>3, <1>4, <1>5, <1>6, <1>7 DEF IInv

(***************************************************************************)
(* A push ends.                                                            *)
(***************************************************************************)
LEMMA PushEnded ==
  ASSUME IInv, NEW why \in {"lost", "tooLarge", "busy", "conflict", "failed"}, NEW chunk \in Seq(Units),
         EndPush(why, chunk), UNCHANGED <<limits, device, acked, batch, stored, overtaken>>,
         HandlerType', \A g \in Handlers : handler'[g].pc \in {"free", "apply", "answer"}, faults' \in Nat,
         why = "conflict" => Changed(chunk),
         why = "tooLarge" => /\ Len(chunk) = 1
                             /\ \/ encoded_push_chunk_len(chunk) > limits.bytes
                                \/ encoded_push_chunk_len(chunk) > limits.apiBytes
  PROVE  IInv'
<1>1. /\ UNCHANGED <<limits, outbox, version, acked, batch, stored, overtaken>>
      /\ pc' = "idle" /\ queue' = <<>> /\ answered' = <<>> /\ read' = {} /\ at' = {}
      /\ last' = [why |-> why, chunk |-> chunk]
  BY DEF EndPush, device
<1>2. /\ StateType /\ OutboxOK /\ PlayOK /\ ReadOK /\ RecordsOK /\ RecordsInOrder /\ ChunksInOrder
      /\ PromisesOK
  BY DEF IInv
<1>3. VersionsGrow /\ OutboxOK' /\ OutboxKept
  BY <1>1, <1>2, VersionsSame, OutboxSame
<1>4. Chunks' = {} /\ Queued' = {} /\ ChunksShrink /\ ToSet(answered') = {}
  BY <1>1, QueueEmpty DEF ToSet
<1>5. BatchType' /\ RecordsKept /\ CompletedKept
  BY <1>1, <1>2, BatchSame
<1>6. PlayOK'
  BY <1>1, PlayEmpty
<1>7. RecordsOK' /\ RecordsInOrder' /\ ChunksInOrder'
  BY <1>2, <1>3, <1>4, <1>5, RecordsStayOK, RecordsStayInOrder, ChunksStayInOrder
<1>8. StoredKept
  BY <1>1, StoredSame
<1>9. PromisesOK'
  BY <1>1, <1>2, <1>3, <1>4, <1>5, <1>8, PromisesStay
<1>10. ReadOK'
  BY <1>1 DEF ReadOK, SuccessIsComplete
<1>11. InHandOK'
  BY <1>1 DEF InHandOK
<1>12. LastOK'
  <2>1. last'.why = why /\ last'.chunk = chunk /\ limits' = limits
    BY <1>1
  <2>2. why = "conflict" => Changed(chunk)'
    BY <1>5, ChangedStays
  <2>3. last'.why = "conflict" => Changed(last.chunk)'
    BY <1>1, <2>1, <2>2 DEF Changed, Key, Ids, Pair
  <2>4. TooLargeIsTruthful'
    BY <1>1, <2>1 DEF TooLargeIsTruthful, encoded_push_chunk_len
  <2> QED BY <2>3, <2>4 DEF LastOK
<1>13. StateType'
  <2>1. queue' \in Seq(Seq(Units) \ {<<>>}) /\ answered' \in Seq(Units)
    BY <1>1
  <2>2. last' \in [why: {"none", "done", "lost", "tooLarge", "busy", "conflict", "failed"}, chunk: Seq(Units)]
    BY <1>1
  <2>3. last'.why = why
    BY <1>1
  <2>4. TypeOK'
    BY <1>1, <1>2, <2>1, <2>3 DEF StateType, TypeOK
  <2> QED BY <1>1, <1>2, <1>5, <2>2, <2>4 DEF StateType, Units
<1> QED BY <1>3, <1>6, <1>7, <1>9, <1>10, <1>11, <1>12, <1>13 DEF IInv

(***************************************************************************)
(* The first chunk is split or answered.                                   *)
(***************************************************************************)
LEMMA PushGoesOn ==
  ASSUME IInv, queue # <<>>, pc # "idle",
         \/ Split /\ Len(Head(queue)) > 1
         \/ Moved /\ \A p \in Pairs(Head(queue)) : IsStored(p),
         pc' = "loop", at' = {}, UNCHANGED <<limits, device, read, last, acked, batch, stored, overtaken>>,
         HandlerType', \A g \in Handlers : handler'[g].pc \in {"free", "apply", "answer"}, faults' \in Nat
  PROVE  IInv'
<1>1. UNCHANGED <<limits, outbox, version, read, last, acked, batch, stored, overtaken>>
  BY DEF device
<1>2. /\ StateType /\ OutboxOK /\ PlayOK /\ ReadOK /\ RecordsOK /\ RecordsInOrder /\ ChunksInOrder
      /\ PromisesOK /\ LastOK
  BY DEF IInv
<1>3. VersionsGrow /\ OutboxOK' /\ OutboxKept
  BY <1>1, <1>2, VersionsSame, OutboxSame
<1>4. /\ queue' \in Seq(Seq(Units) \ {<<>>}) /\ answered' \in Seq(Units)
      /\ ChunksShrink /\ Queued' \subseteq Queued /\ InPlay' = InPlay /\ PlayOK'
      /\ \A u \in ToSet(answered') : u \in ToSet(answered) \/ IsStored(Pair(u))
  <2>1. CASE Split /\ Len(Head(queue)) > 1
    <3>1. /\ queue' \in Seq(Seq(Units) \ {<<>>}) /\ ChunksShrink /\ Queued' = Queued /\ InPlay' = InPlay
      BY <1>2, <2>1, QueueSplit
    <3>2. PlayOK'
      BY <1>2, <1>3, <2>1, PlaySplit
    <3>3. answered' = answered /\ answered \in Seq(Units)
      BY <1>2, <2>1 DEF Split, StateType, TypeOK
    <3> QED BY <3>1, <3>2, <3>3
  <2>2. CASE Moved /\ \A p \in Pairs(Head(queue)) : IsStored(p)
    <3>1. /\ queue' \in Seq(Seq(Units) \ {<<>>}) /\ answered' \in Seq(Units)
          /\ ChunksShrink /\ Queued' \subseteq Queued /\ InPlay' = InPlay
          /\ ToSet(answered') = ToSet(answered) \cup ToSet(Head(queue))
      BY <1>2, <2>2, QueueMoved
    <3>2. PlayOK'
      BY <1>2, <1>3, <2>2, PlayMoved
    <3>3. \A u \in ToSet(Head(queue)) : IsStored(Pair(u))
      BY <2>2 DEF Pairs
    <3> QED BY <3>1, <3>2, <3>3
  <2> QED BY <2>1, <2>2
<1>5. BatchType' /\ RecordsKept /\ CompletedKept
  BY <1>1, <1>2, BatchSame
<1>6. RecordsOK' /\ RecordsInOrder' /\ ChunksInOrder'
  BY <1>2, <1>3, <1>4, <1>5, RecordsStayOK, RecordsStayInOrder, ChunksStayInOrder
<1>7. PromisesOK'
  <2>1. StoredKept
    BY <1>1, StoredSame
  <2>2. ToSet(answered') \subseteq Units
    BY <1>4, SeqElements
  <2> QED BY <1>1, <1>2, <1>3, <1>4, <1>5, <2>1, <2>2, PromisesStay
<1>8. ReadOK'
  <2>1. \A p \in read : p[2] <= version[p[1]]
    BY <1>2 DEF ReadOK
  <2>2. read = { u.id : u \in InPlay } /\ last.why = "none"
    BY <1>2 DEF ReadOK
  <2> QED BY <1>1, <1>4, <2>1, <2>2 DEF ReadOK, SuccessIsComplete
<1>9. InHandOK'
  BY DEF InHandOK
<1>10. LastOK'
  BY <1>1, <1>2, <1>5, LastSame
<1>11. StateType'
  <2>1. TypeOK'
    BY <1>1, <1>2, <1>4 DEF StateType, TypeOK
  <2> QED BY <1>1, <1>2, <1>5, <2>1 DEF StateType
<1> QED BY <1>3, <1>4, <1>6, <1>7, <1>8, <1>9, <1>10, <1>11 DEF IInv

-----------------------------------------------------------------------------
(***************************************************************************)
(* Each step preserves the invariant.                                      *)
(***************************************************************************)
LEMMA EditStep ==
  ASSUME IInv, NEW r \in Rows, Edit(r)
  PROVE  IInv'
<1>1. /\ UNCHANGED <<limits, push, server, faults>>
      /\ UNCHANGED <<pc, queue, answered, read, at, last, acked, handler, batch, stored, overtaken>>
  BY DEF Edit, push, server
<1>2. /\ StateType /\ OutboxOK /\ PlayOK /\ ReadOK /\ RecordsOK /\ RecordsInOrder /\ ChunksInOrder
      /\ PromisesOK /\ InHandOK /\ LastOK
  BY DEF IInv
<1>3. /\ VersionsGrow /\ version'[r] = version[r] + 1 /\ outbox' \in Seq(Entries)
      /\ OutboxOK' /\ OutboxKept
      /\ \A e, f \in ToSet(outbox') : e.row = f.row => e = f
  BY <1>2, Edited, EditOutbox
<1>4. Chunks' = Chunks /\ Queued' = Queued /\ InPlay' = InPlay /\ ChunksShrink /\ PlayOK'
  BY <1>1, <1>2, <1>3, QueueSame, PlaySame
<1>5. BatchType' /\ RecordsKept /\ CompletedKept /\ StoredKept
  BY <1>1, <1>2, BatchSame, StoredSame
<1>6. RecordsOK' /\ RecordsInOrder' /\ ChunksInOrder'
  BY <1>2, <1>3, <1>4, <1>5, RecordsStayOK, RecordsStayInOrder, ChunksStayInOrder
<1>7. PromisesOK'
  <2>1. \A u \in ToSet(answered') : u \in Units /\ u \in ToSet(answered)
    BY <1>1, <1>2, InPlayTypes
  <2> QED BY <1>1, <1>2, <1>3, <1>4, <1>5, <2>1, PromisesStay
<1>8. ReadOK'
  <2>1. /\ version \in [Rows -> 1..MaxVersion] /\ MaxVersion \in Nat /\ read \subseteq RowIds
    BY <1>2, Constants DEF StateType, TypeOK
  <2>2. ASSUME NEW p \in read PROVE p[2] <= version'[p[1]]
    <3>1. p[1] \in Rows /\ p[2] \in Nat
      BY <2>1 DEF RowIds
    <3>2. version[p[1]] \in Nat /\ version'[p[1]] \in Nat /\ version[p[1]] <= version'[p[1]]
      BY <1>3, <2>1, <3>1 DEF VersionsGrow
    <3> QED BY <1>2, <3>1, <3>2 DEF ReadOK
  <2>3. SuccessIsComplete'
    <3> SUFFICES ASSUME pc = "idle", last.why = "done", NEW x \in ToSet(outbox'), x.id \in read
                 PROVE  FALSE
      BY <1>1 DEF SuccessIsComplete, Ids
    <3>1. PICK e \in Entries :
              /\ e.row = r /\ e.id[1] = r
              /\ e.id[2] = version'[r] \/ \E o \in ToSet(outbox) : e.id = o.id
              /\ \A y : y \in ToSet(outbox') <=> y = e \/ (y \in ToSet(outbox) /\ y.row # r)
      BY <1>2, Edited
    <3>2. \A y \in ToSet(outbox) : y.id \notin read
      BY <1>2 DEF ReadOK, SuccessIsComplete, Ids
    <3>3. x = e /\ e.id[2] = version'[r]
      BY <3>1, <3>2
    <3>4. e.id[2] <= version[r]
      BY <1>2, <3>1, <3>3 DEF ReadOK
    <3>5. version[r] \in Nat
      BY <2>1
    <3> QED BY <1>3, <3>3, <3>4, <3>5
  <2>4. /\ pc' # "idle" => read' = { u.id : u \in InPlay' } /\ last'.why = "none"
        /\ pc' = "idle" => queue' = <<>>
    BY <1>1, <1>2, <1>4 DEF ReadOK
  <2> QED BY <1>1, <2>2, <2>3, <2>4 DEF ReadOK
<1>9. InHandOK'
  BY <1>1, <1>2, <1>5, InHandStays DEF InHandOK
<1>10. LastOK'
  BY <1>1, <1>2, <1>5, LastSame
<1>11. StateType'
  <2>1. HandlerType'
    BY <1>1, <1>2, HandlersSame
  <2>2. TypeOK'
    BY <1>1, <1>2, <1>3 DEF StateType, TypeOK, VersionsGrow
  <2> QED BY <1>1, <1>2, <1>5, <2>1, <2>2, Edited DEF StateType, Edit
<1> QED BY <1>3, <1>4, <1>6, <1>7, <1>8, <1>9, <1>10, <1>11 DEF IInv

(* A pull writes what the other device has stored: no version that existed *)
(* is taken back, and no row is in a chunk.                                *)
LEMMA PullStep ==
  ASSUME IInv, NEW r \in Rows, Pull(r)
  PROVE  IInv'
<1>1. /\ pc = "idle" /\ UNCHANGED <<limits, pc, queue, answered, read, at, last, acked, handler, batch, faults>>
      /\ stored' = [stored EXCEPT ![r] = version[r] + 1] /\ overtaken' = overtaken \ {r}
  BY DEF Pull, push
<1>2. /\ StateType /\ OutboxOK /\ PlayOK /\ ReadOK /\ RecordsOK /\ RecordsInOrder /\ ChunksInOrder
      /\ PromisesOK /\ LastOK
  BY DEF IInv
<1>3. /\ VersionsGrow /\ version'[r] = version[r] + 1 /\ version[r] + 1 \in 1..MaxVersion
      /\ outbox' \in Seq(Entries) /\ OutboxOK' /\ OutboxKept
      /\ \A e, f \in ToSet(outbox') : e.row = f.row => e = f
      /\ \A e \in ToSet(outbox') : \E o \in ToSet(outbox) : e.id = o.id
  BY <1>2, PulledOutbox
<1>4. Chunks' = Chunks /\ Queued' = Queued /\ InPlay' = InPlay /\ ChunksShrink /\ PlayOK'
  BY <1>1, <1>2, <1>3, QueueSame, PlaySame
<1>5. BatchType' /\ RecordsKept
  BY <1>1, <1>2, BatchSame
<1>6. RecordsOK' /\ RecordsInOrder' /\ ChunksInOrder'
  BY <1>2, <1>3, <1>4, <1>5, RecordsStayOK, RecordsStayInOrder, ChunksStayInOrder
<1>7. /\ version \in [Rows -> 1..MaxVersion] /\ MaxVersion \in Nat /\ read \subseteq RowIds
      /\ stored \in [Rows -> 0..MaxVersion] /\ acked \in [Rows -> 0..MaxVersion] /\ overtaken \subseteq Rows
  BY <1>2, Constants DEF StateType, TypeOK
<1>8. ASSUME NEW s \in Rows, NEW n \in Nat, n <= version[s], n <= stored[s] \/ s \in overtaken
      PROVE  n <= stored'[s] \/ s \in overtaken'
  <2>1. CASE s = r
    BY <2>1, <1>1, <1>7, <1>8
  <2>2. CASE s # r
    BY <2>2, <1>1, <1>7, <1>8
  <2> QED BY <2>1, <2>2
<1>9. ASSUME NEW p \in Versions, p[2] <= version[p[1]], IsStored(p) PROVE IsStored(p)'
  BY <1>8, <1>9, PairFields DEF IsStored
<1>10. PromisesOK'
  <2>1. AcknowledgedIsStored'
    <3>1. \A s \in Rows : acked[s] \in Nat /\ acked[s] <= version[s]
                           /\ (acked[s] <= stored[s] \/ s \in overtaken)
      BY <1>2, <1>7 DEF PromisesOK, AcknowledgedIsStored
    <3> QED BY <1>1, <1>8, <3>1 DEF AcknowledgedIsStored
  <2>2. ASSUME NEW u \in ToSet(answered') PROVE IsStored(Pair(u))'
    <3>1. u \in ToSet(answered) /\ u \in InPlay /\ u \in Units
      BY <1>1, <1>2, InPlayTypes DEF InPlay
    <3>2. IsStored(Pair(u)) /\ UnitOK(u)
      BY <1>2, <3>1 DEF PromisesOK, PlayOK
    <3>3. Pair(u) \in Versions /\ Pair(u)[2] <= version[Pair(u)[1]]
      BY <3>1, <3>2, UnitFields DEF UnitOK
    <3>4. Pair(u)' = Pair(u)
      BY DEF Pair
    <3> QED BY <3>2, <3>3, <3>4, <1>9
  <2>3. ASSUME NEW k \in DOMAIN batch, batch[k].status = "completed",
               NEW t \in 1..NumTables, NEW p \in ToSet(batch[k].body[t])
        PROVE  IsStored(p)'
    <3>1. p \in Versions /\ IsStored(p)
      BY <1>2, <2>3, BodyTypes DEF PromisesOK
    <3>2. p[2] <= version[p[1]]
      BY <1>2 DEF RecordsOK, RecordOK
    <3> QED BY <3>1, <3>2, <1>9
  <2>4. Queued' = {}
    BY <1>1, <1>2, QueueEmpty DEF ReadOK
  <2>5. ASSUME NEW s \in Rows PROVE acked[s] <= version'[s]
    <3>1. acked[s] <= version[s] /\ version[s] <= version'[s]
      BY <1>2, <1>3 DEF PromisesOK, VersionsGrow
    <3>2. acked[s] \in Nat /\ version[s] \in Nat /\ version'[s] \in Nat
      BY <1>3, <1>7 DEF VersionsGrow
    <3> QED BY <3>1, <3>2
  <2> QED BY <1>1, <2>1, <2>2, <2>3, <2>4, <2>5 DEF PromisesOK, Pair
<1>11. ReadOK'
  <2>1. ASSUME NEW p \in read PROVE p[2] <= version'[p[1]]
    <3>1. p[1] \in Rows /\ p[2] \in Nat
      BY <1>7 DEF RowIds
    <3>2. version[p[1]] \in Nat /\ version'[p[1]] \in Nat /\ version[p[1]] <= version'[p[1]]
      BY <1>3, <1>7, <3>1 DEF VersionsGrow
    <3> QED BY <1>2, <3>1, <3>2 DEF ReadOK
  <2>2. SuccessIsComplete'
    BY <1>1, <1>2, <1>3 DEF ReadOK, SuccessIsComplete, Ids
  <2> QED BY <1>1, <1>2, <2>1, <2>2 DEF ReadOK
<1>12. InHandOK'
  BY <1>1, <1>2, NobodyWaits DEF InHandOK
<1>13. LastOK'
  BY <1>1, <1>2, <1>5, LastSame
<1>14. StateType'
  <2>1. HandlerType'
    BY <1>1, <1>2, HandlersSame
  <2>2. stored' \in [Rows -> 0..MaxVersion] /\ overtaken' \subseteq Rows
    BY <1>1, <1>3, <1>7
  <2>3. TypeOK'
    BY <1>1, <1>2, <1>3, <2>2 DEF StateType, TypeOK, VersionsGrow
  <2> QED BY <1>1, <1>2, <1>5, <2>1, <2>2, <2>3 DEF StateType
<1> QED BY <1>3, <1>4, <1>6, <1>10, <1>11, <1>12, <1>13, <1>14 DEF IInv

(* Starting a push.                                                        *)
LEMMA StartStep ==
  ASSUME IInv, StartPush
  PROVE  IInv'
<1>1. /\ UNCHANGED <<limits, outbox, version, at, acked, handler, batch, stored, overtaken, faults>>
      /\ pc = "idle" /\ pc' = "loop" /\ read' = Ids(outbox) /\ answered' = <<>>
      /\ last' = [why |-> "none", chunk |-> <<>>]
  BY DEF StartPush, Frame, device, server
<1>2. /\ StateType /\ OutboxOK /\ PlayOK /\ ReadOK /\ RecordsOK /\ RecordsInOrder /\ ChunksInOrder
      /\ PromisesOK /\ InHandOK /\ LastOK
  BY DEF IInv
<1>3. VersionsGrow /\ OutboxOK' /\ OutboxKept
  BY <1>1, <1>2, VersionsSame, OutboxSame
<1>4. /\ queue' \in Seq(Seq(Units) \ {<<>>}) /\ Queued' \subseteq Units
      /\ { EntryOf(u) : u \in Queued' } = ToSet(outbox)
  BY <1>2, QueueStarted
<1>5. PlayOK'
  BY <1>2, PlayStarted
<1>6. RecordsOK' /\ RecordsInOrder' /\ ChunksInOrder'
  BY <1>2, StartedInOrder
<1>7. BatchType' /\ RecordsKept /\ CompletedKept /\ StoredKept
  BY <1>1, <1>2, BatchSame, StoredSame
<1>8. ToSet(answered') = {}
  BY <1>1 DEF ToSet
<1>9. PromisesOK'
  <2>1. \A u \in Queued' : u \in Units /\ u.ver = version[u.row]
    BY <1>2, StartedUnits
  <2> QED BY <1>1, <1>2, <1>3, <1>7, <1>8, <2>1, PromisesStay
<1>10. ReadOK'
  <2>1. \A u : EntryOf(u).id = u.id
    BY DEF EntryOf
  <2>2. { u.id : u \in Queued' } = { e.id : e \in ToSet(outbox) }
    BY <1>4, <2>1
  <2>3. InPlay' = Queued'
    BY <1>8 DEF InPlay
  <2>4. read' = { u.id : u \in InPlay' }
    BY <1>1, <2>2, <2>3 DEF Ids
  <2>5. ASSUME NEW p \in read' PROVE p[2] <= version'[p[1]]
    <3>1. PICK e \in ToSet(outbox) : p = e.id
      BY <1>1 DEF Ids
    <3> QED BY <3>1, <1>1, <1>2 DEF OutboxOK
  <2>6. last'.why = "none"
    BY <1>1
  <2> QED BY <1>1, <2>4, <2>5, <2>6 DEF ReadOK, SuccessIsComplete
<1>11. at = {}
  BY <1>1, <1>2, NobodyWaits
<1>12. InHandOK'
  BY <1>1, <1>11 DEF InHandOK
<1>13. last'.why = "none"
  BY <1>1
<1>14. LastOK'
  BY <1>13 DEF LastOK, TooLargeIsTruthful
<1>15. StateType'
  <2>1. HandlerType'
    BY <1>1, <1>2, HandlersSame
  <2>2. TypeOK'
    <3>1. answered' \in Seq(Units)
      BY <1>1
    <3> QED BY <1>1, <1>2, <1>4, <1>11, <1>13, <3>1 DEF StateType, TypeOK
  <2>3. last' \in [why: {"none", "done", "lost", "tooLarge", "busy", "conflict", "failed"}, chunk: Seq(Units)]
    BY <1>1
  <2>4. read' \subseteq RowIds
    <3>1. \A e \in ToSet(outbox) : e.id \in RowIds
      BY <1>2, InPlayTypes, EntryFields
    <3> QED BY <3>1, <1>1 DEF Ids
  <2> QED BY <1>1, <1>2, <1>7, <2>1, <2>2, <2>3, <2>4 DEF StateType, Units
<1> QED BY <1>3, <1>5, <1>6, <1>9, <1>10, <1>12, <1>14, <1>15 DEF IInv

(* Sending the next chunk, or splitting it, or giving up on it.            *)
LEMMA NextChunkStep ==
  ASSUME IInv, NextChunk
  PROVE  IInv'
<1>1. /\ UNCHANGED <<limits, device, handler, batch, stored, overtaken, faults>>
      /\ pc = "loop" /\ queue # <<>> /\ StateType
  BY DEF NextChunk, Frame, server, IInv
<1>2. /\ HandlerType' /\ \A g \in Handlers : handler'[g].pc \in {"free", "apply", "answer"}
      /\ faults' \in Nat
  BY <1>1, HandlersSame DEF StateType
<1>3. Head(queue) \in Seq(Units) /\ Head(queue) # <<>>
  BY <1>1, HeadOfQueue
<1>4. CASE TooLarge /\ Len(Head(queue)) > 1 /\ Split
  <2>1. pc' = "loop" /\ at' = {} /\ UNCHANGED <<read, last, acked>>
    BY <1>4 DEF Split
  <2> QED BY <1>1, <1>2, <1>4, <2>1, PushGoesOn
<1>5. CASE TooLarge /\ Len(Head(queue)) = 1 /\ EndPush("tooLarge", Head(queue)) /\ UNCHANGED acked
  <2>1. encoded_push_chunk_len(Head(queue)) > limits.bytes
    BY <1>5 DEF TooLarge
  <2>2. "tooLarge" \in {"lost", "tooLarge", "busy", "conflict", "failed"} /\ "tooLarge" # "conflict"
    OBVIOUS
  <2> QED BY <1>1, <1>2, <1>3, <1>5, <2>1, <2>2, PushEnded
<1>6. CASE ~ TooLarge /\ pc' = "sent" /\ UNCHANGED <<queue, answered, read, at, last, acked>>
  <2>1. UNCHANGED <<limits, outbox, version, queue, answered, read, at, last, acked, batch, stored, overtaken>>
    BY <1>1, <1>6 DEF device
  <2>2. /\ OutboxOK /\ PlayOK /\ ReadOK /\ RecordsOK /\ RecordsInOrder /\ ChunksInOrder
        /\ PromisesOK /\ InHandOK /\ LastOK
    BY DEF IInv
  <2>3. /\ VersionsGrow /\ OutboxOK' /\ OutboxKept /\ PlayOK' /\ ChunksShrink /\ ChunksInOrder'
        /\ Queued' = Queued
    BY <1>1, <2>1, <2>2, DeviceSame
  <2>4. BatchType' /\ RecordsKept /\ CompletedKept /\ StoredKept
    BY <1>1, <2>1, BatchSame, StoredSame
  <2>5. RecordsOK' /\ RecordsInOrder'
    BY <1>1, <2>2, <2>3, <2>4, RecordsStayOK, RecordsStayInOrder
  <2>6. PromisesOK'
    <3>1. \A u \in ToSet(answered') : u \in Units /\ u \in ToSet(answered)
      BY <1>1, <2>1, InPlayTypes
    <3> QED BY <1>1, <2>1, <2>2, <2>3, <2>4, <3>1, PromisesStay
  <2>7. ReadOK'
    BY <1>1, <1>6, <2>1, <2>2, ReadSame
  <2>8. at = {}
    BY <1>1, NobodyWaits
  <2>9. InHandOK'
    BY <2>1, <2>8 DEF InHandOK
  <2>10. LastOK'
    BY <2>1, <2>2, <2>4, LastSame
  <2>11. StateType'
    <3>1. TypeOK'
      BY <1>1, <1>2, <1>6, <2>1, <2>8 DEF StateType, TypeOK
    <3> QED BY <1>1, <1>2, <2>1, <2>4, <3>1 DEF StateType
  <2> QED BY <2>3, <2>5, <2>6, <2>7, <2>9, <2>10, <2>11 DEF IInv
<1> QED BY <1>4, <1>5, <1>6 DEF NextChunk

(* Hearing the answer.                                                     *)
LEMMA AnsweredStep ==
  ASSUME IInv, NEW h \in Handlers, Answered(h)
  PROVE  IInv'
<1> DEFINE chunk == Head(queue)
           status == handler[h].status
<1>1. /\ UNCHANGED <<limits, device, batch, stored, overtaken, faults>>
      /\ pc = "wait" /\ at = {h} /\ handler[h].pc = "answer" /\ StateType
      /\ handler' = [handler EXCEPT ![h] = [pc |-> "free"]]
  BY DEF Answered, IInv
<1>2. /\ HandlerType' /\ \A g \in Handlers : handler'[g].pc \in {"free", "apply", "answer"}
      /\ faults' \in Nat
  <2> DEFINE x == [pc |-> "free"]
  <2>1. x \in FreeState /\ x.pc # "answer" /\ handler' = [handler EXCEPT ![h] = x]
    BY <1>1 DEF FreeState
  <2> HIDE DEF x
  <2>2. /\ HandlerType' /\ \A g \in Handlers : handler'[g].pc \in {"free", "apply", "answer"}
    BY <1>1, <2>1, HandlerTypes
  <2> QED BY <1>1, <2>2 DEF StateType
<1>3. queue # <<>> /\ InHand(h)
  BY <1>1 DEF StateType, TypeOK, IInv, InHandOK
<1>4. chunk \in Seq(Units) /\ chunk # <<>>
  BY <1>1, <1>3, HeadOfQueue
<1>5. handler[h].why \in Whys /\ status = StatusOf(handler[h].why)
  <2>1. handler[h] \in FreeState \cup ApplyState \cup AnswerState /\ status = StatusOf(handler[h].why)
    BY <1>1 DEF StateType, HandlerType
  <2> QED BY <1>1, <2>1 DEF FreeState, ApplyState, AnswerState
<1>6. /\ status = 200 => handler[h].why \in {"applied", "replay"}
      /\ status = 413 => handler[h].why = "tooMuch"
      /\ status \notin {200, 413} => handler[h].why \in {"busy", "conflict", "failed"}
  <2>1. getErrorStatus(handler[h].why) \in {409, 413, 500}
        /\ (getErrorStatus(handler[h].why) = 413 <=> handler[h].why = "tooMuch")
    BY ErrorStatus
  <2> QED BY <1>5, <2>1 DEF StatusOf, Whys
<1>7. CASE status = 200 /\ pc' = "loop" /\ Moved /\ at' = {} /\ UNCHANGED <<read, last, acked>>
  <2>1. \A p \in Pairs(chunk) : IsStored(p)
    BY <1>1, <1>3, <1>6, <1>7 DEF InHand
  <2> QED BY <1>1, <1>2, <1>3, <1>7, <2>1, PushGoesOn
<1>8. CASE status = 413 /\ Len(chunk) > 1 /\ Split
  <2>1. pc' = "loop" /\ at' = {} /\ UNCHANGED <<read, last, acked>>
    BY <1>8 DEF Split
  <2> QED BY <1>1, <1>2, <1>3, <1>8, <2>1, PushGoesOn
<1>9. CASE status = 413 /\ Len(chunk) = 1 /\ EndPush("tooLarge", chunk) /\ UNCHANGED acked
  <2>1. ByteCount(chunk) > limits.apiBytes \/ RowCount(merge_pending_units(chunk)) > limits.apiRows
    BY <1>1, <1>3, <1>6, <1>9 DEF InHand
  <2>2. RowCount(merge_pending_units(chunk)) <= 1
    BY <1>4, <1>9, OneRow
  <2>3. limits.apiRows \in Nat \ {0}
    BY <1>1, PushAssumption DEF StateType
  <2>4. RowCount(merge_pending_units(chunk)) \in Nat
    <3>1. orderPushChanges(merge_pending_units(chunk)) \in Seq(Versions)
      BY <1>4, MergeElements, BodyElements
    <3> QED BY <3>1 DEF RowCount, orderPushChanges
  <2>5. ByteCount(chunk) > limits.apiBytes
    <3> HIDE DEF chunk
    <3> QED BY <2>1, <2>2, <2>3, <2>4
  <2>6. encoded_push_chunk_len(chunk) > limits.apiBytes
    BY <2>5 DEF ByteCount
  <2>7. "tooLarge" \in {"lost", "tooLarge", "busy", "conflict", "failed"} /\ "tooLarge" # "conflict"
    OBVIOUS
  <2> QED BY <1>1, <1>2, <1>4, <1>9, <2>6, <2>7, PushEnded
<1>10. CASE status \notin {200, 413} /\ EndPush(handler[h].why, chunk) /\ UNCHANGED acked
  <2>1. handler[h].why \in {"lost", "tooLarge", "busy", "conflict", "failed"} /\ handler[h].why # "tooLarge"
    BY <1>6, <1>10
  <2>2. handler[h].why = "conflict" => Changed(chunk)
    BY <1>1, <1>3 DEF InHand
  <2> DEFINE y == handler[h].why
  <2> HIDE DEF y, chunk
  <2>3. y \in {"lost", "tooLarge", "busy", "conflict", "failed"} /\ y # "tooLarge" /\ EndPush(y, chunk)
        /\ (y = "conflict" => Changed(chunk)) /\ UNCHANGED acked
    BY <1>10, <2>1, <2>2 DEF y
  <2> QED BY <1>1, <1>2, <1>4, <2>3, PushEnded
<1> QED BY <1>7, <1>8, <1>9, <1>10 DEF Answered, Moved

(* Marking what was answered.                                              *)
LEMMA MarkStep ==
  ASSUME IInv, MarkSynced
  PROVE  IInv'
<1>1. /\ UNCHANGED <<queue, answered, read, at, limits, version, handler, batch, stored, overtaken, faults>>
      /\ pc = "loop" /\ pc' = "idle" /\ queue = <<>> /\ last' = [why |-> "done", chunk |-> <<>>]
  BY DEF MarkSynced, server
<1>2. /\ StateType /\ OutboxOK /\ PlayOK /\ ReadOK /\ RecordsOK /\ RecordsInOrder /\ ChunksInOrder
      /\ PromisesOK /\ InHandOK /\ LastOK
  BY DEF IInv
<1>3. /\ outbox' \in Seq(Entries) /\ OutboxOK' /\ OutboxKept
      /\ \A x : x \in ToSet(outbox') <=> x \in ToSet(outbox) /\ x.id \notin Ids(answered)
  BY <1>2, MarkedOutbox
<1>4. VersionsGrow
  BY <1>1, <1>2, VersionsSame
<1>5. Chunks' = Chunks /\ Queued' = Queued /\ InPlay' = InPlay /\ ChunksShrink /\ PlayOK'
  BY <1>1, <1>2, <1>4, QueueSame, PlaySame
<1>6. BatchType' /\ RecordsKept
  BY <1>1, <1>2, BatchSame
<1>7. RecordsOK' /\ RecordsInOrder' /\ ChunksInOrder'
  BY <1>2, <1>3, <1>4, <1>5, <1>6, RecordsStayOK, RecordsStayInOrder, ChunksStayInOrder
<1>8. PromisesOK' /\ acked' \in [Rows -> 0..MaxVersion]
  BY <1>2, PromisesMarked
<1>9. ReadOK'
  <2>1. Queued = {}
    BY <1>1 DEF Queued, Chunks, ToSet
  <2>2. read = { u.id : u \in ToSet(answered) }
    BY <1>1, <1>2, <2>1 DEF ReadOK, InPlay
  <2>3. read = Ids(answered)
    BY <2>2 DEF Ids
  <2>4. SuccessIsComplete'
    BY <1>1, <1>3, <2>3 DEF SuccessIsComplete, Ids
  <2> QED BY <1>1, <1>2, <2>4 DEF ReadOK
<1>10. at = {}
  BY <1>1, <1>2, NobodyWaits
<1>11. InHandOK'
  BY <1>1, <1>10 DEF InHandOK
<1>12. last'.why = "done"
  BY <1>1
<1>13. LastOK'
  BY <1>12 DEF LastOK, TooLargeIsTruthful
<1>14. StateType'
  <2>1. HandlerType' /\ \A g \in Handlers : handler'[g].pc \in {"free", "apply", "answer"}
    BY <1>1, <1>2, HandlersSame
  <2>2. TypeOK'
    BY <1>1, <1>2, <1>3, <1>8, <1>10, <1>12, <2>1 DEF StateType, TypeOK
  <2>3. last' \in [why: {"none", "done", "lost", "tooLarge", "busy", "conflict", "failed"}, chunk: Seq(Units)]
    BY <1>1
  <2> QED BY <1>1, <1>2, <1>6, <2>1, <2>2, <2>3 DEF StateType, Units
<1> QED BY <1>3, <1>5, <1>7, <1>8, <1>9, <1>11, <1>13, <1>14 DEF IInv

(* Losing the request or its answer.                                       *)
LEMMA LoseStep ==
  ASSUME IInv, LoseRequest
  PROVE  IInv'
<1>1. /\ UNCHANGED <<limits, device, acked, handler, batch, stored, overtaken>>
      /\ EndPush("lost", Head(queue)) /\ pc \in {"sent", "wait"} /\ StateType
  BY DEF LoseRequest, server, IInv
<1>2. /\ HandlerType' /\ \A g \in Handlers : handler'[g].pc \in {"free", "apply", "answer"}
  BY <1>1, HandlersSame
<1>3. faults' \in Nat
  BY <1>1 DEF LoseRequest, Fault, StateType
<1>4. Head(queue) \in Seq(Units)
  BY <1>1, HeadOfQueue DEF StateType, TypeOK
<1>5. "lost" \in {"lost", "tooLarge", "busy", "conflict", "failed"} /\ "lost" # "conflict" /\ "lost" # "tooLarge"
  OBVIOUS
<1> QED BY <1>1, <1>2, <1>3, <1>4, <1>5, PushEnded

(* A crash of the server.                                                  *)
LEMMA CrashStep ==
  ASSUME IInv, Crash
  PROVE  IInv'
<1>1. /\ UNCHANGED <<limits, device, batch, stored, overtaken>>
      /\ handler' = [h \in Handlers |-> [pc |-> "free"]] /\ StateType
  BY DEF Crash, IInv
<1>2. /\ HandlerType' /\ \A g \in Handlers : handler'[g].pc \in {"free", "apply", "answer"}
  <2>1. \A g \in Handlers : handler'[g] \in FreeState /\ handler'[g].pc = "free"
    BY <1>1 DEF FreeState
  <2>2. handler' \in [Handlers -> FreeState \cup ApplyState \cup AnswerState]
    <3> DEFINE HS == FreeState \cup ApplyState \cup AnswerState
    <3>1. \A g \in Handlers : handler'[g] \in HS
      BY <2>1
    <3> HIDE DEF HS
    <3>2. handler' \in [Handlers -> HS]
      BY <1>1, <3>1
    <3> QED BY <3>2 DEF HS
  <2>3. HandlerType' = (/\ handler' \in [Handlers -> FreeState \cup ApplyState \cup AnswerState]
                        /\ \A g \in Handlers : handler'[g].pc = "answer" => handler'[g].status = StatusOf(handler'[g].why))
    BY DEF HandlerType, FreeState, ApplyState, AnswerState, StatusOf, getErrorStatus, Whys, RowIds, Versions
  <2> QED BY <2>1, <2>2, <2>3
<1>3. faults' \in Nat
  BY <1>1 DEF Crash, Fault, StateType
<1>4. CASE at # {}
  <2>1. EndPush("lost", Head(queue)) /\ UNCHANGED acked
    BY <1>4 DEF Crash
  <2>2. Head(queue) \in Seq(Units)
    BY <1>1, <1>4, HeadOfQueue DEF StateType, TypeOK
  <2>3. "lost" \in {"lost", "tooLarge", "busy", "conflict", "failed"} /\ "lost" # "conflict" /\ "lost" # "tooLarge"
    OBVIOUS
  <2> QED BY <1>1, <1>2, <1>3, <2>1, <2>2, <2>3, PushEnded
<1>5. CASE at = {}
  <2>1. UNCHANGED push /\ UNCHANGED <<limits, device, batch, stored, overtaken>>
    BY <1>1, <1>5 DEF Crash
  <2>2. UNCHANGED <<version, queue, answered, acked>>
    BY <2>1 DEF push, device
  <2>3. BatchType' /\ RecordsKept /\ CompletedKept /\ StoredKept
    BY <1>1, BatchSame, StoredSame
  <2>4. PromisesOK'
    <3>1. PromisesOK /\ VersionsGrow /\ Queued' = Queued
      BY <1>1, <2>2, VersionsSame, QueueSame DEF IInv
    <3>2. \A u \in ToSet(answered') : u \in Units /\ u \in ToSet(answered)
      BY <1>1, <2>2, InPlayTypes
    <3> QED BY <1>1, <2>2, <2>3, <3>1, <3>2, PromisesStay
  <2>5. stored' \in [Rows -> 0..MaxVersion] /\ overtaken' \subseteq Rows
    BY <1>1 DEF StateType, TypeOK
  <2> QED BY <1>2, <1>3, <1>5, <2>1, <2>3, <2>4, <2>5, ServerStep
<1> QED BY <1>4, <1>5

-----------------------------------------------------------------------------
(* The guard takes a request.                                              *)
LEMMA HandleStep ==
  ASSUME IInv, NEW h \in Handlers, Handle(h)
  PROVE  IInv'
<1>1. /\ UNCHANGED <<limits, outbox, version, queue, answered, read, last, acked, stored, overtaken, faults>>
      /\ pc = "sent" /\ pc' = "wait" /\ at' = {h}
  BY DEF Handle, device
<1>2. /\ StateType /\ OutboxOK /\ PlayOK /\ ReadOK /\ RecordsOK /\ RecordsInOrder /\ ChunksInOrder
      /\ PromisesOK /\ LastOK
  BY DEF IInv
<1>3. /\ HandlerType' /\ \A g \in Handlers : handler'[g].pc \in {"free", "apply", "answer"}
      /\ BatchType' /\ RecordsOK' /\ RecordsInOrder'
      /\ CompletedKept /\ InHand(h)'
  BY Handled
<1>4. /\ VersionsGrow /\ OutboxOK' /\ OutboxKept /\ PlayOK' /\ ChunksShrink /\ ChunksInOrder' /\ Queued' = Queued
  BY <1>1, <1>2, DeviceSame
<1>5. PromisesOK'
  <2>1. StoredKept
    BY <1>1, StoredSame
  <2>2. \A u \in ToSet(answered') : u \in Units /\ u \in ToSet(answered)
    BY <1>1, <1>2, InPlayTypes
  <2> QED BY <1>1, <1>2, <1>3, <1>4, <2>1, <2>2, PromisesStay
<1>6. ReadOK'
  BY <1>1, <1>2, ReadSame
<1>7. InHandOK'
  BY <1>1, <1>3 DEF InHandOK
<1>8. last'.why = "none"
  BY <1>1, <1>2 DEF ReadOK
<1>9. LastOK'
  BY <1>8 DEF LastOK, TooLargeIsTruthful
<1>10. StateType'
  <2>1. TypeOK'
    BY <1>1, <1>2, <1>3 DEF StateType, TypeOK
  <2> QED BY <1>1, <1>2, <1>3, <2>1 DEF StateType
<1> QED BY <1>3, <1>4, <1>5, <1>6, <1>7, <1>9, <1>10 DEF IInv

(* Whoever has the request keeps its promises if nothing happens to it.     *)
LEMMA PromisesSame ==
  ASSUME IInv, UNCHANGED <<device, push>>, StoredKept, CompletedKept
  PROVE  PromisesOK'
<1>1. StateType /\ PromisesOK /\ UNCHANGED <<version, queue, answered, acked>>
  BY DEF IInv, device, push
<1>2. VersionsGrow /\ Queued' = Queued
  BY <1>1, VersionsSame, QueueSame
<1>3. \A u \in ToSet(answered') : u \in Units /\ u \in ToSet(answered)
  BY <1>1, InPlayTypes
<1> QED BY <1>1, <1>2, <1>3, PromisesStay

(* A step of one handler changes nothing another one knows.                *)
LEMMA OthersInHand ==
  ASSUME IInv, UNCHANGED <<limits, push>>, StoredKept, RecordsKept, NEW h \in Handlers,
         \A g \in Handlers : g # h => handler'[g] = handler[g],
         h \in at => InHand(h)'
  PROVE  \A g \in at : InHand(g)'
<1>1. StateType /\ InHandOK /\ queue' = queue /\ at \subseteq Handlers
  BY DEF IInv, push, StateType, TypeOK
<1> SUFFICES ASSUME NEW g \in at, g # h PROVE InHand(g)'
  OBVIOUS
<1> QED BY <1>1, InHandStays DEF InHandOK

(* The rows a handler has left stay typed as it applies them.              *)
LEMMA TailTypes ==
  ASSUME StateType, NEW h \in Handlers, handler[h].pc = "apply", handler[h].left # <<>>,
         handler' = [handler EXCEPT ![h].left = Tail(@)]
  PROVE  HandlerType' /\ \A g \in Handlers : handler'[g].pc \in {"free", "apply", "answer"}
<1> DEFINE x == [handler[h] EXCEPT !.left = Tail(@)]
<1>1. handler[h] \in ApplyState /\ Tail(handler[h].left) \in Seq(Versions)
  BY LeftTypes
<1>2. x \in ApplyState /\ x.pc = "apply"
  BY <1>1 DEF ApplyState
<1>3. handler' = [handler EXCEPT ![h] = x]
  BY DEF StateType, HandlerType
<1> HIDE DEF x
<1> QED BY <1>2, <1>3, HandlerTypes

(* Applying one row.                                                       *)
LEMMA ApplyStep ==
  ASSUME IInv, NEW h \in Handlers, ApplyRow(h)
  PROVE  IInv'
<1>1. /\ StateType /\ UNCHANGED <<limits, device, push, batch, faults>>
      /\ handler[h].pc = "apply" /\ handler[h].left # <<>>
      /\ handler' = [handler EXCEPT ![h].left = Tail(@)]
  BY DEF ApplyRow, ServerFrame, IInv
<1>2. /\ HandlerType' /\ \A g \in Handlers : handler'[g].pc \in {"free", "apply", "answer"}
  BY <1>1, TailTypes
<1>3. BatchType' /\ RecordsKept /\ CompletedKept
  BY <1>1, BatchSame
<1>4. stored' \in [Rows -> 0..MaxVersion] /\ overtaken' \subseteq Rows /\ faults' \in Nat
  BY <1>1, Applied DEF StateType
<1>5. \A g \in Handlers : g # h => handler'[g] = handler[g]
  BY <1>1 DEF StateType, HandlerType
<1>6. CASE LeftBehind(h)
  <2>1. StoredKept
    BY <1>1, <1>6, AppliedUnheard
  <2>2. PromisesOK'
    BY <1>1, <1>3, <2>1, PromisesSame
  <2>3. \A g \in at : InHand(g)'
    BY <1>1, <1>3, <1>5, <1>6, <2>1, OthersInHand DEF LeftBehind
  <2> QED BY <1>1, <1>2, <1>3, <1>4, <2>2, <2>3, ServerStep
<1>7. CASE ~ LeftBehind(h)
  <2>1. PromisesOK' /\ InHand(h)'
    BY <1>7, AppliedHeard
  <2>2. \A g \in at : g = h
    BY <1>1, <1>7, Waiting DEF LeftBehind
  <2>3. \A g \in at : InHand(g)'
    BY <2>1, <2>2
  <2> QED BY <1>1, <1>2, <1>3, <1>4, <2>1, <2>3, ServerStep
<1> QED BY <1>6, <1>7

(* Failing to apply one.                                                   *)
LEMMA FailStep ==
  ASSUME IInv, NEW h \in Handlers, ApplyFails(h)
  PROVE  IInv'
<1>1. /\ StateType /\ UNCHANGED <<limits, device, push, stored, overtaken>>
      /\ batch' = [k \in DOMAIN batch \ {handler[h].key} |-> batch[k]]
      /\ Answer(h, "failed") /\ faults' \in Nat
  BY DEF ApplyFails, ServerFrame, IInv, Fault, StateType
<1>2. "failed" \in Whys
  BY DEF Whys
<1>3. /\ HandlerType' /\ \A g \in Handlers : handler'[g].pc \in {"free", "apply", "answer"}
  BY <1>1, <1>2, AnswerTypes
<1>4. /\ handler'[h].pc = "answer" /\ handler'[h].why = "failed"
      /\ \A g \in Handlers : g # h => handler'[g] = handler[g]
  BY <1>1, AnswerGiven
<1>5. /\ DOMAIN batch' \subseteq DOMAIN batch /\ \A k \in DOMAIN batch' : batch'[k] = batch[k]
  BY <1>1
<1>6. RecordsKept /\ CompletedKept /\ StoredKept
  BY <1>1, <1>5, StoredSame DEF RecordsKept, CompletedKept
<1>7. BatchType'
  BY <1>1, <1>5 DEF StateType, BatchType, Bodies, RowIds, Versions
<1>8. InHand(h)'
  BY <1>4 DEF InHand
<1>9. \A g \in at : InHand(g)'
  BY <1>1, <1>4, <1>6, <1>8, OthersInHand
<1>10. PromisesOK'
  BY <1>1, <1>6, PromisesSame
<1>11. stored' \in [Rows -> 0..MaxVersion] /\ overtaken' \subseteq Rows
  BY <1>1 DEF StateType, TypeOK
<1> QED BY <1>1, <1>3, <1>6, <1>7, <1>9, <1>10, <1>11, ServerStep

(* Completing the record.                                                  *)
LEMMA CompleteStep ==
  ASSUME IInv, NEW h \in Handlers, Complete(h)
  PROVE  IInv'
<1>1. /\ StateType /\ UNCHANGED <<limits, device, push, stored, faults>>
      /\ batch' = [k \in DOMAIN batch |->
                    IF k = handler[h].key THEN [batch[k] EXCEPT !.status = "completed", !.stale = FALSE]
                    ELSE batch[k]]
      /\ overtaken' = IF LeftBehind(h) THEN overtaken \cup Unwritten(handler[h].key) ELSE overtaken
      /\ Answer(h, "applied")
  BY DEF Complete, ServerFrame, IInv
<1>2. "applied" \in Whys
  BY DEF Whys
<1>3. /\ HandlerType' /\ \A g \in Handlers : handler'[g].pc \in {"free", "apply", "answer"}
  BY <1>1, <1>2, AnswerTypes
<1>4. \A g \in Handlers : g # h => handler'[g] = handler[g]
  BY <1>1, AnswerGiven
<1>5. StoredKept /\ RecordsKept /\ PromisesOK' /\ (h \in at => InHand(h)')
  BY Completed
<1>6. \A g \in at : InHand(g)'
  BY <1>1, <1>4, <1>5, OthersInHand
<1>7. BatchType'
  <2>1. /\ DOMAIN batch \subseteq SUBSET RowIds
        /\ \A k \in DOMAIN batch : batch[k] \in [status: {"pending", "completed"}, body: Bodies, stale: BOOLEAN]
    BY <1>1 DEF StateType, BatchType
  <2>2. \A k \in DOMAIN batch : batch'[k] \in [status: {"pending", "completed"}, body: Bodies, stale: BOOLEAN]
    BY <1>1, <2>1
  <2>3. DOMAIN batch' = DOMAIN batch
    BY <1>1
  <2> QED BY <2>1, <2>2, <2>3 DEF BatchType, Bodies, RowIds, Versions
<1>8. stored' \in [Rows -> 0..MaxVersion] /\ overtaken' \subseteq Rows /\ faults' \in Nat
  BY <1>1 DEF StateType, TypeOK, Unwritten
<1> QED BY <1>1, <1>3, <1>5, <1>6, <1>7, <1>8, ServerStep

(* The answer of a handler nobody waits for is dropped.                    *)
LEMMA UnheardStep ==
  ASSUME IInv, NEW h \in Handlers, Unheard(h)
  PROVE  IInv'
<1>1. /\ StateType /\ UNCHANGED <<limits, device, push, batch, stored, overtaken, faults>>
      /\ h \notin at /\ handler' = [handler EXCEPT ![h] = [pc |-> "free"]]
  BY DEF Unheard, ServerFrame, IInv, LeftBehind
<1>2. /\ HandlerType' /\ \A g \in Handlers : handler'[g].pc \in {"free", "apply", "answer"}
  <2> DEFINE x == [pc |-> "free"]
  <2>1. x \in FreeState /\ x.pc # "answer" /\ handler' = [handler EXCEPT ![h] = x]
    BY <1>1 DEF FreeState
  <2> HIDE DEF x
  <2> QED BY <1>1, <2>1, HandlerTypes
<1>3. \A g \in Handlers : g # h => handler'[g] = handler[g]
  BY <1>1 DEF StateType, HandlerType
<1>4. BatchType' /\ RecordsKept /\ CompletedKept /\ StoredKept
  BY <1>1, BatchSame, StoredSame
<1>5. PromisesOK' /\ \A g \in at : InHand(g)'
  BY <1>1, <1>3, <1>4, PromisesSame, OthersInHand
<1>6. stored' \in [Rows -> 0..MaxVersion] /\ overtaken' \subseteq Rows /\ faults' \in Nat
  BY <1>1 DEF StateType, TypeOK
<1> QED BY <1>1, <1>2, <1>4, <1>5, <1>6, ServerStep

(* The time a pending record may take passes.                              *)
LEMMA ExpireStep ==
  ASSUME IInv, NEW key \in DOMAIN batch, Expire(key)
  PROVE  IInv'
<1>1. /\ StateType /\ UNCHANGED <<limits, device, push, handler, stored, overtaken, faults>>
      /\ batch' = [batch EXCEPT ![key].stale = TRUE]
  BY DEF Expire, ServerFrame, IInv
<1>2. /\ HandlerType' /\ \A g \in Handlers : handler'[g].pc \in {"free", "apply", "answer"}
  BY <1>1, HandlersSame
<1>3. /\ DOMAIN batch \subseteq SUBSET RowIds
      /\ \A k \in DOMAIN batch : batch[k] \in [status: {"pending", "completed"}, body: Bodies, stale: BOOLEAN]
  BY <1>1 DEF StateType, BatchType
<1>4. /\ DOMAIN batch' = DOMAIN batch
      /\ \A k \in DOMAIN batch : /\ batch'[k] \in [status: {"pending", "completed"}, body: Bodies, stale: BOOLEAN]
                                 /\ batch'[k].body = batch[k].body /\ batch'[k].status = batch[k].status
  BY <1>1, <1>3
<1>5. BatchType' /\ RecordsKept /\ CompletedKept /\ StoredKept
  BY <1>1, <1>3, <1>4, StoredSame DEF BatchType, Bodies, RowIds, Versions, RecordsKept, CompletedKept
<1>6. \A g \in at : InHand(g)'
  <2>1. at \subseteq Handlers /\ InHandOK /\ queue' = queue
    BY <1>1 DEF IInv, StateType, TypeOK, push
  <2> QED BY <1>1, <1>5, <2>1, InHandStays DEF InHandOK
<1>7. PromisesOK'
  BY <1>1, <1>5, PromisesSame
<1>8. stored' \in [Rows -> 0..MaxVersion] /\ overtaken' \subseteq Rows /\ faults' \in Nat
  BY <1>1 DEF StateType, TypeOK
<1> QED BY <1>1, <1>2, <1>5, <1>6, <1>7, <1>8, ServerStep

(* Nothing happens.                                                        *)
LEMMA StutterStep ==
  ASSUME IInv, UNCHANGED vars
  PROVE  IInv'
<1>1. StateType /\ UNCHANGED <<limits, device, push, handler, batch, stored, overtaken, faults>>
  BY DEF vars, server, IInv
<1>2. /\ HandlerType' /\ \A g \in Handlers : handler'[g].pc \in {"free", "apply", "answer"}
  BY <1>1, HandlersSame
<1>3. BatchType' /\ RecordsKept /\ CompletedKept /\ StoredKept
  BY <1>1, BatchSame, StoredSame
<1>4. \A g \in at : InHand(g)'
  <2>1. InHandOK /\ queue' = queue
    BY <1>1 DEF IInv, push
  <2> QED BY <1>1, <1>3, <2>1, InHandStays DEF InHandOK
<1>5. PromisesOK'
  BY <1>1, <1>3, PromisesSame
<1>6. stored' \in [Rows -> 0..MaxVersion] /\ overtaken' \subseteq Rows /\ faults' \in Nat
  BY <1>1 DEF StateType, TypeOK
<1> QED BY <1>1, <1>2, <1>3, <1>4, <1>5, <1>6, ServerStep

(* Every step of the specification keeps the invariant.                    *)
LEMMA NextKeepsIInv ==
  ASSUME IInv, [Next]_vars
  PROVE  IInv'
<1>1. CASE \E r \in Rows : Edit(r) \/ Pull(r)
  BY <1>1, EditStep, PullStep
<1>2. CASE Engine
  BY <1>2, StartStep, NextChunkStep, MarkStep, AnsweredStep DEF Engine
<1>3. CASE LoseRequest \/ Crash
  BY <1>3, LoseStep, CrashStep
<1>4. CASE \E h \in Handlers : Work(h) \/ ApplyFails(h)
  BY <1>4, HandleStep, ApplyStep, CompleteStep, UnheardStep, FailStep DEF Work
<1>5. CASE \E key \in DOMAIN batch : Expire(key)
  BY <1>5, ExpireStep
<1>6. CASE UNCHANGED vars
  BY <1>6, StutterStep
<1> QED BY <1>1, <1>2, <1>3, <1>4, <1>5, <1>6 DEF Next

(***************************************************************************)
(* The first state.  A list as long as the set of its elements is finite   *)
(* repeats none of them.                                                   *)
(***************************************************************************)
LEMMA NoRepetition ==
  ASSUME NEW S, NEW s \in Seq(S), Len(s) = Cardinality(ToSet(s)),
         NEW i \in DOMAIN s, NEW j \in DOMAIN s, s[i] = s[j]
  PROVE  i = j
<1>1. DOMAIN s = 1..Len(s) /\ Len(s) \in Nat
  OBVIOUS
<1>2. SUFFICES ASSUME i # j PROVE FALSE
  OBVIOUS
<1> DEFINE I == (1..Len(s)) \ {j}
           f == [n \in I |-> s[n]]
<1>3. IsFiniteSet(1..Len(s)) /\ Cardinality(1..Len(s)) = Len(s)
  BY <1>1, FS_Interval
<1>4. IsFiniteSet(I) /\ Cardinality(I) = Len(s) - 1
  <2>1. j \in 1..Len(s)
    BY <1>1
  <2> DEFINE D == 1..Len(s)
  <2>2. IsFiniteSet(D) /\ Cardinality(D) = Len(s) /\ j \in D
    BY <1>3, <2>1
  <2> HIDE DEF D
  <2>3. IsFiniteSet(D \ {j}) /\ Cardinality(D \ {j}) = Cardinality(D) - 1
    BY <2>2, FS_RemoveElement
  <2> QED BY <2>2, <2>3 DEF D
<1>5. f \in Surjection(I, ToSet(s))
  <2>1. \A n \in I : f[n] \in ToSet(s)
    BY <1>1 DEF ToSet
  <2>2. ASSUME NEW x \in ToSet(s) PROVE \E n \in I : f[n] = x
    <3>1. PICK n \in 1..Len(s) : s[n] = x
      BY <1>1 DEF ToSet
    <3>2. CASE n = j
      <4>1. i \in I /\ f[i] = x
        BY <3>1, <3>2, <1>1, <1>2
      <4> QED BY <4>1
    <3>3. CASE n # j
      <4>1. n \in I /\ f[n] = x
        BY <3>1, <3>3
      <4> QED BY <4>1
    <3> QED BY <3>2, <3>3
  <2>3. f \in [I -> ToSet(s)]
    BY <2>1
  <2> HIDE DEF f, I
  <2> QED BY <2>2, <2>3 DEF Surjection
<1>6. IsFiniteSet(ToSet(s)) /\ Cardinality(ToSet(s)) <= Cardinality(I)
  <2> HIDE DEF f, I
  <2> QED BY <1>4, <1>5, FS_Surjection
<1> QED BY <1>1, <1>4, <1>6

(* The first state satisfies the invariant.                                *)
LEMMA InitIInv ==
  ASSUME Init
  PROVE  IInv
<1>1. /\ pc = "idle" /\ queue = <<>> /\ answered = <<>> /\ read = {} /\ at = {} /\ batch = <<>>
      /\ last = [why |-> "none", chunk |-> <<>>] /\ overtaken = {} /\ faults = 0
      /\ limits \in LimitChoices
      /\ version = [r \in Rows |-> 1] /\ acked = [r \in Rows |-> 0] /\ stored = [r \in Rows |-> 0]
      /\ handler = [h \in Handlers |-> [pc |-> "free"]]
      /\ outbox = [i \in DOMAIN FirstEdits |-> Entry(FirstEdits[i], 1, 1)]
  BY DEF Init
<1>2. FirstEdits \in Seq(Rows) /\ ToSet(FirstEdits) = Rows /\ Len(FirstEdits) = Cardinality(Rows)
  BY PushAssumption
<1>3. MaxVersion \in Nat \ {0} /\ 1 \in 1..MaxVersion /\ 0 \in 0..MaxVersion
  BY Constants
<1>4. \A i, j \in DOMAIN FirstEdits : FirstEdits[i] = FirstEdits[j] => i = j
  BY <1>2, NoRepetition
<1>5. DOMAIN FirstEdits = 1..Len(FirstEdits) /\ Len(FirstEdits) \in Nat
      /\ \A i \in DOMAIN FirstEdits : FirstEdits[i] \in Rows
  BY <1>2
<1>6. \A r \in Rows : /\ Entry(r, 1, 1) \in Entries /\ Entry(r, 1, 1).row = r /\ Entry(r, 1, 1).ver = 1
                      /\ Entry(r, 1, 1).id[1] = r /\ Entry(r, 1, 1).id[2] = 1
  BY <1>3 DEF Entry, Entries
<1>7. \A i \in DOMAIN FirstEdits :
         /\ outbox[i] \in Entries /\ outbox[i].row = FirstEdits[i] /\ outbox[i].ver = 1
         /\ outbox[i].id[1] = FirstEdits[i] /\ outbox[i].id[2] = 1
  BY <1>1, <1>5, <1>6
<1>8. outbox \in Seq(Entries) /\ DOMAIN outbox = DOMAIN FirstEdits
  BY <1>1, <1>5, <1>7
<1>9. \A e \in ToSet(outbox) : \E i \in DOMAIN FirstEdits : outbox[i] = e
  BY <1>8 DEF ToSet
<1>10. \A e, f \in ToSet(outbox) : e.row = f.row => e = f
  BY <1>4, <1>7, <1>9
<1>11. OutboxOK
  <2> SUFFICES ASSUME NEW e \in ToSet(outbox)
               PROVE  /\ e.id[1] = e.row /\ e.ver = version[e.row] /\ e.id[2] <= version[e.row]
                      /\ ~ Before(outbox, e, e)
    BY DEF OutboxOK
  <2>1. PICK i \in DOMAIN FirstEdits : outbox[i] = e
    BY <1>9
  <2>2. e.row \in Rows /\ version[e.row] = 1
    BY <2>1, <1>1, <1>5, <1>7
  <2>3. ASSUME Before(outbox, e, e) PROVE FALSE
    <3>1. PICK m \in DOMAIN outbox, n \in DOMAIN outbox : m < n /\ outbox[m] = e /\ outbox[n] = e
      BY <2>3 DEF Before
    <3>2. FirstEdits[m] = FirstEdits[n] /\ m \in DOMAIN FirstEdits /\ n \in DOMAIN FirstEdits
      BY <3>1, <1>7, <1>8
    <3>3. m = n
      BY <3>2, <1>4
    <3> QED BY <3>1, <3>2, <3>3, <1>5
  <2> QED BY <2>1, <2>2, <2>3, <1>7
<1>12. Chunks = {} /\ Queued = {} /\ ToSet(answered) = {} /\ InPlay = {}
       /\ \A x, y : ~ Before(answered, x, y)
  BY <1>1 DEF Chunks, Queued, InPlay, ToSet, Before
<1>13. DOMAIN batch = {}
  BY <1>1
<1>14. PlayOK
  BY <1>12 DEF PlayOK, ListOK
<1>15. last.why = "none"
  BY <1>1
<1>16. ReadOK
  BY <1>1, <1>15 DEF ReadOK, SuccessIsComplete
<1>17. RecordsOK /\ RecordsInOrder
  BY <1>13 DEF RecordsOK, RecordsInOrder
<1>18. ChunksInOrder
  BY <1>12 DEF ChunksInOrder
<1>19. PromisesOK
  <2>1. \A r \in Rows : acked[r] = 0 /\ stored[r] = 0 /\ version[r] = 1
    BY <1>1
  <2>2. AcknowledgedIsStored /\ \A r \in Rows : acked[r] <= version[r]
    BY <2>1 DEF AcknowledgedIsStored
  <2> QED BY <2>2, <1>12, <1>13 DEF PromisesOK
<1>20. InHandOK
  BY <1>1 DEF InHandOK
<1>21. LastOK
  BY <1>15 DEF LastOK, TooLargeIsTruthful
<1>22. HandlerType /\ \A h \in Handlers : handler[h].pc \in {"free", "apply", "answer"}
  <2>1. \A h \in Handlers : handler[h] \in FreeState /\ handler[h].pc = "free"
    BY <1>1 DEF FreeState
  <2> DEFINE HS == FreeState \cup ApplyState \cup AnswerState
  <2>2. \A g \in Handlers : handler[g] \in HS
    BY <2>1
  <2> HIDE DEF HS
  <2>3. handler \in [Handlers -> HS]
    BY <1>1, <2>2
  <2> QED BY <2>1, <2>3 DEF HS, HandlerType
<1>23. BatchType
  BY <1>13 DEF BatchType
<1>24. TypeOK
  <2>1. queue \in Seq(Seq(Units) \ {<<>>}) /\ answered \in Seq(Units)
    BY <1>1
  <2>2. version \in [Rows -> 1..MaxVersion] /\ acked \in [Rows -> 0..MaxVersion] /\ stored \in [Rows -> 0..MaxVersion]
    BY <1>1, <1>3
  <2> QED BY <1>1, <1>8, <1>10, <1>15, <1>22, <2>1, <2>2 DEF TypeOK
<1>25. StateType
  <2>1. last \in [why: {"none", "done", "lost", "tooLarge", "busy", "conflict", "failed"}, chunk: Seq(Units)]
    BY <1>1
  <2> QED BY <1>1, <1>22, <1>23, <1>24, <2>1 DEF StateType
<1> QED BY <1>11, <1>14, <1>16, <1>17, <1>18, <1>19, <1>20, <1>21, <1>25 DEF IInv

(* The invariant holds in every reachable state.                           *)
LEMMA IInvAlways == Spec => []IInv
<1>1. Init => IInv
  BY InitIInv
<1>2. IInv /\ [Next]_vars => IInv'
  BY NextKeepsIInv
<1> QED BY <1>1, <1>2, PTL DEF Spec

(* The invariant implies the properties the run checks.                    *)
LEMMA IInvImplies ==
  ASSUME IInv
  PROVE  /\ TypeOK /\ SuccessIsComplete /\ AcknowledgedIsStored /\ OnlyHalvesOvertake
         /\ TooLargeIsTruthful /\ ConflictOnlyAfterChange
<1>1. TypeOK /\ SuccessIsComplete /\ AcknowledgedIsStored /\ TooLargeIsTruthful /\ PlayOK /\ StateType /\ LastOK
  BY DEF IInv, StateType, ReadOK, PromisesOK, LastOK
<1>2. OnlyHalvesOvertake
  <2> SUFFICES ASSUME NEW i \in DOMAIN answered, NEW j \in DOMAIN answered,
                      i < j, answered[j].at < answered[i].at
               PROVE  answered[i].of = answered[j].of
    BY DEF OnlyHalvesOvertake
  <2> DEFINE u == answered[i]
             w == answered[j]
  <2>1. u \in ToSet(answered) /\ w \in ToSet(answered) /\ Before(answered, u, w)
    BY DEF ToSet, Before
  <2> HIDE DEF u, w
  <2>2. u \in Units /\ w \in Units /\ u \in InPlay /\ w \in InPlay
    BY <1>1, <2>1, InPlayTypes DEF InPlay
  <2>3. u.of <= w.of
    BY <1>1, <2>1 DEF PlayOK
  <2>4. w.at < u.at => w.of <= u.of
    BY <1>1, <2>2 DEF PlayOK
  <2>5. u.of \in Nat /\ w.of \in Nat
    BY <2>2, UnitFields
  <2> QED BY <2>3, <2>4, <2>5 DEF u, w
<1>3. ConflictOnlyAfterChange
  BY <1>1 DEF LastOK, Changed, ConflictOnlyAfterChange, Pair
<1> QED BY <1>1, <1>2, <1>3

(* Every state of a push is one of the kinds it is meant to have, and the   *)
(* outbox has one entry for each row.                                       *)
THEOREM TypesOK == Spec => []TypeOK
BY IInvAlways, IInvImplies, PTL

(* A push that ends well leaves nothing pending of what it has read.        *)
THEOREM PushesAreComplete == Spec => []SuccessIsComplete
BY IInvAlways, IInvImplies, PTL

(* What the device was told is on the server is there, or is lost to a      *)
(* handler that its client had left behind.                                 *)
THEOREM AcknowledgementsHold == Spec => []AcknowledgedIsStored
BY IInvAlways, IInvImplies, PTL

(* Rows arrive in the order of the push, but for the halves of a chunk.     *)
THEOREM RowsArriveInOrder == Spec => []OnlyHalvesOvertake
BY IInvAlways, IInvImplies, PTL

(* A push is given up as too large only for a row that is too large alone.  *)
THEOREM TooLargeIsTrue == Spec => []TooLargeIsTruthful
BY IInvAlways, IInvImplies, PTL

(* A key is refused as used for another body only after a row has changed,  *)
(* by an edit or by a pull.                                                 *)
THEOREM RetriesAreAnswered == Spec => []ConflictOnlyAfterChange
BY IInvAlways, IInvImplies, PTL
=============================================================================
