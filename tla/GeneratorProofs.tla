---------------------------- MODULE GeneratorProofs ----------------------------
(* The pure part of the generator, for any schemas: the order of the        *)
(* tables that fk-order.ts computes, and what diagnostics.ts lets through.  *)
EXTENDS Generator, ListLemmas, FiniteSetTheorems, TLAPS

-----------------------------------------------------------------------------
(* topologicalSort: the depth-first search ends within the turns it is      *)
(* given, and what it returns without a cycle is every table once, each     *)
(* behind the tables it refers to. The measure of a sort in progress is     *)
(* what it has left to do.                                                  *)

(* A call on the stack: its table, and the dependencies it still has to     *)
(* visit. A sort in progress, and its beginning.                            *)
Frames(N) == [table : N, left : Seq(N)]
Sorting(N) == [ordered : Seq(N), stack : Seq(Frames(N)), roots : Seq(N), cycle : BOOLEAN]
Begin(roots) == [ordered |-> <<>>, stack |-> <<>>, roots |-> roots, cycle |-> FALSE]

(* A graph of finitely many tables. The tables on the stack.                *)
Graph(nodes) == IsFiniteSet(DOMAIN nodes) /\ \A t \in DOMAIN nodes : nodes[t] \in Seq(DOMAIN nodes)
Stacked(s) == { s.stack[i].table : i \in DOMAIN s.stack }

(* Last and Front of a list.                                                *)
LEMMA LastFront ==
  ASSUME NEW S, NEW s \in Seq(S), s # <<>>
  PROVE  /\ Len(s) \in Nat \ {0} /\ Last(s) = s[Len(s)] /\ Last(s) \in S
         /\ Front(s) \in Seq(S) /\ Len(Front(s)) = Len(s) - 1
         /\ DOMAIN s = 1..Len(s) /\ DOMAIN Front(s) = 1..(Len(s) - 1)
         /\ \A i \in 1..(Len(s) - 1) : Front(s)[i] = s[i]
<1>1. Len(s) \in Nat \ {0} /\ s[Len(s)] \in S /\ DOMAIN s = 1..Len(s)
  OBVIOUS
<1>2. /\ SubSeq(s, 1, Len(s) - 1) \in Seq(S) /\ Len(SubSeq(s, 1, Len(s) - 1)) = Len(s) - 1
      /\ \A i \in 1..(Len(s) - 1) : SubSeq(s, 1, Len(s) - 1)[i] = s[i]
  BY <1>1
<1>3. DOMAIN SubSeq(s, 1, Len(s) - 1) = 1..(Len(s) - 1)
  BY <1>2
<1> QED BY <1>1, <1>2, <1>3 DEF Last, Front

(* What a turn does before it calls.                                        *)
RootTaken(s) == [s EXCEPT !.roots = Tail(@)]
VisitTaken(s) == [s EXCEPT !.stack[Len(s.stack)].left = Tail(@)]
FrameLeft(s) == [s EXCEPT !.stack = Front(@), !.ordered = Append(@, Last(s.stack).table)]
Over(s) == s.cycle \/ (s.stack = <<>> /\ s.roots = <<>>)

(* What a call comes to: the table is in the order already, or a cycle is   *)
(* found, or the table is put on the stack with all its dependencies to     *)
(* visit.                                                                   *)
LEMMA CallCases ==
  ASSUME NEW nodes, Graph(nodes), NEW s \in Sorting(DOMAIN nodes), ~ s.cycle, NEW t \in DOMAIN nodes
  PROVE  LET r == Call(nodes, s, t)
         IN  /\ r \in Sorting(DOMAIN nodes)
             /\ \/ r = s /\ t \in ToSet(s.ordered)
                \/ r.cycle
                \/ /\ t \notin ToSet(s.ordered) /\ t \notin Stacked(s)
                   /\ r.ordered = s.ordered /\ r.roots = s.roots /\ r.cycle = FALSE
                   /\ r.stack = Append(s.stack, [table |-> t, left |-> nodes[t]])
<1> DEFINE N == DOMAIN nodes
           f == [table |-> t, left |-> nodes[t]]
           r == Call(nodes, s, t)
           r1 == [s EXCEPT !.cycle = TRUE]
           r2 == [s EXCEPT !.stack = Append(@, f)]
<1>1. f \in Frames(N)
  BY DEF Graph, Frames
<1>2. /\ s.ordered \in Seq(N) /\ s.stack \in Seq(Frames(N)) /\ s.roots \in Seq(N)
  BY DEF Sorting
<1>3. Append(s.stack, f) \in Seq(Frames(N))
  <2> HIDE DEF f
  <2> QED BY <1>1, <1>2
<1>4. r1 \in Sorting(N) /\ r1.cycle
  BY DEF Sorting
<1>5. /\ r2 \in Sorting(N) /\ r2.ordered = s.ordered /\ r2.roots = s.roots /\ r2.cycle = s.cycle
      /\ r2.stack = Append(s.stack, f)
  <2> HIDE DEF f
  <2> QED BY <1>3 DEF Sorting
<1>6. CASE t \in ToSet(s.ordered)
  <2>1. r = s
    BY <1>6 DEF Call
  <2> QED BY <2>1, <1>6
<1>7. CASE t \notin ToSet(s.ordered) /\ t \in Stacked(s)
  <2>1. r = r1
    BY <1>7 DEF Call, Stacked
  <2> HIDE DEF r1, r
  <2> QED BY <2>1, <1>4 DEF r
<1>8. CASE t \notin ToSet(s.ordered) /\ t \notin Stacked(s)
  <2>1. r = r2
    BY <1>8 DEF Call, Stacked
  <2> HIDE DEF r2, r
  <2>2. s.cycle = FALSE
    BY DEF Sorting
  <2> QED BY <2>1, <2>2, <1>5, <1>8 DEF r
<1> QED BY <1>6, <1>7, <1>8

(* A call leaves a sort in progress.                                        *)
LEMMA CallType ==
  ASSUME NEW nodes, Graph(nodes), NEW s \in Sorting(DOMAIN nodes), ~ s.cycle, NEW t \in DOMAIN nodes
  PROVE  Call(nodes, s, t) \in Sorting(DOMAIN nodes)
BY CallCases

(* The outer loop takes its next name.                                      *)
LEMMA RootTakenIs ==
  ASSUME NEW N, NEW s \in Sorting(N), s.roots # <<>>
  PROVE  LET r == RootTaken(s)
         IN  /\ r \in Sorting(N) /\ r.ordered = s.ordered /\ r.stack = s.stack
             /\ r.roots = Tail(s.roots) /\ r.cycle = s.cycle
<1>1. Tail(s.roots) \in Seq(N)
  BY DEF Sorting
<1> QED BY <1>1 DEF RootTaken, Sorting

(* The visit on top of the stack takes its next dependency.                 *)
LEMMA VisitTakenIs ==
  ASSUME NEW N, NEW s \in Sorting(N), s.stack # <<>>, Last(s.stack).left # <<>>
  PROVE  LET r == VisitTaken(s)
             n == Len(s.stack)
         IN  /\ r \in Sorting(N) /\ r.ordered = s.ordered /\ r.roots = s.roots /\ r.cycle = s.cycle
             /\ n \in Nat \ {0} /\ DOMAIN s.stack = 1..n /\ DOMAIN r.stack = 1..n /\ Len(r.stack) = n
             /\ \A i \in 1..(n - 1) : r.stack[i] = s.stack[i]
             /\ r.stack[n].table = s.stack[n].table /\ r.stack[n].left = Tail(s.stack[n].left)
             /\ Last(s.stack) = s.stack[n]
<1> DEFINE n == Len(s.stack)
           f == s.stack[n]
           g == [f EXCEPT !.left = Tail(@)]
           st == [s.stack EXCEPT ![n] = g]
           r == [s EXCEPT !.stack = st]
<1>1. /\ n \in Nat \ {0} /\ s.stack \in Seq(Frames(N)) /\ DOMAIN s.stack = 1..n /\ f \in Frames(N)
      /\ Last(s.stack) = f
  BY DEF Sorting, Last
<1>2. Tail(f.left) \in Seq(N) /\ f.table \in N
  BY <1>1 DEF Frames
<1>3. g \in Frames(N) /\ g.table = f.table /\ g.left = Tail(f.left)
  BY <1>1, <1>2 DEF Frames
<1>4. /\ st \in Seq(Frames(N)) /\ DOMAIN st = 1..n /\ Len(st) = n /\ st[n] = g
      /\ \A i \in 1..(n - 1) : st[i] = s.stack[i]
  <2> HIDE DEF g, n, f
  <2> QED BY <1>1, <1>3
<1>5. r \in Sorting(N) /\ r.ordered = s.ordered /\ r.roots = s.roots /\ r.cycle = s.cycle /\ r.stack = st
  <2> HIDE DEF st
  <2> QED BY <1>4 DEF Sorting
<1>6. VisitTaken(s) = r
  BY <1>1 DEF VisitTaken
<1> HIDE DEF r, st, g
<1> QED BY <1>1, <1>3, <1>4, <1>5, <1>6

(* A visit returns, and its table goes to the end of the order.             *)
LEMMA FrameLeftIs ==
  ASSUME NEW N, NEW s \in Sorting(N), s.stack # <<>>
  PROVE  LET r == FrameLeft(s)
         IN  /\ r \in Sorting(N) /\ r.ordered = Append(s.ordered, Last(s.stack).table) /\ r.stack = Front(s.stack)
             /\ r.roots = s.roots /\ r.cycle = s.cycle /\ Last(s.stack).table \in N
<1>1. s.stack \in Seq(Frames(N)) /\ s.ordered \in Seq(N)
  BY DEF Sorting
<1>2. Front(s.stack) \in Seq(Frames(N)) /\ Last(s.stack) \in Frames(N)
  BY <1>1, LastFront
<1>3. Append(s.ordered, Last(s.stack).table) \in Seq(N) /\ Last(s.stack).table \in N
  BY <1>1, <1>2 DEF Frames
<1> QED BY <1>2, <1>3 DEF FrameLeft, Sorting

(* A turn by what it does.                                                  *)
LEMMA TurnCases ==
  ASSUME NEW nodes, Graph(nodes), NEW s \in Sorting(DOMAIN nodes)
  PROVE  LET r == Turn(nodes, s)
             calls == s.stack # <<>> /\ Last(s.stack).left # <<>>
         IN  \/ Over(s) /\ r = s
             \/ ~ Over(s) /\ s.stack = <<>> /\ s.roots # <<>> /\ r = Call(nodes, RootTaken(s), Head(s.roots))
             \/ ~ Over(s) /\ s.stack # <<>> /\ Last(s.stack).left = <<>> /\ r = FrameLeft(s)
             \/ /\ ~ Over(s) /\ s.stack # <<>> /\ Last(s.stack).left # <<>>
                /\ r = Call(nodes, VisitTaken(s), Head(Last(s.stack).left))
<1>1. s.cycle \in BOOLEAN
  BY DEF Sorting
<1> DEFINE ca == Call(nodes, RootTaken(s), Head(s.roots))
           cb == Call(nodes, VisitTaken(s), Head(Last(s.stack).left))
           empty == s.stack = <<>>
           done == s.roots = <<>>
           cyc == s.cycle
           over == cyc \/ (empty /\ done)
           fl == FrameLeft(s)
           nil == Last(s.stack).left = <<>>
<1>2. Turn(nodes, s) = CASE over -> s
                         [] ~ cyc /\ empty /\ ~ done -> ca
                         [] OTHER -> IF nil THEN fl ELSE cb
  BY DEF Turn, RootTaken, VisitTaken, FrameLeft
<1>3. over \/ (~ over /\ empty /\ ~ done) \/ (~ over /\ ~ empty)
  OBVIOUS
<1>4. over = Over(s)
  BY DEF Over
<1>5. CASE over
  <2>1. Turn(nodes, s) = s
    <3> HIDE DEF ca, cb, fl, nil, empty, done, cyc
    <3> QED BY <1>2, <1>5
  <2> QED BY <2>1, <1>4, <1>5
<1>6. CASE ~ over /\ empty /\ ~ done
  <2>1. Turn(nodes, s) = ca
    <3> HIDE DEF ca, cb, fl, nil, empty, done, cyc
    <3> QED BY <1>2, <1>6
  <2> QED BY <2>1, <1>4, <1>6
<1>7. CASE ~ over /\ ~ empty
  <2>1. Turn(nodes, s) = IF nil THEN fl ELSE cb
    <3> HIDE DEF ca, cb, fl, nil, empty, done, cyc
    <3> QED BY <1>2, <1>7
  <2> HIDE DEF ca, cb, fl
  <2>2. CASE nil
    BY <2>1, <2>2, <1>4, <1>7 DEF fl
  <2>3. CASE ~ nil
    BY <2>1, <2>3, <1>4, <1>7 DEF cb
  <2> QED BY <2>2, <2>3
<1> QED BY <1>3, <1>5, <1>6, <1>7

(* Where a sort stands: call is what has been taken and is called next.     *)
NotTwice(s) ==
    /\ \A x : ~ Before(s.ordered, x, x)
    /\ \A i, j \in DOMAIN s.stack : s.stack[i].table = s.stack[j].table => i = j
    /\ Stacked(s) \cap ToSet(s.ordered) = {}
DependenciesBefore(nodes, s) ==
    \A t \in ToSet(s.ordered) : \A u \in ToSet(nodes[t]) : Before(s.ordered, u, t)
DependenciesToCome(nodes, s, call) ==
    \A i \in DOMAIN s.stack : \A u \in ToSet(nodes[s.stack[i].table]) :
        \/ u \in ToSet(s.stack[i].left) \cup ToSet(s.ordered)
        \/ i = Len(s.stack) /\ u \in call
        \/ i < Len(s.stack) /\ u = s.stack[i + 1].table
LeftOver(nodes, s) == \A i \in DOMAIN s.stack : Len(s.stack[i].left) <= Len(nodes[s.stack[i].table])
Reached(all, s, call) == all \subseteq ToSet(s.ordered) \cup Stacked(s) \cup ToSet(s.roots) \cup call
SortInv(nodes, all, s, call) ==
    /\ NotTwice(s) /\ DependenciesBefore(nodes, s) /\ DependenciesToCome(nodes, s, call)
    /\ LeftOver(nodes, s) /\ Reached(all, s, call)

(* A call that finds no cycle has nothing taken any more.                   *)
LEMMA CallKeeps ==
  ASSUME NEW nodes, Graph(nodes), NEW all, NEW s \in Sorting(DOMAIN nodes), ~ s.cycle, NEW t \in DOMAIN nodes,
         SortInv(nodes, all, s, {t}), ~ Call(nodes, s, t).cycle
  PROVE  SortInv(nodes, all, Call(nodes, s, t), {})
<1> DEFINE N == DOMAIN nodes
           f == [table |-> t, left |-> nodes[t]]
<1>1. PICK r : r = Call(nodes, s, t)
  OBVIOUS
<1>2. /\ r \in Sorting(DOMAIN nodes)
      /\ \/ r = s /\ t \in ToSet(s.ordered)
         \/ r.cycle
         \/ /\ t \notin ToSet(s.ordered) /\ t \notin Stacked(s)
            /\ r.ordered = s.ordered /\ r.roots = s.roots /\ r.cycle = FALSE
            /\ r.stack = Append(s.stack, f)
  <2> DEFINE c == Call(nodes, s, t)
  <2>1. /\ c \in Sorting(DOMAIN nodes)
        /\ \/ c = s /\ t \in ToSet(s.ordered)
           \/ c.cycle
           \/ /\ t \notin ToSet(s.ordered) /\ t \notin Stacked(s)
              /\ c.ordered = s.ordered /\ c.roots = s.roots /\ c.cycle = FALSE
              /\ c.stack = Append(s.stack, f)
    BY CallCases
  <2> HIDE DEF f
  <2> QED BY <2>1, <1>1
<1> SUFFICES SortInv(nodes, all, r, {})
  BY <1>1
<1>3. CASE r = s /\ t \in ToSet(s.ordered)
  BY <1>3 DEF SortInv, DependenciesToCome, Reached
<1>4. CASE /\ t \notin ToSet(s.ordered) /\ t \notin Stacked(s)
           /\ r.ordered = s.ordered /\ r.roots = s.roots
           /\ r.stack = Append(s.stack, f)
  <2>1. s.stack \in Seq(Frames(N)) /\ Len(s.stack) \in Nat
    BY DEF Sorting
  <2> DEFINE n == Len(s.stack)
  <2>2. /\ DOMAIN s.stack = 1..n /\ DOMAIN r.stack = 1..(n + 1) /\ Len(r.stack) = n + 1
        /\ r.stack[n + 1] = f /\ \A i \in 1..n : r.stack[i] = s.stack[i]
    <3> HIDE DEF f
    <3> QED BY <2>1, <1>4
  <2>3. r.stack[n + 1].table = t /\ r.stack[n + 1].left = nodes[t]
    BY <2>2
  <2> HIDE DEF f
  <2>4. Stacked(r) = Stacked(s) \cup {t}
    <3>1. 1..(n + 1) = 1..n \cup {n + 1}
      BY <2>1
    <3>2. \A i \in 1..n : i \in DOMAIN r.stack /\ r.stack[i] = s.stack[i]
      BY <3>1, <2>2
    <3>3. n + 1 \in DOMAIN r.stack
      BY <2>1, <2>2
    <3> HIDE DEF n
    <3>4. \A i \in DOMAIN r.stack : r.stack[i].table \in Stacked(s) \cup {t}
      BY <3>1, <3>2, <2>2, <2>3 DEF Stacked
    <3>5. Stacked(s) \subseteq Stacked(r)
      BY <3>2, <2>2 DEF Stacked
    <3>6. t \in Stacked(r)
      BY <3>3, <2>3 DEF Stacked
    <3> QED BY <3>4, <3>5, <3>6 DEF Stacked
  <2>5. NotTwice(r)
    <3>1. NotTwice(s)
      BY DEF SortInv
    <3>2. ASSUME NEW i \in 1..(n + 1), NEW j \in 1..(n + 1), r.stack[i].table = r.stack[j].table PROVE i = j
      <4>1. \A k \in 1..n : s.stack[k].table # t
        BY <1>4, <2>2 DEF Stacked
      <4>2. \A k \in 1..(n + 1) : k = n + 1 \/ k \in 1..n
        BY <2>1
      <4> QED BY <4>1, <4>2, <3>1, <3>2, <2>2, <2>3 DEF NotTwice
    <3> QED BY <3>1, <3>2, <1>4, <2>4, <2>2 DEF NotTwice
  <2>6. DependenciesBefore(nodes, r)
    BY <1>4 DEF SortInv, DependenciesBefore
  <2>7. DependenciesToCome(nodes, r, {})
    <3> SUFFICES ASSUME NEW i \in 1..(n + 1), NEW u \in ToSet(nodes[r.stack[i].table])
                 PROVE  \/ u \in ToSet(r.stack[i].left) \cup ToSet(r.ordered)
                        \/ i < n + 1 /\ u = r.stack[i + 1].table
      BY <2>2 DEF DependenciesToCome
    <3>1. CASE i = n + 1
      <4>1. nodes[r.stack[i].table] = nodes[t] /\ r.stack[i].left = nodes[t]
        BY <3>1, <2>3
      <4>2. u \in ToSet(r.stack[i].left)
        BY <4>1
      <4> QED BY <4>2
    <3>2. CASE i \in 1..n
      <4>0. i < n => i + 1 \in 1..n
        BY <3>2, <2>1
      <4>1. r.stack[i] = s.stack[i] /\ (i < n => r.stack[i + 1] = s.stack[i + 1])
        BY <4>0, <3>2, <2>2
      <4>2. \/ u \in ToSet(s.stack[i].left) \cup ToSet(s.ordered)
            \/ i = n /\ u \in {t}
            \/ i < n /\ u = s.stack[i + 1].table
        BY <4>1, <3>2, <2>2 DEF SortInv, DependenciesToCome
      <4> QED BY <4>1, <4>2, <1>4, <2>3, <2>1, <3>2
    <3> QED BY <3>1, <3>2, <2>1
  <2>8. LeftOver(nodes, r)
    <3>0. LeftOver(nodes, s)
      BY DEF SortInv
    <3> SUFFICES ASSUME NEW i \in 1..(n + 1)
                 PROVE  Len(r.stack[i].left) <= Len(nodes[r.stack[i].table])
      BY <2>2 DEF LeftOver
    <3>1. CASE i = n + 1
      <4>1. Len(nodes[t]) \in Nat
        BY DEF Graph
      <4> QED BY <3>1, <2>3, <4>1
    <3>2. CASE i \in 1..n
      BY <3>0, <3>2, <2>2 DEF LeftOver
    <3> QED BY <3>1, <3>2, <2>1
  <2>9. Reached(all, r, {})
    BY <2>4, <1>4 DEF SortInv, Reached
  <2> QED BY <2>5, <2>6, <2>7, <2>8, <2>9 DEF SortInv
<1> QED BY <1>1, <1>2, <1>3, <1>4

(* A turn that finds no cycle keeps the order as it should be.              *)
LEMMA TurnKeeps ==
  ASSUME NEW nodes, Graph(nodes), NEW all, NEW s \in Sorting(DOMAIN nodes),
         s.cycle \/ SortInv(nodes, all, s, {})
  PROVE  /\ Turn(nodes, s) \in Sorting(DOMAIN nodes)
         /\ Turn(nodes, s).cycle \/ SortInv(nodes, all, Turn(nodes, s), {})
<1> DEFINE N == DOMAIN nodes
<1>1. PICK r : r = Turn(nodes, s)
  OBVIOUS
<1>2. \/ Over(s) /\ r = s
      \/ ~ Over(s) /\ s.stack = <<>> /\ s.roots # <<>> /\ r = Call(nodes, RootTaken(s), Head(s.roots))
      \/ ~ Over(s) /\ s.stack # <<>> /\ Last(s.stack).left = <<>> /\ r = FrameLeft(s)
      \/ /\ ~ Over(s) /\ s.stack # <<>> /\ Last(s.stack).left # <<>>
         /\ r = Call(nodes, VisitTaken(s), Head(Last(s.stack).left))
  BY <1>1, TurnCases
<1> SUFFICES r \in Sorting(N) /\ (r.cycle \/ SortInv(nodes, all, r, {}))
  BY <1>1
<1>3. CASE Over(s) /\ r = s
  BY <1>3
<1>4. CASE ~ Over(s) /\ s.stack = <<>> /\ s.roots # <<>> /\ r = Call(nodes, RootTaken(s), Head(s.roots))
  <2>1. PICK a : a = RootTaken(s)
    OBVIOUS
  <2>2. /\ a \in Sorting(N) /\ a.ordered = s.ordered /\ a.stack = s.stack
        /\ a.roots = Tail(s.roots) /\ a.cycle = s.cycle
    BY <2>1, <1>4, RootTakenIs
  <2>3. PICK t : t = Head(s.roots)
    OBVIOUS
  <2>4. t \in N /\ ToSet(s.roots) = {t} \cup ToSet(a.roots)
    <3>1. s.roots \in Seq(N)
      BY DEF Sorting
    <3> QED BY <3>1, <2>2, <2>3, <1>4, HeadTailElements
  <2>5. ~ s.cycle /\ SortInv(nodes, all, s, {})
    BY <1>4 DEF Over
  <2>6. SortInv(nodes, all, a, {t})
    <3>1. Stacked(a) = Stacked(s) /\ DOMAIN a.stack = {}
      BY <2>2, <1>4 DEF Stacked
    <3>2. NotTwice(a) /\ DependenciesBefore(nodes, a)
      BY <3>1, <2>2, <2>5 DEF SortInv, NotTwice, DependenciesBefore
    <3>3. DependenciesToCome(nodes, a, {t}) /\ LeftOver(nodes, a)
      BY <3>1 DEF DependenciesToCome, LeftOver
    <3>4. Reached(all, a, {t})
      BY <3>1, <2>2, <2>4, <2>5 DEF SortInv, Reached
    <3> QED BY <3>2, <3>3, <3>4 DEF SortInv
  <2>7. r \in Sorting(N)
    BY <1>4, <2>1, <2>2, <2>3, <2>4, <2>5, CallType
  <2>8. ~ Call(nodes, a, t).cycle => SortInv(nodes, all, Call(nodes, a, t), {})
    BY <2>2, <2>4, <2>5, <2>6, CallKeeps
  <2> QED BY <2>7, <2>8, <2>1, <2>3, <1>4
<1>5. CASE ~ Over(s) /\ s.stack # <<>> /\ Last(s.stack).left = <<>> /\ r = FrameLeft(s)
  <2> DEFINE n == Len(s.stack)
             t == Last(s.stack).table
  <2>1. /\ r \in Sorting(N) /\ r.ordered = Append(s.ordered, t) /\ r.stack = Front(s.stack)
        /\ r.roots = s.roots /\ r.cycle = s.cycle /\ t \in N
    BY <1>5, FrameLeftIs
  <2>2. s.stack \in Seq(Frames(N)) /\ s.ordered \in Seq(N)
    BY DEF Sorting
  <2>3. /\ n \in Nat \ {0} /\ DOMAIN s.stack = 1..n /\ DOMAIN r.stack = 1..(n - 1) /\ Len(r.stack) = n - 1
        /\ \A i \in 1..(n - 1) : r.stack[i] = s.stack[i]
        /\ s.stack[n].table = t /\ s.stack[n].left = <<>>
    <3> DEFINE st == s.stack
    <3>1. /\ Len(st) \in Nat \ {0} /\ Last(st) = st[Len(st)]
          /\ Len(Front(st)) = Len(st) - 1
          /\ DOMAIN st = 1..Len(st) /\ DOMAIN Front(st) = 1..(Len(st) - 1)
          /\ \A i \in 1..(Len(st) - 1) : Front(st)[i] = st[i]
      <4>1. st \in Seq(Frames(N)) /\ st # <<>>
        BY <1>5, <2>2
      <4> HIDE DEF st
      <4> QED BY <4>1, LastFront
    <3> QED BY <3>1, <1>5, <2>1
  <2> HIDE DEF t, n
  <2>4. /\ ToSet(r.ordered) = ToSet(s.ordered) \cup {t}
        /\ \A x, y : Before(r.ordered, x, y) <=> Before(s.ordered, x, y) \/ (x \in ToSet(s.ordered) /\ y = t)
    BY <2>1, <2>2, AppendElements
  <2>5. SortInv(nodes, all, s, {})
    BY <1>5 DEF Over
  <2>6. Stacked(s) = Stacked(r) \cup {t} /\ t \notin Stacked(r) /\ t \notin ToSet(s.ordered)
    <3>1. NotTwice(s)
      BY <2>5 DEF SortInv
    <3>2. Stacked(s) = Stacked(r) \cup {t}
      <4>1. 1..n = 1..(n - 1) \cup {n}
        BY <2>3
      <4>2. \A i \in DOMAIN s.stack : s.stack[i].table \in Stacked(r) \cup {t}
        BY <4>1, <2>3 DEF Stacked
      <4>3. Stacked(r) \subseteq Stacked(s)
        BY <4>1, <2>3 DEF Stacked
      <4>4. t \in Stacked(s)
        BY <4>1, <2>3 DEF Stacked
      <4> QED BY <4>2, <4>3, <4>4 DEF Stacked
    <3>3. \A i \in 1..(n - 1) : s.stack[i].table # t
      <4>1. \A i \in 1..n : s.stack[i].table = s.stack[n].table => i = n
        <5>1. n \in DOMAIN s.stack /\ DOMAIN s.stack = 1..n
          BY <2>3
        <5> QED BY <3>1, <5>1 DEF NotTwice
      <4>2. \A i \in 1..(n - 1) : i \in 1..n /\ i # n
        BY <2>3
      <4> QED BY <4>1, <4>2, <2>3
    <3>4. t \notin Stacked(r)
      BY <3>3, <2>3 DEF Stacked
    <3> QED BY <3>1, <3>2, <3>4 DEF NotTwice
  <2>7. NotTwice(r)
    <3>1. NotTwice(s)
      BY <2>5 DEF SortInv
    <3>2. \A x : ~ Before(r.ordered, x, x)
      BY <3>1, <2>4, <2>6 DEF NotTwice
    <3>3. \A i, j \in DOMAIN r.stack : r.stack[i].table = r.stack[j].table => i = j
      <4>1. \A i \in DOMAIN r.stack : i \in DOMAIN s.stack /\ r.stack[i] = s.stack[i]
        BY <2>3
      <4> QED BY <3>1, <4>1 DEF NotTwice
    <3> QED BY <3>1, <3>2, <3>3, <2>4, <2>6 DEF NotTwice
  <2>8. \A u \in ToSet(nodes[t]) : u \in ToSet(s.ordered)
    <3>1. ToSet(<<>>) = {}
      BY DEF ToSet
    <3> QED BY <3>1, <2>3, <2>5 DEF SortInv, DependenciesToCome, n
  <2>9. DependenciesBefore(nodes, r)
    <3>1. DependenciesBefore(nodes, s)
      BY <2>5 DEF SortInv
    <3> QED BY <3>1, <2>4, <2>8 DEF DependenciesBefore
  <2>10. DependenciesToCome(nodes, r, {})
    <3> SUFFICES ASSUME NEW i \in 1..(n - 1), NEW u \in ToSet(nodes[r.stack[i].table])
                 PROVE  \/ u \in ToSet(r.stack[i].left) \cup ToSet(r.ordered)
                        \/ i < n - 1 /\ u = r.stack[i + 1].table
      BY <2>3 DEF DependenciesToCome
    <3>1. r.stack[i] = s.stack[i] /\ i < n /\ i \in DOMAIN s.stack /\ i # n
      BY <2>3
    <3>2. \/ u \in ToSet(s.stack[i].left) \cup ToSet(s.ordered)
          \/ u = s.stack[i + 1].table
      BY <3>1, <2>5 DEF SortInv, DependenciesToCome, n
    <3>3. CASE u = s.stack[i + 1].table
      <4>1. CASE i + 1 = n
        BY <4>1, <3>3, <2>3, <2>4
      <4>2. CASE i + 1 # n
        BY <4>2, <3>3, <2>3
      <4> QED BY <4>1, <4>2
    <3> QED BY <3>1, <3>2, <3>3, <2>4
  <2>11. LeftOver(nodes, r)
    BY <2>3, <2>5 DEF SortInv, LeftOver
  <2>12. Reached(all, r, {})
    BY <2>1, <2>4, <2>5, <2>6 DEF SortInv, Reached
  <2> QED BY <2>1, <2>7, <2>9, <2>10, <2>11, <2>12 DEF SortInv
<1>6. CASE /\ ~ Over(s) /\ s.stack # <<>> /\ Last(s.stack).left # <<>>
           /\ r = Call(nodes, VisitTaken(s), Head(Last(s.stack).left))
  <2> DEFINE n == Len(s.stack)
  <2>1. PICK a : a = VisitTaken(s)
    OBVIOUS
  <2>2. /\ a \in Sorting(N) /\ a.ordered = s.ordered /\ a.roots = s.roots /\ a.cycle = s.cycle
        /\ n \in Nat \ {0} /\ DOMAIN s.stack = 1..n /\ DOMAIN a.stack = 1..n /\ Len(a.stack) = n
        /\ \A i \in 1..(n - 1) : a.stack[i] = s.stack[i]
        /\ a.stack[n].table = s.stack[n].table /\ a.stack[n].left = Tail(s.stack[n].left)
        /\ Last(s.stack) = s.stack[n]
    BY <2>1, <1>6, VisitTakenIs
  <2>3. PICK t : t = Head(Last(s.stack).left)
    OBVIOUS
  <2>4. /\ t \in N /\ ToSet(s.stack[n].left) = {t} \cup ToSet(a.stack[n].left)
        /\ Len(s.stack[n].left) \in Nat /\ Len(a.stack[n].left) = Len(s.stack[n].left) - 1
    <3>1. s.stack[n].left \in Seq(N) /\ s.stack[n].left # <<>>
      <4>1. s.stack[n] \in Frames(N)
        BY <2>2 DEF Sorting
      <4>2. s.stack[n].left \in Seq(N)
        BY <4>1 DEF Frames
      <4> HIDE DEF n
      <4> QED BY <4>2, <2>2, <1>6
    <3>2. PICK l : l = s.stack[n].left
      OBVIOUS
    <3>3. Head(l) \in N /\ Len(l) \in Nat /\ Len(Tail(l)) = Len(l) - 1 /\ ToSet(l) = {Head(l)} \cup ToSet(Tail(l))
      BY <3>1, <3>2, HeadTailElements
    <3> HIDE DEF n
    <3> QED BY <3>2, <3>3, <2>2, <2>3
  <2>5. ~ s.cycle /\ SortInv(nodes, all, s, {})
    BY <1>6 DEF Over
  <2>6. \A i \in 1..n : a.stack[i].table = s.stack[i].table /\ ToSet(a.stack[i].left) \subseteq ToSet(s.stack[i].left)
    <3>1. \A i \in 1..n : i = n \/ i \in 1..(n - 1)
      BY <2>2
    <3> HIDE DEF n
    <3> QED BY <3>1, <2>2, <2>4
  <2>7. Stacked(a) = Stacked(s)
    BY <2>2, <2>6 DEF Stacked
  <2>8. NotTwice(a)
    <3>1. NotTwice(s)
      BY <2>5 DEF SortInv
    <3> HIDE DEF n
    <3> QED BY <3>1, <2>2, <2>6, <2>7 DEF NotTwice
  <2>9. DependenciesToCome(nodes, a, {t})
    <3> SUFFICES ASSUME NEW i \in 1..n, NEW u \in ToSet(nodes[a.stack[i].table])
                 PROVE  \/ u \in ToSet(a.stack[i].left) \cup ToSet(a.ordered)
                        \/ i = n /\ u = t
                        \/ i < n /\ u = a.stack[i + 1].table
      BY <2>2 DEF DependenciesToCome
    <3>1. \/ u \in ToSet(s.stack[i].left) \cup ToSet(s.ordered)
          \/ i < n /\ u = s.stack[i + 1].table
      BY <2>5, <2>2, <2>6 DEF SortInv, DependenciesToCome
    <3>2. CASE i = n
      BY <3>1, <3>2, <2>2, <2>4
    <3>3. CASE i # n
      <4>1. i \in 1..(n - 1) /\ i + 1 \in 1..n
        BY <3>3, <2>2
      <4> HIDE DEF n
      <4> QED BY <4>1, <3>1, <2>2, <2>6
    <3> QED BY <3>2, <3>3
  <2>10. LeftOver(nodes, a)
    <3> SUFFICES ASSUME NEW i \in 1..n PROVE Len(a.stack[i].left) <= Len(nodes[a.stack[i].table])
      BY <2>2 DEF LeftOver
    <3>1. Len(s.stack[i].left) <= Len(nodes[s.stack[i].table])
      BY <2>2, <2>5 DEF SortInv, LeftOver
    <3>2. CASE i = n
      <4>1. Len(nodes[s.stack[n].table]) \in Nat
        <5>1. s.stack[n] \in Frames(N)
          BY <2>2 DEF Sorting
        <5>2. s.stack[n].table \in N
          BY <5>1 DEF Frames
        <5> QED BY <5>2 DEF Graph
      <4> HIDE DEF n
      <4> QED BY <4>1, <3>1, <3>2, <2>2, <2>4
    <3>3. CASE i # n
      BY <3>1, <3>3, <2>2
    <3> QED BY <3>2, <3>3
  <2>11. SortInv(nodes, all, a, {t})
    BY <2>2, <2>5, <2>7, <2>8, <2>9, <2>10 DEF SortInv, DependenciesBefore, Reached
  <2>12. r \in Sorting(N)
    BY <1>6, <2>1, <2>2, <2>3, <2>4, <2>5, CallType
  <2>13. ~ Call(nodes, a, t).cycle => SortInv(nodes, all, Call(nodes, a, t), {})
    BY <2>2, <2>4, <2>5, <2>11, CallKeeps
  <2> QED BY <2>12, <2>13, <2>1, <2>3, <1>6
<1> QED BY <1>2, <1>3, <1>4, <1>5, <1>6

(* What is left to do: every table not yet left, with each number of its    *)
(* dependencies that it may have before it.                                 *)
Pairs(nodes) == UNION { {t} \X (0..Len(nodes[t])) : t \in DOMAIN nodes }
ToDo(nodes, s) ==
    { p \in Pairs(nodes) :
        /\ p[1] \notin ToSet(s.ordered)
        /\ \A i \in DOMAIN s.stack : s.stack[i].table = p[1] => p[2] <= Len(s.stack[i].left) }

(* The pairs are finitely many, and one for each number of dependencies.    *)
LEMMA PairsAre ==
  ASSUME NEW nodes, Graph(nodes)
  PROVE  /\ IsFiniteSet(Pairs(nodes))
         /\ \A t \in DOMAIN nodes, k \in Nat : k <= Len(nodes[t]) => <<t, k>> \in Pairs(nodes)
         /\ \A p \in Pairs(nodes) : p = <<p[1], p[2]>> /\ p[1] \in DOMAIN nodes /\ p[2] \in 0..Len(nodes[p[1]])
<1> DEFINE N == DOMAIN nodes
           P(t) == {t} \X (0..Len(nodes[t]))
           F == [t \in N |-> P(t)]
           All == { P(t) : t \in N }
<1>1. \A t \in N : Len(nodes[t]) \in Nat
  BY DEF Graph
<1>2. \A t \in N : IsFiniteSet(P(t))
  <2> TAKE t \in N
  <2>1. IsFiniteSet({t})
    BY FS_Singleton
  <2>2. IsFiniteSet(0..Len(nodes[t]))
    <3>1. Len(nodes[t]) \in Int /\ 0 \in Int
      BY <1>1
    <3> QED BY <3>1, FS_Interval
  <2> QED BY <2>1, <2>2, FS_Product
<1>3. IsFiniteSet(All)
  <2>1. F \in Surjection(N, All)
    <3> HIDE DEF P
    <3> QED BY DEF Surjection
  <2>2. IsFiniteSet(N)
    BY DEF Graph
  <2> HIDE DEF F, All, N
  <2> QED BY <2>1, <2>2, FS_Surjection
<1>4. IsFiniteSet(UNION All)
  <2>1. \A T \in All : IsFiniteSet(T)
    <3> HIDE DEF P
    <3> QED BY <1>2
  <2> HIDE DEF All
  <2> QED BY <2>1, <1>3, FS_UNION
<1>5. Pairs(nodes) = UNION All
  BY DEF Pairs
<1>6. \A t \in N, k \in Nat : k <= Len(nodes[t]) => <<t, k>> \in Pairs(nodes)
  BY <1>1 DEF Pairs
<1>7. \A p \in Pairs(nodes) : p = <<p[1], p[2]>> /\ p[1] \in DOMAIN nodes /\ p[2] \in 0..Len(nodes[p[1]])
  BY DEF Pairs
<1> QED BY <1>4, <1>5, <1>6, <1>7

(* What is left to do is finite, and no more than all pairs.                *)
LEMMA ToDoFinite ==
  ASSUME NEW nodes, Graph(nodes), NEW s
  PROVE  /\ IsFiniteSet(ToDo(nodes, s)) /\ Cardinality(ToDo(nodes, s)) \in Nat
         /\ Cardinality(ToDo(nodes, s)) <= Cardinality(Pairs(nodes)) /\ Cardinality(Pairs(nodes)) \in Nat
<1>1. IsFiniteSet(Pairs(nodes))
  BY PairsAre
<1>2. ToDo(nodes, s) \in SUBSET Pairs(nodes)
  BY DEF ToDo
<1> QED BY <1>1, <1>2, FS_Subset, FS_CardinalityType

(* A call adds nothing to do.                                               *)
LEMMA CallToDo ==
  ASSUME NEW nodes, Graph(nodes), NEW s \in Sorting(DOMAIN nodes), ~ s.cycle, NEW t \in DOMAIN nodes,
         ~ Call(nodes, s, t).cycle
  PROVE  ToDo(nodes, Call(nodes, s, t)) \subseteq ToDo(nodes, s) /\ Call(nodes, s, t).roots = s.roots
<1> DEFINE f == [table |-> t, left |-> nodes[t]]
<1>1. PICK r : r = Call(nodes, s, t)
  OBVIOUS
<1>2. \/ r = s
      \/ r.cycle
      \/ r.ordered = s.ordered /\ r.roots = s.roots /\ r.stack = Append(s.stack, f)
  <2> DEFINE c == Call(nodes, s, t)
  <2>1. /\ c \in Sorting(DOMAIN nodes)
        /\ \/ c = s /\ t \in ToSet(s.ordered)
           \/ c.cycle
           \/ /\ t \notin ToSet(s.ordered) /\ t \notin Stacked(s)
              /\ c.ordered = s.ordered /\ c.roots = s.roots /\ c.cycle = FALSE
              /\ c.stack = Append(s.stack, f)
    BY CallCases
  <2> HIDE DEF f
  <2> QED BY <2>1, <1>1
<1> SUFFICES ToDo(nodes, r) \subseteq ToDo(nodes, s) /\ r.roots = s.roots
  BY <1>1
<1>3. CASE r = s
  BY <1>3
<1>4. CASE r.ordered = s.ordered /\ r.roots = s.roots /\ r.stack = Append(s.stack, f)
  <2>1. \A i \in DOMAIN s.stack : i \in DOMAIN r.stack /\ r.stack[i] = s.stack[i]
    <3>1. s.stack \in Seq(Frames(DOMAIN nodes))
      BY DEF Sorting
    <3> HIDE DEF f
    <3> QED BY <3>1, <1>4
  <2> QED BY <2>1, <1>4 DEF ToDo
<1> QED BY <1>1, <1>2, <1>3, <1>4

(* A turn that is not the last, and finds no cycle, leaves less to do.      *)
Measure(nodes, s) == Len(s.roots) + Cardinality(ToDo(nodes, s))
(* The measure is a number.                                                 *)
LEMMA MeasureType ==
  ASSUME NEW nodes, Graph(nodes), NEW s \in Sorting(DOMAIN nodes)
  PROVE  Measure(nodes, s) \in Nat
<1>1. Len(s.roots) \in Nat
  BY DEF Sorting
<1>2. Cardinality(ToDo(nodes, s)) \in Nat
  BY ToDoFinite
<1> QED BY <1>1, <1>2 DEF Measure

(* A turn of a sort that is not over leaves less to do: a table is returned *)
(* from, a dependency or a name of the outer loop is taken.                 *)
LEMMA TurnShrinks ==
  ASSUME NEW nodes, Graph(nodes), NEW all, NEW s \in Sorting(DOMAIN nodes), SortInv(nodes, all, s, {}),
         ~ Over(s), ~ Turn(nodes, s).cycle
  PROVE  Measure(nodes, Turn(nodes, s)) + 1 <= Measure(nodes, s)
<1> DEFINE N == DOMAIN nodes
<1>1. PICK r : r = Turn(nodes, s)
  OBVIOUS
<1>2. \/ s.stack = <<>> /\ s.roots # <<>> /\ r = Call(nodes, RootTaken(s), Head(s.roots))
      \/ s.stack # <<>> /\ Last(s.stack).left = <<>> /\ r = FrameLeft(s)
      \/ /\ s.stack # <<>> /\ Last(s.stack).left # <<>>
         /\ r = Call(nodes, VisitTaken(s), Head(Last(s.stack).left))
  BY <1>1, TurnCases
<1>3. ~ s.cycle /\ s.roots \in Seq(N) /\ Len(s.roots) \in Nat
  BY DEF Over, Sorting
<1>4. ASSUME ToDo(nodes, r) \subseteq ToDo(nodes, s), Len(r.roots) \in Nat,
             (Len(r.roots) + 1 = Len(s.roots)) \/ (r.roots = s.roots /\ ToDo(nodes, r) # ToDo(nodes, s))
      PROVE  Measure(nodes, r) + 1 <= Measure(nodes, s)
  <2> DEFINE A == ToDo(nodes, r)
             B == ToDo(nodes, s)
  <2>1. IsFiniteSet(B) /\ Cardinality(A) \in Nat /\ Cardinality(B) \in Nat
    BY ToDoFinite
  <2>2. Cardinality(A) <= Cardinality(B) /\ (Cardinality(B) = Cardinality(A) => B = A)
    <3>1. A \in SUBSET B
      BY <1>4
    <3> HIDE DEF A, B
    <3> QED BY <3>1, <2>1, FS_Subset
  <2>3. Measure(nodes, r) = Len(r.roots) + Cardinality(A) /\ Measure(nodes, s) = Len(s.roots) + Cardinality(B)
    BY DEF Measure
  <2>4. (Len(r.roots) + 1 = Len(s.roots)) \/ (Len(r.roots) = Len(s.roots) /\ A # B)
    BY <1>4
  <2> HIDE DEF A, B
  <2> QED BY <2>1, <2>2, <2>3, <2>4, <1>3, <1>4
<1> SUFFICES Measure(nodes, r) + 1 <= Measure(nodes, s)
  BY <1>1
<1>5. CASE s.stack = <<>> /\ s.roots # <<>> /\ r = Call(nodes, RootTaken(s), Head(s.roots))
  <2>1. PICK a : a = RootTaken(s)
    OBVIOUS
  <2>2. /\ a \in Sorting(N) /\ a.ordered = s.ordered /\ a.stack = s.stack
        /\ a.roots = Tail(s.roots) /\ a.cycle = s.cycle
    BY <2>1, <1>5, RootTakenIs
  <2>3. Head(s.roots) \in N /\ Len(Tail(s.roots)) = Len(s.roots) - 1
    BY <1>3, <1>5
  <2>4. ToDo(nodes, r) \subseteq ToDo(nodes, a) /\ r.roots = a.roots
    BY <2>1, <2>2, <2>3, <1>1, <1>3, <1>5, CallToDo
  <2>5. ToDo(nodes, a) = ToDo(nodes, s)
    BY <2>2 DEF ToDo
  <2>6. Len(r.roots) \in Nat /\ Len(r.roots) + 1 = Len(s.roots)
    BY <2>2, <2>3, <2>4, <1>3, <1>5
  <2> QED BY <2>4, <2>5, <2>6, <1>4
<1>6. CASE s.stack # <<>> /\ Last(s.stack).left = <<>> /\ r = FrameLeft(s)
  <2> DEFINE n == Len(s.stack)
             t == Last(s.stack).table
  <2>1. /\ r.ordered = Append(s.ordered, t) /\ r.stack = Front(s.stack) /\ r.roots = s.roots /\ t \in N
    BY <1>6, FrameLeftIs
  <2>2. s.stack \in Seq(Frames(N)) /\ s.ordered \in Seq(N)
    BY DEF Sorting
  <2>3. /\ n \in Nat \ {0} /\ DOMAIN s.stack = 1..n /\ DOMAIN r.stack = 1..(n - 1)
        /\ \A i \in 1..(n - 1) : r.stack[i] = s.stack[i]
        /\ s.stack[n].table = t /\ s.stack[n].left = <<>>
    <3> DEFINE st == s.stack
    <3>1. /\ Len(st) \in Nat \ {0} /\ Last(st) = st[Len(st)]
          /\ DOMAIN st = 1..Len(st) /\ DOMAIN Front(st) = 1..(Len(st) - 1)
          /\ \A i \in 1..(Len(st) - 1) : Front(st)[i] = st[i]
      <4>1. st \in Seq(Frames(N)) /\ st # <<>>
        BY <1>6, <2>2
      <4> HIDE DEF st
      <4> QED BY <4>1, LastFront
    <3> QED BY <3>1, <1>6, <2>1
  <2> HIDE DEF t, n
  <2>4. ToSet(r.ordered) = ToSet(s.ordered) \cup {t}
    BY <2>1, <2>2, AppendElements
  <2>5. NotTwice(s)
    BY DEF SortInv
  <2>6. \A i \in 1..n : s.stack[i].table = t => i = n
    BY <2>3, <2>5 DEF NotTwice
  <2>7. ToDo(nodes, r) \subseteq ToDo(nodes, s)
    <3> SUFFICES ASSUME NEW p \in ToDo(nodes, r) PROVE p \in ToDo(nodes, s)
      OBVIOUS
    <3>1. p \in Pairs(nodes) /\ p[1] \notin ToSet(s.ordered) /\ p[1] # t
      BY <2>4 DEF ToDo
    <3>2. ASSUME NEW i \in 1..n, s.stack[i].table = p[1] PROVE p[2] <= Len(s.stack[i].left)
      <4>1. i \in 1..(n - 1)
        BY <3>1, <3>2, <2>3
      <4> QED BY <4>1, <3>2, <2>3 DEF ToDo
    <3> QED BY <3>1, <3>2, <2>3 DEF ToDo
  <2>8. <<t, 0>> \in ToDo(nodes, s) /\ <<t, 0>> \notin ToDo(nodes, r)
    <3>1. Len(nodes[t]) \in Nat
      BY <2>1 DEF Graph
    <3>2. <<t, 0>> \in Pairs(nodes)
      BY <3>1, <2>1, PairsAre
    <3>3. t \notin ToSet(s.ordered)
      BY <2>5, <2>3 DEF NotTwice, Stacked
    <3>4. \A i \in 1..n : s.stack[i].table = t => 0 <= Len(s.stack[i].left)
      BY <2>6, <2>3
    <3>5. <<t, 0>>[1] = t /\ <<t, 0>>[2] = 0
      OBVIOUS
    <3>6. <<t, 0>> \in ToDo(nodes, s)
      BY <3>2, <3>3, <3>4, <3>5, <2>3 DEF ToDo
    <3>7. <<t, 0>> \notin ToDo(nodes, r)
      BY <3>5, <2>4 DEF ToDo
    <3> QED BY <3>6, <3>7
  <2> QED BY <2>1, <2>7, <2>8, <1>3, <1>4
<1>7. CASE /\ s.stack # <<>> /\ Last(s.stack).left # <<>>
           /\ r = Call(nodes, VisitTaken(s), Head(Last(s.stack).left))
  <2> DEFINE n == Len(s.stack)
             t == s.stack[n].table
             l == s.stack[n].left
  <2>1. PICK a : a = VisitTaken(s)
    OBVIOUS
  <2>2. /\ a \in Sorting(N) /\ a.ordered = s.ordered /\ a.roots = s.roots /\ a.cycle = s.cycle
        /\ n \in Nat \ {0} /\ DOMAIN s.stack = 1..n /\ DOMAIN a.stack = 1..n
        /\ \A i \in 1..(n - 1) : a.stack[i] = s.stack[i]
        /\ a.stack[n].table = t /\ a.stack[n].left = Tail(l)
        /\ Last(s.stack) = s.stack[n]
    BY <2>1, <1>7, VisitTakenIs
  <2>3. t \in N /\ l \in Seq(N)
    <3>1. s.stack[n] \in Frames(N)
      BY <2>2 DEF Sorting
    <3> QED BY <3>1 DEF Frames
  <2>4. Head(l) \in N /\ Len(l) \in Nat \ {0} /\ Len(Tail(l)) = Len(l) - 1
    <3>1. l # <<>>
      BY <2>2, <1>7
    <3> HIDE DEF l
    <3> QED BY <3>1, <2>3
  <2>5. r = Call(nodes, a, Head(l))
    BY <2>1, <2>2, <1>7
  <2> HIDE DEF n, t, l
  <2>6. ToDo(nodes, r) \subseteq ToDo(nodes, a) /\ r.roots = a.roots
    BY <2>2, <2>4, <2>5, <1>1, <1>3, CallToDo
  <2>7. NotTwice(s) /\ LeftOver(nodes, s)
    BY DEF SortInv
  <2>8. \A i \in 1..n : s.stack[i].table = t => i = n
    BY <2>2, <2>7 DEF NotTwice, t
  <2>9. \A i \in 1..n : a.stack[i].table = s.stack[i].table
    <3>1. \A i \in 1..n : i = n \/ i \in 1..(n - 1)
      BY <2>2
    <3> QED BY <3>1, <2>2 DEF t
  <2>10. ToDo(nodes, a) \subseteq ToDo(nodes, s)
    <3> SUFFICES ASSUME NEW p \in ToDo(nodes, a) PROVE p \in ToDo(nodes, s)
      OBVIOUS
    <3>1. p \in Pairs(nodes) /\ p[1] \notin ToSet(s.ordered)
      BY <2>2 DEF ToDo
    <3>2. ASSUME NEW i \in 1..n, s.stack[i].table = p[1] PROVE p[2] <= Len(s.stack[i].left)
      <4>1. p[2] <= Len(a.stack[i].left)
        BY <3>2, <2>2, <2>9 DEF ToDo
      <4>2. CASE i = n
        <5>1. p[2] \in Int
          BY <3>1, PairsAre
        <5>2. s.stack[i].left = l
          BY <4>2 DEF l
        <5> QED BY <5>1, <5>2, <4>1, <4>2, <2>2, <2>4
      <4>3. CASE i # n
        BY <4>1, <4>3, <2>2
      <4> QED BY <4>2, <4>3
    <3> QED BY <3>1, <3>2, <2>2 DEF ToDo
  <2>11. <<t, Len(l)>> \in ToDo(nodes, s) /\ <<t, Len(l)>> \notin ToDo(nodes, a)
    <3>1. Len(l) <= Len(nodes[t])
      BY <2>2, <2>7 DEF LeftOver, t, l
    <3>2. <<t, Len(l)>> \in Pairs(nodes)
      BY <3>1, <2>3, <2>4, PairsAre
    <3>3. t \notin ToSet(s.ordered)
      BY <2>7, <2>2 DEF NotTwice, Stacked, t
    <3>4. \A i \in 1..n : s.stack[i].table = t => Len(l) <= Len(s.stack[i].left)
      <4>1. s.stack[n].left = l
        BY DEF l
      <4> QED BY <4>1, <2>8, <2>4
    <3>5. <<t, Len(l)>>[1] = t /\ <<t, Len(l)>>[2] = Len(l)
      OBVIOUS
    <3>6. <<t, Len(l)>> \in ToDo(nodes, s)
      BY <3>2, <3>3, <3>4, <3>5, <2>2 DEF ToDo
    <3>7. ~ (Len(l) <= Len(a.stack[n].left)) /\ n \in DOMAIN a.stack /\ a.stack[n].table = t
      BY <2>2, <2>4
    <3>8. <<t, Len(l)>> \notin ToDo(nodes, a)
      BY <3>5, <3>7 DEF ToDo
    <3> QED BY <3>6, <3>8
  <2> QED BY <2>2, <2>6, <2>10, <2>11, <1>3, <1>4
<1> QED BY <1>2, <1>5, <1>6, <1>7

(* The turns of a sort, and the rows of states it goes through.             *)
Turns(nodes, roots) == Len(roots) + Cardinality(Pairs(nodes))
SortsOf(nodes, roots) ==
    { R \in [0..Turns(nodes, roots) -> Sorting(DOMAIN nodes)] :
        /\ R[0] = Begin(roots)
        /\ \A n \in 1..Turns(nodes, roots) : R[n] = Turn(nodes, R[n - 1]) }

(* The sort is the last of a row of states, each made by a turn of the one  *)
(* before.                                                                  *)
LEMMA SortRun ==
  ASSUME NEW nodes, Graph(nodes), NEW roots \in Seq(DOMAIN nodes)
  PROVE  \E R \in SortsOf(nodes, roots) : topologicalSort(nodes, roots) = R[Turns(nodes, roots)]
<1> DEFINE N == DOMAIN nodes
           M == Turns(nodes, roots)
           V == Sorting(N)
           v0 == Begin(roots)
           G == [p \in (1..M) \X V |-> Turn(nodes, p[2])]
           Eq(f) == f = [n \in 0..M |-> IF n = 0 THEN v0 ELSE Turn(nodes, f[n - 1])]
           K == CHOOSE f : Eq(f)
<1>1. M \in Nat /\ v0 \in V
  <2>1. Cardinality(Pairs(nodes)) \in Nat
    BY ToDoFinite
  <2>2. v0 \in V
    BY DEF Begin, Sorting
  <2> QED BY <2>1, <2>2 DEF Turns
<1>2. \A s \in V : Turn(nodes, s) \in V
  <2> TAKE s \in V
  <2>1. PICK r : r = Turn(nodes, s)
    OBVIOUS
  <2>2. \/ Over(s) /\ r = s
        \/ ~ Over(s) /\ s.stack = <<>> /\ s.roots # <<>> /\ r = Call(nodes, RootTaken(s), Head(s.roots))
        \/ ~ Over(s) /\ s.stack # <<>> /\ Last(s.stack).left = <<>> /\ r = FrameLeft(s)
        \/ /\ ~ Over(s) /\ s.stack # <<>> /\ Last(s.stack).left # <<>>
           /\ r = Call(nodes, VisitTaken(s), Head(Last(s.stack).left))
    BY <2>1, TurnCases
  <2>3. CASE Over(s) /\ r = s
    BY <2>1, <2>3
  <2>4. CASE ~ Over(s) /\ s.stack = <<>> /\ s.roots # <<>> /\ r = Call(nodes, RootTaken(s), Head(s.roots))
    <3>1. PICK a : a = RootTaken(s)
      OBVIOUS
    <3>2. a \in V /\ a.cycle = s.cycle /\ ~ s.cycle
      BY <3>1, <2>4, RootTakenIs DEF Over
    <3>3. Head(s.roots) \in N
      BY <2>4 DEF Sorting
    <3> QED BY <3>1, <3>2, <3>3, <2>1, <2>4, CallType
  <2>5. CASE ~ Over(s) /\ s.stack # <<>> /\ Last(s.stack).left = <<>> /\ r = FrameLeft(s)
    BY <2>1, <2>5, FrameLeftIs
  <2>6. CASE /\ ~ Over(s) /\ s.stack # <<>> /\ Last(s.stack).left # <<>>
             /\ r = Call(nodes, VisitTaken(s), Head(Last(s.stack).left))
    <3>1. PICK a : a = VisitTaken(s)
      OBVIOUS
    <3>2. a \in V /\ a.cycle = s.cycle /\ ~ s.cycle
      BY <3>1, <2>6, VisitTakenIs DEF Over
    <3>3. Head(Last(s.stack).left) \in N
      <4>1. Last(s.stack) \in Frames(N)
        <5>1. s.stack \in Seq(Frames(N))
          BY DEF Sorting
        <5> QED BY <5>1, <2>6, LastFront
      <4>2. Last(s.stack).left \in Seq(N)
        BY <4>1 DEF Frames
      <4> QED BY <4>2, <2>6
    <3> QED BY <3>1, <3>2, <3>3, <2>1, <2>6, CallType
  <2> QED BY <2>2, <2>3, <2>4, <2>5, <2>6
<1>3. G \in [(1..M) \X V -> V]
  <2> HIDE DEF M, V
  <2> QED BY <1>2
<1>4. PICK f \in [0..M -> V] : f[0] = v0 /\ \A n \in 1..M : f[n] = G[<<n, f[n - 1]>>]
  <2> HIDE DEF G, M, V, v0
  <2>1. PICK f \in Recursive(M, V, v0, G) : TRUE
    BY <1>1, <1>3, Recursion
  <2> QED BY <2>1 DEF Recursive
<1>5. \A n \in 1..M : f[n] = Turn(nodes, f[n - 1])
  <2> SUFFICES ASSUME NEW n \in 1..M PROVE f[n] = Turn(nodes, f[n - 1])
    OBVIOUS
  <2> HIDE DEF M, V, v0
  <2>1. f[n - 1] \in V
    BY <1>1, <1>4
  <2>2. <<n, f[n - 1]>> \in (1..M) \X V
    BY <2>1
  <2>3. G[<<n, f[n - 1]>>] = Turn(nodes, f[n - 1])
    BY <2>2
  <2> QED BY <2>3, <1>4
<1>6. Eq(f)
  <2> DEFINE g == [n \in 0..M |-> IF n = 0 THEN v0 ELSE Turn(nodes, f[n - 1])]
  <2>1. \A n \in 0..M : f[n] = g[n]
    <3> HIDE DEF M, V, v0, G
    <3> SUFFICES ASSUME NEW n \in 0..M PROVE f[n] = g[n]
      OBVIOUS
    <3>1. n = 0 \/ (n \in 1..M /\ n # 0)
      BY <1>1
    <3> QED BY <3>1, <1>4, <1>5
  <2>2. DOMAIN f = DOMAIN g /\ f = [n \in DOMAIN f |-> f[n]] /\ g = [n \in DOMAIN g |-> g[n]] /\ DOMAIN f = 0..M
    <3> HIDE DEF M, V, v0
    <3> QED OBVIOUS
  <2>3. f = g
    <3> HIDE DEF g, M
    <3> QED BY <2>1, <2>2
  <2> QED BY <2>3
<1>7. Eq(K)
  <2> HIDE DEF Eq
  <2> QED BY <1>6
<1>8. topologicalSort(nodes, roots) = K[M]
  BY DEF topologicalSort, Turns, Pairs, Begin
<1>9. DOMAIN K = 0..M /\ K[0] = v0 /\ \A n \in 1..M : K[n] = Turn(nodes, K[n - 1])
  <2> DEFINE g == [n \in 0..M |-> IF n = 0 THEN v0 ELSE Turn(nodes, K[n - 1])]
  <2>1. K = g
    <3> HIDE DEF K
    <3> QED BY <1>7
  <2>2. DOMAIN g = 0..M /\ \A n \in 0..M : g[n] = IF n = 0 THEN v0 ELSE Turn(nodes, K[n - 1])
    <3> HIDE DEF M, v0, K
    <3> QED OBVIOUS
  <2>3. 0 \in 0..M /\ \A n \in 1..M : n \in 0..M /\ n # 0
    BY <1>1
  <2> HIDE DEF g, K, M, v0
  <2> QED BY <2>1, <2>2, <2>3
<1>10. \A n \in 0..M : K[n] \in V
  <2> DEFINE P == { n \in Nat : n <= M => K[n] \in V }
  <2> HIDE DEF K, M, V, v0
  <2>1. 0 \in P
    BY <1>1, <1>9
  <2>2. ASSUME NEW n \in Nat, n \in P PROVE n + 1 \in P
    <3> SUFFICES ASSUME n + 1 <= M PROVE K[n + 1] \in V
      OBVIOUS
    <3>1. K[n] \in V /\ n + 1 \in 1..M /\ (n + 1) - 1 = n
      BY <2>2, <1>1
    <3> QED BY <3>1, <1>2, <1>9
  <2>3. Nat \subseteq P
    <3> HIDE DEF P
    <3> QED BY <2>1, <2>2, SetInduction
  <2> QED BY <2>3, <1>1
<1>11. K \in [0..M -> V]
  <2>1. K = [n \in 0..M |-> K[n]]
    <3> HIDE DEF K
    <3> QED BY <1>7
  <2> HIDE DEF K, M, V
  <2> QED BY <2>1, <1>10
<1> HIDE DEF K
<1> QED BY <1>8, <1>9, <1>11 DEF SortsOf

(* What a sort that finds no cycle returns: every table once, behind all    *)
(* that it depends on.                                                      *)
THEOREM SortResult ==
  ASSUME NEW nodes, Graph(nodes), NEW roots \in Seq(DOMAIN nodes), ToSet(roots) = DOMAIN nodes,
         ~ topologicalSort(nodes, roots).cycle
  PROVE  LET o == topologicalSort(nodes, roots).ordered
         IN  /\ o \in Seq(DOMAIN nodes) /\ ToSet(o) = DOMAIN nodes
             /\ \A x : ~ Before(o, x, x)
             /\ \A t \in DOMAIN nodes : \A u \in ToSet(nodes[t]) : Before(o, u, t)
<1> DEFINE N == DOMAIN nodes
           M == Turns(nodes, roots)
<1>1. PICK R \in SortsOf(nodes, roots) : topologicalSort(nodes, roots) = R[M]
  BY SortRun
<1>2. /\ R \in [0..M -> Sorting(N)] /\ R[0] = Begin(roots)
      /\ \A n \in 1..M : R[n] = Turn(nodes, R[n - 1])
  BY DEF SortsOf
<1>3. M \in Nat /\ Len(roots) \in Nat /\ Cardinality(Pairs(nodes)) \in Nat
  BY ToDoFinite DEF Turns
<1> HIDE DEF M
<1> DEFINE Fine(s) == s.cycle \/ SortInv(nodes, N, s, {})
           Near(n, s) == s.cycle \/ Over(s) \/ n + Measure(nodes, s) <= M
           P == { n \in Nat : n <= M => Fine(R[n]) /\ Near(n, R[n]) }
<1>4. 0 \in P
  <2>1. PICK b : b = Begin(roots)
    OBVIOUS
  <2>2. b.ordered = <<>> /\ b.stack = <<>> /\ b.roots = roots /\ b.cycle = FALSE
    BY <2>1 DEF Begin
  <2>3. /\ ToSet(b.ordered) = {} /\ DOMAIN b.ordered = {} /\ DOMAIN b.stack = {}
    BY <2>2 DEF ToSet
  <2>4. Fine(b)
    BY <2>2, <2>3 DEF SortInv, NotTwice, DependenciesBefore, DependenciesToCome, LeftOver, Reached, Stacked, Before
  <2>5. Cardinality(ToDo(nodes, b)) <= Cardinality(Pairs(nodes)) /\ Cardinality(ToDo(nodes, b)) \in Nat
    BY ToDoFinite
  <2>6. 0 + Measure(nodes, b) <= M
    BY <2>2, <2>5, <1>3 DEF Measure, M, Turns
  <2> HIDE DEF Fine
  <2> QED BY <2>1, <2>4, <2>6, <1>2
<1>5. ASSUME NEW n \in Nat, n \in P PROVE n + 1 \in P
  <2> SUFFICES ASSUME n + 1 <= M PROVE Fine(R[n + 1]) /\ Near(n + 1, R[n + 1])
    OBVIOUS
  <2>1. PICK s : s = R[n]
    OBVIOUS
  <2>2. s \in Sorting(N) /\ R[n + 1] = Turn(nodes, s) /\ Fine(s) /\ Near(n, s)
    <3>1. n \in 0..M /\ n + 1 \in 1..M /\ (n + 1) - 1 = n /\ n <= M
      BY <1>3
    <3>2. Fine(R[n]) /\ Near(n, R[n])
      BY <1>5, <3>1
    <3> HIDE DEF Fine, Near
    <3> QED BY <3>1, <3>2, <2>1, <1>2
  <2>3. PICK r : r = Turn(nodes, s)
    OBVIOUS
  <2>4. Fine(r)
    BY <2>2, <2>3, TurnKeeps
  <2>5. Near(n + 1, r)
    <3>1. CASE Over(s)
      <4>1. \/ Over(s) /\ r = s
            \/ ~ Over(s) /\ s.stack = <<>> /\ s.roots # <<>> /\ r = Call(nodes, RootTaken(s), Head(s.roots))
            \/ ~ Over(s) /\ s.stack # <<>> /\ Last(s.stack).left = <<>> /\ r = FrameLeft(s)
            \/ /\ ~ Over(s) /\ s.stack # <<>> /\ Last(s.stack).left # <<>>
               /\ r = Call(nodes, VisitTaken(s), Head(Last(s.stack).left))
        BY <2>2, <2>3, TurnCases
      <4> QED BY <4>1, <3>1
    <3>2. CASE ~ Over(s) /\ ~ r.cycle
      <4>1. ~ s.cycle /\ SortInv(nodes, N, s, {}) /\ n + Measure(nodes, s) <= M
        BY <3>2, <2>2 DEF Over
      <4>2. Measure(nodes, r) + 1 <= Measure(nodes, s)
        BY <4>1, <3>2, <2>2, <2>3, TurnShrinks
      <4>3. Measure(nodes, r) \in Nat /\ Measure(nodes, s) \in Nat
        <5>1. r \in Sorting(N)
          BY <2>2, <2>3, TurnKeeps
        <5> QED BY <5>1, <2>2, MeasureType
      <4> QED BY <4>1, <4>2, <4>3, <1>3
    <3> QED BY <3>1, <3>2
  <2> HIDE DEF Fine, Near
  <2> QED BY <2>2, <2>3, <2>4, <2>5
<1>6. M \in P
  <2>1. Nat \subseteq P
    <3> HIDE DEF P
    <3> QED BY <1>4, <1>5, SetInduction
  <2> HIDE DEF P
  <2> QED BY <2>1, <1>3
<1>7. PICK s : s = R[M]
  OBVIOUS
<1>8. s \in Sorting(N) /\ ~ s.cycle /\ topologicalSort(nodes, roots) = s
  BY <1>1, <1>2, <1>3, <1>7
<1>9. SortInv(nodes, N, s, {}) /\ (Over(s) \/ M + Measure(nodes, s) <= M)
  BY <1>6, <1>3, <1>7, <1>8
<1>10. Over(s)
  <2> SUFFICES ASSUME ~ Over(s) PROVE FALSE
    OBVIOUS
  <2>1. Len(s.roots) \in Nat /\ s.roots \in Seq(N) /\ s.stack \in Seq(Frames(N))
    BY <1>8 DEF Sorting
  <2>2. IsFiniteSet(ToDo(nodes, s)) /\ Cardinality(ToDo(nodes, s)) \in Nat
    BY ToDoFinite
  <2>3. Len(s.roots) = 0 /\ Cardinality(ToDo(nodes, s)) = 0
    BY <2>1, <2>2, <1>3, <1>9 DEF Measure
  <2>4. ToDo(nodes, s) = {} /\ s.roots = <<>>
    BY <2>1, <2>2, <2>3, FS_EmptySet
  <2>5. s.stack # <<>>
    BY <2>4 DEF Over
  <2> DEFINE n == Len(s.stack)
             t == s.stack[n].table
  <2>6. n \in 1..n /\ DOMAIN s.stack = 1..n
    BY <2>1, <2>5
  <2>7. t \in N
    <3>1. s.stack[n] \in Frames(N)
      BY <2>1, <2>6
    <3> QED BY <3>1 DEF Frames
  <2>8. NotTwice(s)
    BY <1>9 DEF SortInv
  <2>9. \A i \in 1..n : Len(s.stack[i].left) \in Nat
    <3>1. \A i \in 1..n : s.stack[i] \in Frames(N)
      BY <2>1, <2>6
    <3> QED BY <3>1 DEF Frames
  <2> HIDE DEF n
  <2>10. t \notin ToSet(s.ordered)
    BY <2>6, <2>8 DEF NotTwice, Stacked
  <2> HIDE DEF t
  <2>11. <<t, 0>> \in Pairs(nodes)
    <3>1. 0 <= Len(nodes[t])
      BY <2>7 DEF Graph
    <3> QED BY <3>1, <2>7, PairsAre
  <2>12. <<t, 0>>[1] = t /\ <<t, 0>>[2] = 0 /\ \A i \in 1..n : 0 <= Len(s.stack[i].left)
    BY <2>9
  <2>13. <<t, 0>> \in ToDo(nodes, s)
    BY <2>10, <2>11, <2>12, <2>6 DEF ToDo
  <2> QED BY <2>13, <2>4
<1>11. s.stack = <<>> /\ s.roots = <<>> /\ s.ordered \in Seq(N)
  BY <1>8, <1>10 DEF Over, Sorting
<1>12. ToSet(s.ordered) = N
  <2>1. ToSet(s.roots) = {} /\ Stacked(s) = {}
    BY <1>11 DEF ToSet, Stacked
  <2>2. ToSet(s.ordered) \subseteq N
    BY <1>11 DEF ToSet
  <2> QED BY <2>1, <2>2, <1>9 DEF SortInv, Reached
<1> QED BY <1>8, <1>9, <1>11, <1>12 DEF SortInv, NotTwice, DependenciesBefore

-----------------------------------------------------------------------------
(* A cycle is found exactly where tables refer to one another in a circle:  *)
(* the tables on the stack refer each to the next.                          *)

(* Tables that refer to one another in a circle, perhaps of one.            *)
Circle(nodes) ==
    \E k \in Nat \ {0} : \E p \in [0..k -> DOMAIN nodes] :
        p[0] = p[k] /\ \A i \in 0..(k - 1) : p[i + 1] \in ToSet(nodes[p[i]])

(* On the stack each table refers to the next one, and what is left to      *)
(* visit are references.                                                    *)
Chain(nodes, s) ==
    /\ \A i \in DOMAIN s.stack : ToSet(s.stack[i].left) \subseteq ToSet(nodes[s.stack[i].table])
    /\ \A i, j \in DOMAIN s.stack : j = i + 1 => s.stack[j].table \in ToSet(nodes[s.stack[i].table])

(* A call finds a cycle in a table that is on the stack.                    *)
LEMMA CallsCycle ==
  ASSUME NEW nodes, NEW s, ~ s.cycle, NEW t, Call(nodes, s, t).cycle
  PROVE  t \in Stacked(s)
<1>1. CASE t \in ToSet(s.ordered)
  BY <1>1 DEF Call
<1>2. CASE t \notin ToSet(s.ordered) /\ t \notin Stacked(s)
  <2> DEFINE f == [table |-> t, left |-> nodes[t]]
  <2>1. Call(nodes, s, t) = [s EXCEPT !.stack = Append(@, f)]
    BY <1>2 DEF Call, Stacked
  <2> HIDE DEF f
  <2>2. [s EXCEPT !.stack = Append(@, f)].cycle = s.cycle
    OBVIOUS
  <2> QED BY <2>1, <2>2
<1> QED BY <1>1, <1>2

(* A call that puts a table on the stack.                                   *)
LEMMA CallChains ==
  ASSUME NEW nodes, Graph(nodes), NEW s \in Sorting(DOMAIN nodes), ~ s.cycle, NEW t \in DOMAIN nodes,
         Chain(nodes, s), s.stack # <<>> => t \in ToSet(nodes[Last(s.stack).table]),
         ~ Call(nodes, s, t).cycle
  PROVE  Chain(nodes, Call(nodes, s, t))
<1> DEFINE N == DOMAIN nodes
           f == [table |-> t, left |-> nodes[t]]
<1>1. PICK r : r = Call(nodes, s, t)
  OBVIOUS
<1>2. r = s \/ r.stack = Append(s.stack, f)
  <2> DEFINE c == Call(nodes, s, t)
  <2>1. /\ c \in Sorting(DOMAIN nodes)
        /\ \/ c = s /\ t \in ToSet(s.ordered)
           \/ c.cycle
           \/ /\ t \notin ToSet(s.ordered) /\ t \notin Stacked(s)
              /\ c.ordered = s.ordered /\ c.roots = s.roots /\ c.cycle = FALSE
              /\ c.stack = Append(s.stack, f)
    BY CallCases
  <2> HIDE DEF f
  <2> QED BY <2>1, <1>1
<1>3. CASE r.stack = Append(s.stack, f)
  <2>1. PICK st : st = s.stack
    OBVIOUS
  <2>2. st \in Seq(Frames(N)) /\ Len(st) \in Nat
    BY <2>1 DEF Sorting
  <2>3. PICK n \in Nat : n = Len(st)
    BY <2>2
  <2>4. /\ DOMAIN st = 1..n /\ DOMAIN r.stack = 1..(n + 1)
        /\ r.stack[n + 1] = f /\ \A i \in 1..n : r.stack[i] = st[i]
    <3> HIDE DEF f
    <3> QED BY <2>1, <2>2, <2>3, <1>3
  <2>5. r.stack[n + 1].table = t /\ r.stack[n + 1].left = nodes[t]
    BY <2>4
  <2>6. ASSUME n # 0 PROVE t \in ToSet(nodes[st[n].table])
    <3>1. st # <<>>
      BY <2>3, <2>6
    <3>2. Last(st) = st[n]
      BY <2>3 DEF Last
    <3> QED BY <2>1, <3>1, <3>2
  <2> HIDE DEF f
  <2>7. ASSUME NEW i \in 1..(n + 1) PROVE ToSet(r.stack[i].left) \subseteq ToSet(nodes[r.stack[i].table])
    <3>1. CASE i \in 1..n
      BY <3>1, <2>1, <2>4 DEF Chain
    <3>2. CASE i = n + 1
      <4>1. r.stack[i].left = nodes[r.stack[i].table]
        BY <3>2, <2>5
      <4> QED BY <4>1
    <3> QED BY <3>1, <3>2
  <2>8. ASSUME NEW i \in 1..(n + 1), NEW j \in 1..(n + 1), j = i + 1
        PROVE  r.stack[j].table \in ToSet(nodes[r.stack[i].table])
    <3>1. i \in 1..n
      BY <2>8
    <3>2. CASE j \in 1..n
      BY <3>1, <3>2, <2>1, <2>4, <2>8 DEF Chain
    <3>3. CASE j = n + 1
      <4>1. i = n /\ n # 0
        BY <3>1, <3>3, <2>8
      <4>2. r.stack[i] = st[n]
        BY <4>1, <3>1, <2>4
      <4> QED BY <4>1, <4>2, <3>3, <2>5, <2>6
    <3> QED BY <3>2, <3>3
  <2>9. Chain(nodes, r)
    BY <2>4, <2>7, <2>8 DEF Chain
  <2> QED BY <2>9, <1>1
<1>4. CASE r = s
  BY <1>1, <1>4
<1> QED BY <1>2, <1>3, <1>4

(* A turn keeps the chain, and finds a cycle only where there is one.       *)
LEMMA TurnChains ==
  ASSUME NEW nodes, Graph(nodes), NEW s \in Sorting(DOMAIN nodes), ~ s.cycle, Chain(nodes, s)
  PROVE  IF Turn(nodes, s).cycle THEN Circle(nodes) ELSE Chain(nodes, Turn(nodes, s))
<1> DEFINE N == DOMAIN nodes
<1>1. PICK r : r = Turn(nodes, s)
  OBVIOUS
<1>2. \/ r = s
      \/ s.stack = <<>> /\ s.roots # <<>> /\ r = Call(nodes, RootTaken(s), Head(s.roots))
      \/ s.stack # <<>> /\ Last(s.stack).left = <<>> /\ r = FrameLeft(s)
      \/ /\ s.stack # <<>> /\ Last(s.stack).left # <<>>
         /\ r = Call(nodes, VisitTaken(s), Head(Last(s.stack).left))
  BY <1>1, TurnCases
<1>3. s.stack \in Seq(Frames(N)) /\ s.roots \in Seq(N)
  BY DEF Sorting
<1>4. CASE r = s
  BY <1>1, <1>4
<1>5. CASE s.stack = <<>> /\ s.roots # <<>> /\ r = Call(nodes, RootTaken(s), Head(s.roots))
  <2>1. PICK a : a = RootTaken(s)
    OBVIOUS
  <2>2. a \in Sorting(N) /\ a.stack = s.stack /\ a.cycle = s.cycle
    BY <2>1, <1>5, RootTakenIs
  <2>3. PICK t \in N : t = Head(s.roots)
    BY <1>3, <1>5, HeadTailElements
  <2>4. Stacked(a) = {} /\ Chain(nodes, a)
    BY <2>2, <1>5 DEF Stacked, Chain
  <2>5. r = Call(nodes, a, t)
    BY <1>5, <2>1, <2>3
  <2>6. ~ r.cycle
    BY <2>2, <2>4, <2>5, CallsCycle
  <2>7. Chain(nodes, r)
    BY <2>2, <2>4, <2>5, <2>6, <1>5, CallChains
  <2> QED BY <2>6, <2>7, <1>1
<1>6. CASE s.stack # <<>> /\ Last(s.stack).left = <<>> /\ r = FrameLeft(s)
  <2>1. r.stack = Front(s.stack) /\ r.cycle = s.cycle
    BY <1>6, FrameLeftIs
  <2>2. /\ Len(s.stack) \in Nat \ {0} /\ DOMAIN s.stack = 1..Len(s.stack)
        /\ DOMAIN Front(s.stack) = 1..(Len(s.stack) - 1)
        /\ \A i \in 1..(Len(s.stack) - 1) : Front(s.stack)[i] = s.stack[i]
    BY <1>3, <1>6, LastFront
  <2>3. \A i \in DOMAIN r.stack : i \in DOMAIN s.stack /\ r.stack[i] = s.stack[i]
    BY <2>1, <2>2
  <2>4. Chain(nodes, r)
    BY <2>3 DEF Chain
  <2> QED BY <2>1, <2>4, <1>1
<1>7. CASE s.stack # <<>> /\ Last(s.stack).left # <<>> /\ r = Call(nodes, VisitTaken(s), Head(Last(s.stack).left))
  <2>1. PICK a : a = VisitTaken(s)
    OBVIOUS
  <2>2. PICK n : n = Len(s.stack)
    OBVIOUS
  <2>3. /\ a \in Sorting(N) /\ a.cycle = s.cycle /\ n \in Nat \ {0}
        /\ DOMAIN s.stack = 1..n /\ DOMAIN a.stack = 1..n /\ Len(a.stack) = n
        /\ \A i \in 1..(n - 1) : a.stack[i] = s.stack[i]
        /\ a.stack[n].table = s.stack[n].table /\ a.stack[n].left = Tail(s.stack[n].left)
        /\ Last(s.stack) = s.stack[n]
    BY <2>1, <2>2, <1>7, VisitTakenIs
  <2>4. PICK l : l = s.stack[n].left
    OBVIOUS
  <2>5. l \in Seq(N) /\ l # <<>>
    <3>1. s.stack[n] \in Frames(N)
      BY <1>3, <2>3
    <3> QED BY <3>1, <2>3, <2>4, <1>7 DEF Frames
  <2>6. Head(l) \in N /\ ToSet(l) = {Head(l)} \cup ToSet(Tail(l))
    BY <2>5, HeadTailElements
  <2>7. PICK t \in N : t = Head(l)
    BY <2>6
  <2>8. \A i \in 1..n : a.stack[i].table = s.stack[i].table /\ ToSet(a.stack[i].left) \subseteq ToSet(s.stack[i].left)
    <3> SUFFICES ASSUME NEW i \in 1..n
                 PROVE  a.stack[i].table = s.stack[i].table /\ ToSet(a.stack[i].left) \subseteq ToSet(s.stack[i].left)
      OBVIOUS
    <3>1. CASE i = n
      <4>1. a.stack[i].left = Tail(l) /\ s.stack[i].left = l /\ a.stack[i].table = s.stack[i].table
        BY <3>1, <2>3, <2>4
      <4>2. ToSet(Tail(l)) \subseteq ToSet(l)
        BY <2>6
      <4> QED BY <4>1, <4>2
    <3>2. CASE i \in 1..(n - 1)
      <4>1. a.stack[i] = s.stack[i]
        BY <3>2, <2>3
      <4> QED BY <4>1
    <3> QED BY <3>1, <3>2, <2>3
  <2>9. Chain(nodes, a)
    BY <2>3, <2>8 DEF Chain
  <2>10. t \in ToSet(nodes[s.stack[n].table])
    <3>1. t \in ToSet(l) /\ n \in DOMAIN s.stack
      BY <2>3, <2>6, <2>7
    <3> QED BY <3>1, <2>4 DEF Chain
  <2>11. r = Call(nodes, a, t)
    BY <1>7, <2>1, <2>3, <2>4, <2>7
  <2>12. CASE r.cycle
    <3>1. t \in Stacked(a)
      BY <2>3, <2>11, <2>12, CallsCycle
    <3>2. PICK i \in 1..n : s.stack[i].table = t
      BY <3>1, <2>3, <2>8 DEF Stacked
    <3> DEFINE k == n - i + 1
               p == [j \in 0..k |-> IF j = k THEN t ELSE s.stack[i + j].table]
    <3>3. k \in Nat \ {0}
      BY <2>3
    <3>4. \A j \in 0..(k - 1) : i + j \in 1..n
      BY <2>3
    <3>5. \A j \in 1..n : s.stack[j].table \in N
      <4>1. \A j \in 1..n : s.stack[j] \in Frames(N)
        BY <1>3, <2>3
      <4> QED BY <4>1 DEF Frames
    <3>6. ASSUME NEW j \in 0..k PROVE p[j] \in N
      <4>1. j = k \/ j \in 0..(k - 1)
        BY <3>3
      <4> QED BY <4>1, <3>4, <3>5
    <3>7. p \in [0..k -> N]
      BY <3>6
    <3>8. p[0] = t /\ p[k] = t
      BY <3>2, <3>3, <2>3
    <3>9. ASSUME NEW j \in 0..(k - 1) PROVE p[j + 1] \in ToSet(nodes[p[j]])
      <4>1. j \in 0..k /\ j # k /\ j + 1 \in 0..k /\ i + j \in 1..n
        BY <3>3, <3>4
      <4>2. p[j] = s.stack[i + j].table
        BY <4>1
      <4>3. CASE j + 1 = k
        <5>1. i + j = n
          BY <4>3, <2>3
        <5>2. p[j + 1] = t
          BY <4>1, <4>3
        <5> HIDE DEF p
        <5> QED BY <5>1, <5>2, <4>2, <2>10
      <4>4. CASE j + 1 # k
        <5>1. j + 1 \in 0..(k - 1) /\ i + (j + 1) = (i + j) + 1
          BY <4>1, <4>4, <3>3
        <5>2. i + (j + 1) \in 1..n
          BY <5>1, <3>4
        <5>3. p[j + 1] = s.stack[i + (j + 1)].table
          BY <4>1, <4>4
        <5>4. s.stack[i + (j + 1)].table \in ToSet(nodes[s.stack[i + j].table])
          BY <5>1, <5>2, <4>1, <2>3 DEF Chain
        <5> HIDE DEF p
        <5> QED BY <5>3, <5>4, <4>2
      <4> QED BY <4>3, <4>4
    <3> HIDE DEF p, k
    <3>10. Circle(nodes)
      BY <3>3, <3>7, <3>8, <3>9 DEF Circle
    <3> QED BY <3>10, <2>12, <1>1
  <2>13. CASE ~ r.cycle
    <3>1. a.stack # <<>> /\ Last(a.stack).table = s.stack[n].table
      BY <2>3 DEF Last
    <3>2. Chain(nodes, r)
      BY <3>1, <2>3, <2>9, <2>10, <2>11, <2>13, CallChains
    <3> QED BY <3>2, <2>13, <1>1
  <2> QED BY <2>12, <2>13
<1> QED BY <1>2, <1>4, <1>5, <1>6, <1>7

(* A cycle is found only where tables refer to one another in a circle.     *)
LEMMA FoundIsThere ==
  ASSUME NEW nodes, Graph(nodes), NEW roots \in Seq(DOMAIN nodes), topologicalSort(nodes, roots).cycle
  PROVE  Circle(nodes)
<1> DEFINE N == DOMAIN nodes
           M == Turns(nodes, roots)
<1>1. PICK R \in SortsOf(nodes, roots) : topologicalSort(nodes, roots) = R[M]
  BY SortRun
<1>2. /\ R \in [0..M -> Sorting(N)] /\ R[0] = Begin(roots)
      /\ \A n \in 1..M : R[n] = Turn(nodes, R[n - 1])
  BY DEF SortsOf
<1>3. M \in Nat
  BY ToDoFinite DEF Turns
<1> HIDE DEF M
<1> DEFINE Fine(s) == IF s.cycle THEN Circle(nodes) ELSE Chain(nodes, s)
           P == { n \in Nat : n <= M => Fine(R[n]) }
<1>4. 0 \in P
  <2>1. PICK b : b = Begin(roots)
    OBVIOUS
  <2>2. b.stack = <<>> /\ b.cycle = FALSE
    BY <2>1 DEF Begin
  <2>3. Fine(b)
    BY <2>2 DEF Chain
  <2> HIDE DEF Fine
  <2> QED BY <2>1, <2>3, <1>2
<1>5. ASSUME NEW n \in Nat, n \in P PROVE n + 1 \in P
  <2> SUFFICES ASSUME n + 1 <= M PROVE Fine(R[n + 1])
    OBVIOUS
  <2>1. PICK s : s = R[n]
    OBVIOUS
  <2>2. s \in Sorting(N) /\ R[n + 1] = Turn(nodes, s) /\ Fine(s)
    <3>1. n \in 0..M /\ n + 1 \in 1..M /\ (n + 1) - 1 = n /\ n <= M
      BY <1>3
    <3>2. Fine(R[n])
      BY <1>5, <3>1
    <3> HIDE DEF Fine
    <3> QED BY <3>1, <3>2, <2>1, <1>2
  <2>3. PICK r : r = Turn(nodes, s)
    OBVIOUS
  <2>4. CASE s.cycle
    <3>1. Circle(nodes)
      BY <2>2, <2>4
    <3>2. Over(s)
      BY <2>4 DEF Over
    <3>3. r = s
      BY <3>2, <2>2, <2>3, TurnCases
    <3> QED BY <3>1, <3>3, <2>2, <2>3, <2>4
  <2>5. CASE ~ s.cycle
    <3>1. Fine(r)
      BY <2>2, <2>3, <2>5, TurnChains
    <3> HIDE DEF Fine
    <3> QED BY <3>1, <2>2, <2>3
  <2> QED BY <2>4, <2>5
<1>6. M \in P
  <2>1. Nat \subseteq P
    <3> HIDE DEF P
    <3> QED BY <1>4, <1>5, SetInduction
  <2> HIDE DEF P
  <2> QED BY <2>1, <1>3
<1> QED BY <1>1, <1>3, <1>6

(* Where tables refer to one another in a circle none is behind all it      *)
(* refers to.                                                               *)
LEMMA ThereIsFound ==
  ASSUME NEW nodes, Graph(nodes), NEW roots \in Seq(DOMAIN nodes), ToSet(roots) = DOMAIN nodes, Circle(nodes)
  PROVE  topologicalSort(nodes, roots).cycle
<1> SUFFICES ASSUME ~ topologicalSort(nodes, roots).cycle PROVE FALSE
  OBVIOUS
<1>1. PICK o : o = topologicalSort(nodes, roots).ordered
  OBVIOUS
<1>2. /\ o \in Seq(DOMAIN nodes) /\ \A x : ~ Before(o, x, x)
      /\ \A t \in DOMAIN nodes : \A u \in ToSet(nodes[t]) : Before(o, u, t)
  BY <1>1, SortResult
<1>0. PICK k \in Nat \ {0} : \E p \in [0..k -> DOMAIN nodes] :
          p[0] = p[k] /\ \A i \in 0..(k - 1) : p[i + 1] \in ToSet(nodes[p[i]])
  BY DEF Circle
<1>3. PICK p \in [0..k -> DOMAIN nodes] :
          p[0] = p[k] /\ \A i \in 0..(k - 1) : p[i + 1] \in ToSet(nodes[p[i]])
  BY <1>0
<1>4. ASSUME NEW x, NEW y, NEW z, Before(o, x, y), Before(o, y, z) PROVE Before(o, x, z)
  <2>1. \A i \in DOMAIN o : i \in Int
    BY <1>2
  <2>2. PICK i \in DOMAIN o, j \in DOMAIN o : i < j /\ o[i] = x /\ o[j] = y
    BY <1>4 DEF Before
  <2>3. PICK l \in DOMAIN o, m \in DOMAIN o : l < m /\ o[l] = y /\ o[m] = z
    BY <1>4 DEF Before
  <2>4. j = l
    <3>1. ~ (j < l) /\ ~ (l < j)
      BY <1>2, <2>2, <2>3 DEF Before
    <3> QED BY <3>1, <2>1
  <2>5. i < m
    BY <2>1, <2>2, <2>3, <2>4
  <2> QED BY <2>2, <2>3, <2>5 DEF Before
<1> DEFINE P == { n \in Nat : n + 1 <= k => Before(o, p[n + 1], p[0]) }
<1>5. 0 \in P
  <2>1. 0 \in 0..(k - 1) /\ p[0] \in DOMAIN nodes /\ 0 + 1 = 1
    BY <1>3
  <2>2. p[0 + 1] \in ToSet(nodes[p[0]])
    BY <1>3, <2>1
  <2> QED BY <2>1, <2>2, <1>2
<1>6. ASSUME NEW n \in Nat, n \in P PROVE n + 1 \in P
  <2> SUFFICES ASSUME (n + 1) + 1 <= k PROVE Before(o, p[(n + 1) + 1], p[0])
    OBVIOUS
  <2>1. n + 1 <= k /\ n + 1 \in 0..(k - 1) /\ n + 1 \in 0..k
    BY <1>3
  <2>2. Before(o, p[n + 1], p[0])
    BY <1>6, <2>1
  <2>3. Before(o, p[(n + 1) + 1], p[n + 1])
    BY <1>2, <1>3, <2>1
  <2> QED BY <1>4, <2>2, <2>3
<1>7. k - 1 \in P
  <2>1. Nat \subseteq P
    <3> HIDE DEF P
    <3> QED BY <1>5, <1>6, SetInduction
  <2>2. k - 1 \in Nat
    BY <1>3
  <2> HIDE DEF P
  <2> QED BY <2>1, <2>2
<1>8. Before(o, p[k], p[0])
  <2>1. (k - 1) + 1 = k /\ k - 1 \in Nat /\ k <= k
    BY <1>3
  <2> QED BY <2>1, <1>7
<1> QED BY <1>2, <1>3, <1>8

-----------------------------------------------------------------------------
(* The orders of a contract's tables.                                       *)

(* A list is one over any set that has its elements.                        *)
LEMMA ListOver ==
  ASSUME NEW S, NEW s \in Seq(S), NEW T, ToSet(s) \subseteq T
  PROVE  s \in Seq(T)
<1>1. Len(s) \in Nat /\ s = [i \in 1..Len(s) |-> s[i]] /\ DOMAIN s = 1..Len(s)
  OBVIOUS
<1>2. \A i \in 1..Len(s) : s[i] \in T
  BY <1>1 DEF ToSet
<1>3. [i \in 1..Len(s) |-> s[i]] \in Seq(T)
  BY <1>1, <1>2
<1> QED BY <1>1, <1>3

(* A list in which nothing stands twice is as long as the set of its        *)
(* elements is large.                                                       *)
LEMMA ListSize ==
  ASSUME NEW S, NEW s \in Seq(S), \A x : ~ Before(s, x, x)
  PROVE  Cardinality(ToSet(s)) = Len(s)
<1>1. Len(s) \in Nat /\ DOMAIN s = 1..Len(s) /\ \A i \in DOMAIN s : i \in Int
  OBVIOUS
<1>2. \A i, j \in 1..Len(s) : s[i] = s[j] => i = j
  <2>1. ASSUME NEW i \in 1..Len(s), NEW j \in 1..Len(s), s[i] = s[j], i < j PROVE FALSE
    BY <2>1, <1>1 DEF Before
  <2> QED BY <2>1, <1>1
<1>3. s \in Bijection(1..Len(s), ToSet(s))
  <2>1. s \in [1..Len(s) -> ToSet(s)]
    <3>1. s = [i \in 1..Len(s) |-> s[i]]
      BY <1>1
    <3>2. \A i \in 1..Len(s) : s[i] \in ToSet(s)
      BY <1>1 DEF ToSet
    <3> QED BY <3>1, <3>2
  <2>2. \A x \in ToSet(s) : \E i \in 1..Len(s) : s[i] = x
    BY <1>1 DEF ToSet
  <2> QED BY <2>1, <2>2, <1>2 DEF Bijection, Injection, Surjection, IsInjective
<1>4. IsFiniteSet(1..Len(s)) /\ Cardinality(1..Len(s)) = Len(s)
  <2>1. PICK n \in Nat : n = Len(s)
    BY <1>1
  <2>2. 1 \in Int /\ n \in Int
    OBVIOUS
  <2>3. IsFiniteSet(1..n) /\ Cardinality(1..n) = IF 1 > n THEN 0 ELSE n - 1 + 1
    BY <2>2, FS_Interval
  <2>4. Cardinality(1..n) = n
    BY <2>3
  <2> QED BY <2>1, <2>3, <2>4
<1>5. ExistsBijection(1..Len(s), ToSet(s))
  BY <1>3 DEF ExistsBijection
<1> QED BY <1>4, <1>5, FS_Bijection

(* What stands before something has the smaller position, where nothing     *)
(* stands twice.                                                            *)
LEMMA PositionOf ==
  ASSUME NEW S, NEW s \in Seq(S), \A x : ~ Before(s, x, x), NEW x, NEW y, Before(s, x, y)
  PROVE  Position(s, x) < Position(s, y)
<1>1. PICK i \in DOMAIN s, j \in DOMAIN s : i < j /\ s[i] = x /\ s[j] = y
  BY DEF Before
<1>2. \A k \in DOMAIN s : k \in Int
  OBVIOUS
<1>3. \A k, l \in DOMAIN s : s[k] = s[l] => k = l
  <2>1. ASSUME NEW k \in DOMAIN s, NEW l \in DOMAIN s, s[k] = s[l], k < l PROVE FALSE
    BY <2>1 DEF Before
  <2> QED BY <2>1, <1>2
<1>4. Position(s, x) = i
  BY <1>1, <1>3 DEF Position
<1>5. Position(s, y) = j
  BY <1>1, <1>3 DEF Position
<1> QED BY <1>1, <1>4, <1>5

(* A contract whose tables are made of lists.                               *)
List(s) == s \in Seq(ToSet(s))
MadeOfLists(t) == List(t.columns) /\ List(t.primaryKeys) /\ List(t.foreignKeys)
WellFormed(contract) ==
    /\ \E n \in Nat : DOMAIN contract = 1..n
    /\ \A i \in DOMAIN contract : MadeOfLists(contract[i].table)
OneName(contract) ==
    \A i, j \in DOMAIN contract : contract[i].table.name = contract[j].table.name => i = j

(* In a contract without two tables of a name, a name gives its table.      *)
LEMMA TableNamedIs ==
  ASSUME NEW contract, WellFormed(contract), OneName(contract), NEW i \in DOMAIN contract
  PROVE  TableNamed(contract, contract[i].table.name) = contract[i].table
<1> DEFINE places == { j \in DOMAIN contract : contract[j].table.name = contract[i].table.name }
<1>1. places = {i} /\ i \in Int
  BY DEF OneName, WellFormed
<1>2. (CHOOSE p \in places : \A q \in places : q <= p) = i
  <2> HIDE DEF places
  <2> QED BY <1>1
<1> QED BY <1>2 DEF TableNamed

(* The graph of such a contract: the tables a table refers to inside it.    *)
LEMMA GraphOf ==
  ASSUME NEW contract, WellFormed(contract), OneName(contract)
  PROVE  LET nodes == buildGraph(contract)
         IN  /\ DOMAIN nodes = Names(contract) /\ Graph(nodes)
             /\ \A i \in DOMAIN contract : \A f \in ToSet(contract[i].table.foreignKeys) :
                   f.to \in Names(contract) \ {contract[i].table.name} =>
                       f.to \in ToSet(nodes[contract[i].table.name])
<1> DEFINE N == Names(contract)
           Keys(t) == TableNamed(contract, t).foreignKeys
           Ends(t) == [i \in DOMAIN Keys(t) |-> Keys(t)[i].to]
           nodes == buildGraph(contract)
<1>1. DOMAIN nodes = N /\ \A t \in N : nodes[t] = Keep(Ends(t), N \ {t})
  BY DEF buildGraph
<1>2. \A t \in N : \E i \in DOMAIN contract : t = contract[i].table.name /\ Keys(t) = contract[i].table.foreignKeys
  BY TableNamedIs DEF Names
<1>3. ASSUME NEW t \in N
      PROVE  /\ nodes[t] \in Seq(N) /\ DOMAIN Keys(t) = 1..Len(Keys(t)) 
             /\ \A i \in DOMAIN Keys(t) : Keys(t)[i].to \in N \ {t} => Keys(t)[i].to \in ToSet(nodes[t])
  <2> DEFINE S == { Keys(t)[i].to : i \in DOMAIN Keys(t) }
  <2>1. Keys(t) \in Seq(ToSet(Keys(t)))
    BY <1>2 DEF WellFormed, MadeOfLists, List
  <2>2. DOMAIN Keys(t) = 1..Len(Keys(t)) /\ Len(Keys(t)) \in Nat
    BY <2>1
  <2>3. Ends(t) \in Seq(S) /\ DOMAIN Ends(t) = 1..Len(Keys(t)) /\ \A i \in DOMAIN Keys(t) : Ends(t)[i] = Keys(t)[i].to
    BY <2>2
  <2>4. PICK e : e = Ends(t)
    OBVIOUS
  <2>5. Keep(e, N \ {t}) \in Seq(S) /\ ToSet(Keep(e, N \ {t})) = ToSet(e) \cap (N \ {t})
    <3> HIDE DEF S
    <3> QED BY <2>3, <2>4, KeepElements
  <2>6. Keep(e, N \ {t}) \in Seq(N)
    <3>1. ToSet(Keep(e, N \ {t})) \subseteq N
      BY <2>5
    <3> HIDE DEF S
    <3> QED BY <3>1, <2>5, ListOver
  <2>7. nodes[t] = Keep(e, N \ {t})
    BY <1>1, <2>4
  <2>8. \A i \in DOMAIN Keys(t) : Keys(t)[i].to \in ToSet(e)
    <3> HIDE DEF Keys
    <3> QED BY <2>2, <2>3, <2>4 DEF ToSet
  <2> HIDE DEF nodes, N, Ends, S
  <2> QED BY <2>2, <2>5, <2>6, <2>7, <2>8
<1>4. IsFiniteSet(N)
  <2>1. PICK n \in Nat : DOMAIN contract = 1..n
    BY DEF WellFormed
  <2> DEFINE f == [i \in 1..n |-> contract[i].table.name]
  <2>2. f \in Surjection(1..n, N)
    BY <2>1 DEF Surjection, Names
  <2>3. IsFiniteSet(1..n)
    <3>1. 1 \in Int /\ n \in Int
      OBVIOUS
    <3> QED BY <3>1, FS_Interval
  <2> HIDE DEF f, N
  <2> QED BY <2>2, <2>3, FS_Surjection
<1>5. Graph(nodes)
  <2> HIDE DEF nodes, N
  <2> QED BY <1>1, <1>3, <1>4 DEF Graph
<1>6. ASSUME NEW i \in DOMAIN contract, NEW f \in ToSet(contract[i].table.foreignKeys),
             f.to \in Names(contract) \ {contract[i].table.name}
      PROVE  f.to \in ToSet(nodes[contract[i].table.name])
  <2> DEFINE t == contract[i].table.name
  <2>1. t \in N /\ Keys(t) = contract[i].table.foreignKeys
    BY TableNamedIs DEF Names
  <2>2. PICK k \in DOMAIN Keys(t) : f = Keys(t)[k]
    BY <2>1 DEF ToSet
  <2> HIDE DEF nodes, Keys
  <2> QED BY <1>3, <1>6, <2>1, <2>2
<1> QED BY <1>1, <1>5, <1>6

(* The order is right where nothing is thrown. The outer loop goes over the *)
(* names of the contract.                                                   *)
LEMMA RootsOf ==
  ASSUME NEW contract, WellFormed(contract)
  PROVE  LET roots == [i \in DOMAIN contract |-> contract[i].table.name]
         IN  roots \in Seq(Names(contract)) /\ ToSet(roots) = Names(contract)
<1> DEFINE roots == [i \in DOMAIN contract |-> contract[i].table.name]
<1>1. PICK n \in Nat : DOMAIN contract = 1..n
  BY DEF WellFormed
<1>2. \A i \in 1..n : contract[i].table.name \in Names(contract)
  BY <1>1 DEF Names
<1>3. roots = [i \in 1..n |-> contract[i].table.name] /\ DOMAIN roots = 1..n
  BY <1>1
<1>4. roots \in Seq(Names(contract))
  BY <1>2, <1>3
<1>5. ToSet(roots) = Names(contract)
  BY <1>1, <1>3 DEF ToSet, Names
<1> QED BY <1>4, <1>5

(* computeSyncTableOrder for any contract of tables with names of their     *)
(* own: where it does not throw, its two lists order the tables (fk-        *)
(* order.ts:100).                                                           *)
THEOREM OrderIsRight ==
  ASSUME NEW contract, WellFormed(contract), OneName(contract), computeSyncTableOrder(contract).throws = "nothing"
  PROVE  OrdersTables([upsertOrder |-> computeSyncTableOrder(contract).upsertOrder,
                       deleteOrder |-> computeSyncTableOrder(contract).deleteOrder], contract)
<1> DEFINE nodes == buildGraph(contract)
           roots == [i \in DOMAIN contract |-> contract[i].table.name]
           sorted == topologicalSort(nodes, roots)
           order == computeSyncTableOrder(contract)
<1>1. ~ sorted.cycle /\ order.upsertOrder = sorted.ordered /\ order.deleteOrder = Reverse(sorted.ordered)
  <2>1. order = IF ExternalReference(contract) THEN [throws |-> "external", upsertOrder |-> <<>>, deleteOrder |-> <<>>]
                ELSE IF sorted.cycle THEN [throws |-> "cycle", upsertOrder |-> <<>>, deleteOrder |-> <<>>]
                ELSE [throws |-> "nothing", upsertOrder |-> sorted.ordered, deleteOrder |-> Reverse(sorted.ordered)]
    BY DEF computeSyncTableOrder
  <2> HIDE DEF sorted
  <2> QED BY <2>1
<1>2. /\ DOMAIN nodes = Names(contract) /\ Graph(nodes)
      /\ \A i \in DOMAIN contract : \A f \in ToSet(contract[i].table.foreignKeys) :
            f.to \in Names(contract) \ {contract[i].table.name} => f.to \in ToSet(nodes[contract[i].table.name])
  BY GraphOf
<1>3. roots \in Seq(Names(contract)) /\ ToSet(roots) = Names(contract)
  BY RootsOf
<1> HIDE DEF nodes, roots
<1>4. LET o == sorted.ordered
      IN  /\ o \in Seq(DOMAIN nodes) /\ ToSet(o) = DOMAIN nodes
          /\ \A x : ~ Before(o, x, x)
          /\ \A t \in DOMAIN nodes : \A u \in ToSet(nodes[t]) : Before(o, u, t)
  BY <1>1, <1>2, <1>3, SortResult
<1>5. PICK o : o = sorted.ordered
  OBVIOUS
<1>6. /\ o \in Seq(Names(contract)) /\ ToSet(o) = Names(contract) /\ \A x : ~ Before(o, x, x)
      /\ \A t \in Names(contract) : \A u \in ToSet(nodes[t]) : Before(o, u, t)
  BY <1>2, <1>4, <1>5
<1>7. Len(o) = Cardinality(Names(contract))
  BY <1>6, ListSize
<1>8. ASSUME NEW i \in DOMAIN contract, NEW f \in ToSet(contract[i].table.foreignKeys),
             f.to \in Names(contract) \ {contract[i].table.name}
      PROVE  Position(o, f.to) < Position(o, contract[i].table.name)
  <2>1. contract[i].table.name \in Names(contract)
    BY DEF Names
  <2>2. Before(o, f.to, contract[i].table.name)
    BY <1>2, <1>6, <1>8, <2>1
  <2> QED BY <1>6, <2>2, PositionOf
<1>9. order.upsertOrder = o /\ order.deleteOrder = Reverse(o)
  BY <1>1, <1>5
<1> HIDE DEF order
<1>10. OrdersTables([upsertOrder |-> order.upsertOrder, deleteOrder |-> order.deleteOrder], contract)
  BY <1>6, <1>7, <1>8, <1>9 DEF OrdersTables
<1> QED BY <1>10 DEF order

(* computeSyncTableOrder for any such contract: it throws for a cycle       *)
(* exactly when nothing outside is referred to by necessity and the tables  *)
(* refer to one another in a circle (fk-order.ts:100).                      *)
THEOREM CyclesAreThere ==
  ASSUME NEW contract, WellFormed(contract), OneName(contract)
  PROVE  computeSyncTableOrder(contract).throws = "cycle" <=>
            ~ ExternalReference(contract) /\ Circle(buildGraph(contract))
<1> DEFINE nodes == buildGraph(contract)
           roots == [i \in DOMAIN contract |-> contract[i].table.name]
           sorted == topologicalSort(nodes, roots)
<1>1. computeSyncTableOrder(contract).throws = "cycle" <=> ~ ExternalReference(contract) /\ sorted.cycle
  <2>1. computeSyncTableOrder(contract) =
          IF ExternalReference(contract) THEN [throws |-> "external", upsertOrder |-> <<>>, deleteOrder |-> <<>>]
          ELSE IF sorted.cycle THEN [throws |-> "cycle", upsertOrder |-> <<>>, deleteOrder |-> <<>>]
          ELSE [throws |-> "nothing", upsertOrder |-> sorted.ordered, deleteOrder |-> Reverse(sorted.ordered)]
    BY DEF computeSyncTableOrder
  <2> HIDE DEF sorted
  <2> QED BY <2>1
<1>2. Graph(nodes) /\ DOMAIN nodes = Names(contract)
  BY GraphOf
<1>3. roots \in Seq(Names(contract)) /\ ToSet(roots) = Names(contract)
  BY RootsOf
<1> HIDE DEF nodes, roots
<1>4. sorted.cycle <=> Circle(nodes)
  BY <1>2, <1>3, FoundIsThere, ThereIsFound
<1> QED BY <1>1, <1>4 DEF nodes

-----------------------------------------------------------------------------
(* The rules: what they let through.                                        *)

(* The diagnostics have no error.                                           *)
Clean(contract, paired) == "error" \notin Severities(runDiagnostics(contract, paired))

(* What is reported of a table.                                             *)
Reported(contract, paired, i) ==
    LET def == contract[i]
        t == def.table
        api == { p[2] : p \in { q \in paired : q[1] = t.name } }
    IN  UNION { checkMissingPrimaryKey(t), checkUnsupportedPrimaryKey(t),
                checkMissingScopeColumn(def), checkMissingDeletedAt(t),
                checkMissingRowStateColumns(t), checkMissingSyncUpdatedAt(def),
                checkMissingLocalIsSynced(def), checkUnsupportedColumnType(t),
                checkDuplicateFieldName(t), checkReservedFieldReused(t),
                checkNullableScopeColumn(def), checkBatteriesIncludedNot1To1(def),
                checkLargeTextField(t), checkJsonOnlyField(t),
                checkMissingScopeWatermark(def, IF api = {} THEN t ELSE CHOOSE a \in api : TRUE),
                checkBatteriesIncludedComplexMapping(def) }

(* What is no error in all the diagnostics is none in those of any rule.    *)
LEMMA RulesHold ==
  ASSUME NEW contract, NEW paired, Clean(contract, paired)
  PROVE  /\ \A d \in checkDuplicateTableName(contract) : d.severity # "error"
         /\ \A d \in checkFkCycleAndExternalFk(contract) : d.severity # "error"
         /\ \A i \in DOMAIN contract :
              LET def == contract[i]
                  t == def.table
              IN  \A d \in UNION { checkMissingPrimaryKey(t), checkUnsupportedPrimaryKey(t),
                                   checkMissingScopeColumn(def), checkMissingDeletedAt(t),
                                   checkMissingRowStateColumns(t), checkMissingLocalIsSynced(def),
                                   checkDuplicateFieldName(t), checkReservedFieldReused(t) } :
                     d.severity # "error"
<1>1. \A d \in runDiagnostics(contract, paired) : d.severity # "error"
  BY DEF Clean, Severities
<1>2. runDiagnostics(contract, paired) =
        checkDuplicateTableName(contract) \cup checkFkCycleAndExternalFk(contract)
          \cup UNION { Reported(contract, paired, i) : i \in DOMAIN contract }
  BY DEF runDiagnostics, Reported
<1>3. ASSUME NEW i \in DOMAIN contract
      PROVE  LET def == contract[i]
                 t == def.table
             IN  UNION { checkMissingPrimaryKey(t), checkUnsupportedPrimaryKey(t),
                         checkMissingScopeColumn(def), checkMissingDeletedAt(t),
                         checkMissingRowStateColumns(t), checkMissingLocalIsSynced(def),
                         checkDuplicateFieldName(t), checkReservedFieldReused(t) }
                 \subseteq Reported(contract, paired, i)
  BY DEF Reported
<1> QED BY <1>1, <1>2, <1>3

(* A rule that reports no error is not broken.                              *)
LEMMA NotBroken ==
  ASSUME NEW broken \in BOOLEAN, NEW code, NEW table, \A d \in Report(broken, "error", code, table) : d.severity # "error"
  PROVE  ~ broken
<1>1. broken => [severity |-> "error", code |-> code, table |-> table] \in Report(broken, "error", code, table)
  BY DEF Report
<1> QED BY <1>1

(* The case conversions agree with one another on the names of the table.   *)
LEMMA CaseRules ==
  /\ \A s : snakeToCamel(snakeToCamel(s)) = snakeToCamel(s)
  /\ \A s : snakeToCamel(camelToSnake(s)) = snakeToCamel(s)
  /\ camelToSnake("isSynced") = "is_synced"
<1>1. \A p, q \in CaseTable : (p[1] = q[1] <=> p[2] = q[2]) /\ p[1] # q[2]
  BY DEF CaseTable
<1>2. ASSUME NEW p \in CaseTable PROVE snakeToCamel(p[1]) = p[2] /\ camelToSnake(p[2]) = p[1] /\ snakeToCamel(p[2]) = p[2]
  <2>1. PICK q : q = CHOOSE x \in CaseTable : x[1] = p[1]
    OBVIOUS
  <2>2. q \in CaseTable /\ q[1] = p[1]
    BY <2>1
  <2>3. PICK r : r = CHOOSE x \in CaseTable : x[2] = p[2]
    OBVIOUS
  <2>4. r \in CaseTable /\ r[2] = p[2]
    BY <2>3
  <2>5. snakeToCamel(p[1]) = q[2]
    BY <2>1 DEF snakeToCamel
  <2>6. camelToSnake(p[2]) = r[1]
    BY <2>3 DEF camelToSnake
  <2>7. snakeToCamel(p[2]) = p[2]
    BY <1>1 DEF snakeToCamel
  <2> QED BY <1>1, <2>2, <2>4, <2>5, <2>6, <2>7
<1>3. \A s : (\E p \in CaseTable : p[1] = s) \/ snakeToCamel(s) = s
  BY DEF snakeToCamel
<1>4. \A s : (\E p \in CaseTable : p[2] = s) \/ camelToSnake(s) = s
  BY DEF camelToSnake
<1>5. <<"is_synced", "isSynced">> \in CaseTable
  BY DEF CaseTable
<1>6. camelToSnake("isSynced") = "is_synced"
  BY <1>2, <1>5
<1>7. ASSUME NEW s PROVE snakeToCamel(snakeToCamel(s)) = snakeToCamel(s)
  BY <1>2, <1>3
<1>8. ASSUME NEW s PROVE snakeToCamel(camelToSnake(s)) = snakeToCamel(s)
  BY <1>2, <1>4
<1> QED BY <1>6, <1>7, <1>8

(* What is found among the columns is one of them that passes.              *)
LEMMA FoundColumn ==
  ASSUME NEW t, List(t.columns), NEW passing, FindColumn(t, passing) # NoColumn
  PROVE  FindColumn(t, passing) \in ColumnsOf(t) /\ FindColumn(t, passing) \in passing
<1>1. PICK k : k = Keep(t.columns, passing)
  OBVIOUS
<1>2. k \in Seq(ToSet(t.columns)) /\ ToSet(k) = ToSet(t.columns) \cap passing
  BY <1>1, KeepElements DEF List
<1>3. FindColumn(t, passing) = Head(k) /\ k # <<>>
  BY <1>1 DEF FindColumn
<1>4. Head(k) \in ToSet(k)
  BY <1>2, <1>3, HeadTailElements
<1>5. ColumnsOf(t) = ToSet(t.columns)
  BY DEF ColumnsOf, ToSet
<1> QED BY <1>2, <1>3, <1>4, <1>5

(* A table with which no rule finds an error has the text key "id", alone   *)
(* but for several columns each declared a key, the scope column and the    *)
(* row's times, of their types and once each, and is_synced, a number,      *)
(* unless its contract declares it local-only, as every paired one does by  *)
(* default (diagnostics.ts, generator/index.ts:127).                        *)
THEOREM TableIsSyncable ==
  ASSUME NEW contract, NEW pairs, Clean(contract, pairs), NEW i \in DOMAIN contract,
         MadeOfLists(contract[i].table), validateAndExtractTableMeta(contract[i])
  PROVE  SyncableTable(contract[i])
<1> DEFINE def == contract[i]
           t == def.table
<1>0. /\ \A d \in checkMissingPrimaryKey(t) : d.severity # "error"
      /\ \A d \in checkUnsupportedPrimaryKey(t) : d.severity # "error"
      /\ \A d \in checkMissingScopeColumn(def) : d.severity # "error"
      /\ \A d \in checkMissingDeletedAt(t) : d.severity # "error"
      /\ \A d \in checkMissingRowStateColumns(t) : d.severity # "error"
      /\ \A d \in checkMissingLocalIsSynced(def) : d.severity # "error"
      /\ \A d \in checkDuplicateFieldName(t) : d.severity # "error"
      /\ \A d \in checkReservedFieldReused(t) : d.severity # "error"
  <2>1. \A d \in UNION { checkMissingPrimaryKey(t), checkUnsupportedPrimaryKey(t),
                         checkMissingScopeColumn(def), checkMissingDeletedAt(t),
                         checkMissingRowStateColumns(t), checkMissingLocalIsSynced(def),
                         checkDuplicateFieldName(t), checkReservedFieldReused(t) } :
            d.severity # "error"
    BY RulesHold
  <2> QED BY <2>1
<1> HIDE DEF def, t
<1>1. ~ (PrimaryColumns(t) = {} /\ t.primaryKeys = <<>>)
  BY <1>0, NotBroken DEF checkMissingPrimaryKey
<1> DEFINE Unsupported(c) == c.columnType # "SQLiteText" \/ c.name # "id"
<1>2. /\ ~ (Len(t.primaryKeys) > 1)
      /\ Len(t.primaryKeys) = 1 => ~ Unsupported(FindColumn(t, ColumnsNamed(t, {t.primaryKeys[1]})))
      /\ \A k \in PrimaryColumns(t) : PrimaryColumns(t) = {k} => t.columns[k].name = "id"
  <2> DEFINE broken == \/ Len(t.primaryKeys) > 1
                       \/ \E k \in PrimaryColumns(t) : PrimaryColumns(t) = {k} /\ Unsupported(t.columns[k])
                       \/ Len(t.primaryKeys) = 1 /\ Unsupported(FindColumn(t, ColumnsNamed(t, {t.primaryKeys[1]})))
  <2>1. checkUnsupportedPrimaryKey(t) = Report(broken, "error", "UNSUPPORTED_PRIMARY_KEY", t.name)
    BY DEF checkUnsupportedPrimaryKey
  <2>2. broken \in BOOLEAN
    OBVIOUS
  <2>3. ~ broken
    <3> HIDE DEF broken
    <3> QED BY <2>1, <2>2, <1>0, NotBroken
  <2> QED BY <2>3
<1>3. Spellings(def.scope.field) \cap getColumnNames(t) # {}
  BY <1>0, NotBroken DEF checkMissingScopeColumn, t
<1>4. "deleted_at" \in getColumnNames(t)
  BY <1>0, NotBroken DEF checkMissingDeletedAt
<1>5. {"created_at", "updated_at"} \subseteq getColumnNames(t)
  BY <1>0, NotBroken DEF checkMissingRowStateColumns
<1>6. ~ ("is_synced" \notin getColumnNames(t) /\ def.localOnlyColumns \cap {"is_synced", "isSynced"} = {})
  BY <1>0, NotBroken DEF checkMissingLocalIsSynced, t
<1>7. ~ \E p, q \in DOMAIN t.columns : p # q /\ t.columns[p].name = t.columns[q].name
  BY <1>0, NotBroken DEF checkDuplicateFieldName
<1>8. ~ \E c \in ColumnsOf(t) : c.name \in DOMAIN RESERVED_FIELDS /\ c.columnType \notin RESERVED_FIELDS[c.name]
  BY <1>0, NotBroken DEF checkReservedFieldReused
<1> DEFINE Has(name, type) == \E c \in ColumnsOf(t) : c.name = name /\ c.columnType = type
<1>9. ASSUME NEW name \in {"id", "created_at", "updated_at", "deleted_at"}, name \in getColumnNames(t)
      PROVE  Has(name, "SQLiteText")
  <2>1. PICK c \in ColumnsOf(t) : c.name = name
    BY <1>9 DEF getColumnNames
  <2>2. name \in DOMAIN RESERVED_FIELDS /\ RESERVED_FIELDS[name] = {"SQLiteText"}
    BY DEF RESERVED_FIELDS
  <2> QED BY <2>1, <2>2, <1>8
<1>10. List(t.columns) /\ List(t.primaryKeys)
  BY DEF MadeOfLists, t, def
<1>11. KeyIsTextId(t)
  <2>1. CASE t.primaryKeys = <<>>
    <3>1. "id" \in getColumnNames(t)
      BY <2>1 DEF validateAndExtractTableMeta, t, def
    <3>2. Has("id", "SQLiteText")
      BY <3>1, <1>9
    <3> QED BY <1>1, <1>2, <2>1, <3>2 DEF KeyIsTextId
  <2>2. CASE t.primaryKeys # <<>>
    <3>1. Len(t.primaryKeys) \in Nat /\ Len(t.primaryKeys) = 1
      <4>1. PICK ks : ks = t.primaryKeys
        OBVIOUS
      <4>2. ks \in Seq(ToSet(ks)) /\ ks # <<>> /\ ~ (Len(ks) > 1)
        BY <4>1, <2>2, <1>2, <1>10 DEF List
      <4>3. Len(ks) \in Nat \ {0}
        BY <4>2, HeadTailElements
      <4>4. PICK n \in Nat \ {0} : n = Len(ks)
        BY <4>3
      <4>5. ~ (n > 1)
        BY <4>2, <4>4
      <4>6. n = 1
        BY <4>5
      <4> QED BY <4>1, <4>4, <4>6
    <3> DEFINE c == FindColumn(t, ColumnsNamed(t, {t.primaryKeys[1]}))
    <3>2. c.columnType = "SQLiteText" /\ c.name = "id"
      BY <3>1, <1>2
    <3>3. c # NoColumn
      <4>1. NoColumn.name = ""
        BY DEF NoColumn
      <4>2. "" # "id"
        OBVIOUS
      <4> HIDE DEF c
      <4>3. c = NoColumn => c.name = ""
        BY <4>1
      <4> QED BY <4>2, <4>3, <3>2
    <3>4. c \in ColumnsOf(t) /\ c \in ColumnsNamed(t, {t.primaryKeys[1]})
      BY <3>3, <1>10, FoundColumn
    <3>5. t.primaryKeys[1] = "id"
      BY <3>2, <3>4 DEF ColumnsNamed
    <3>6. t.primaryKeys = <<"id">>
      <4>1. t.primaryKeys = <<t.primaryKeys[1]>>
        BY <3>1, <1>10 DEF List
      <4> QED BY <4>1, <3>5
    <3> HIDE DEF c
    <3> QED BY <1>2, <3>2, <3>4, <3>6 DEF KeyIsTextId
  <2> QED BY <2>1, <2>2
<1>12. \A name \in {"created_at", "updated_at", "deleted_at"} : Has(name, "SQLiteText")
  <2> HIDE DEF Has
  <2> QED BY <1>4, <1>5, <1>9
<1>13. \A c \in ColumnsOf(t) : c.name = "is_synced" => c.columnType \in {"SQLiteInteger", "SQLiteBoolean"}
  <2>1. "is_synced" \in DOMAIN RESERVED_FIELDS /\ RESERVED_FIELDS["is_synced"] = {"SQLiteInteger", "SQLiteBoolean"}
    BY DEF RESERVED_FIELDS
  <2> QED BY <1>8, <2>1
<1>14. \E c \in ColumnsOf(t) : snakeToCamel(c.name) = snakeToCamel(def.scope.field)
  <2>1. PICK c \in ColumnsOf(t) : c.name \in Spellings(def.scope.field)
    BY <1>3 DEF getColumnNames
  <2> QED BY <2>1, CaseRules DEF Spellings
<1>15. Cardinality(getColumnNames(t)) = Len(t.columns)
  <2>1. PICK n \in Nat : n = Len(t.columns) /\ DOMAIN t.columns = 1..n
    BY <1>10 DEF List
  <2> DEFINE S == getColumnNames(t)
             ns == [k \in 1..n |-> t.columns[k].name]
  <2>2. \A k \in 1..n : t.columns[k].name \in S
    BY <2>1 DEF getColumnNames, ColumnsOf
  <2>3. ns \in Seq(S) /\ Len(ns) = n /\ DOMAIN ns = 1..n
    <3> HIDE DEF S
    <3> QED BY <2>2
  <2>4. ToSet(ns) = S
    BY <2>1, <2>3 DEF ToSet, getColumnNames, ColumnsOf
  <2>5. \A x : ~ Before(ns, x, x)
    <3>1. ASSUME NEW x, Before(ns, x, x) PROVE FALSE
      <4>1. PICK k \in 1..n, l \in 1..n : k < l /\ ns[k] = x /\ ns[l] = x
        BY <3>1, <2>3 DEF Before
      <4>2. k # l /\ t.columns[k].name = t.columns[l].name
        BY <4>1
      <4> QED BY <4>2, <2>1, <1>7
    <3> QED BY <3>1
  <2> HIDE DEF ns, S
  <2>6. Cardinality(ToSet(ns)) = Len(ns)
    BY <2>3, <2>5, ListSize
  <2> QED BY <2>1, <2>3, <2>4, <2>6 DEF S
<1> QED BY <1>6, <1>11, <1>12, <1>13, <1>14, <1>15 DEF SyncableTable, t, def

-----------------------------------------------------------------------------
(* The schemas for which a contract is written.                             *)

(* The schemas whose contract, bare or paired with an API schema, is let    *)
(* through, with the orders of their tables.                                *)
ContractOf(l, paired) == Contract(SyncTables, LocalModule[l], paired)
OrdersOf(l) == [upsertOrder |-> TableOrder[l].upsertOrder, deleteOrder |-> TableOrder[l].deleteOrder]
AcceptedSchemas(paired) ==
    { l \in Schemas : ~ ContractThrows(SyncTables, LocalModule[l]) /\ \E pairs : Clean(ContractOf(l, paired), pairs) }

(* The order is of the tables alone, whichever lists come with them.        *)
LEMMA OrderOfTables ==
  ASSUME NEW c, NEW d, WellFormed(c), OneName(c),
         DOMAIN c = DOMAIN d, \A i \in DOMAIN c : c[i].table = d[i].table
  PROVE  computeSyncTableOrder(c) = computeSyncTableOrder(d)
<1>1. WellFormed(d) /\ OneName(d)
  BY DEF WellFormed, OneName
<1>2. Names(c) = Names(d)
  BY DEF Names
<1>3. \A n \in Names(c) : TableNamed(c, n) = TableNamed(d, n)
  <2>1. ASSUME NEW i \in DOMAIN c
        PROVE  TableNamed(c, c[i].table.name) = TableNamed(d, c[i].table.name)
    BY <1>1, <2>1, TableNamedIs
  <2> QED BY <2>1 DEF Names
<1>4. ExternalReference(c) = ExternalReference(d)
  BY <1>2, <1>3 DEF ExternalReference
<1>5. buildGraph(c) = buildGraph(d)
  BY <1>2, <1>3 DEF buildGraph
<1>6. [i \in DOMAIN c |-> c[i].table.name] = [i \in DOMAIN d |-> d[i].table.name]
  OBVIOUS
<1> QED BY <1>4, <1>5, <1>6 DEF computeSyncTableOrder

(* A contract without errors has no two tables of a name.                   *)
LEMMA OneNameEach ==
  ASSUME NEW contract, NEW paired, Clean(contract, paired)
  PROVE  OneName(contract)
<1> SUFFICES ASSUME NEW i \in DOMAIN contract, NEW j \in DOMAIN contract,
                    contract[i].table.name = contract[j].table.name, i # j
             PROVE  FALSE
  BY DEF OneName
<1> DEFINE n == contract[i].table.name
           broken == \E k, l \in DOMAIN contract : k # l /\ contract[k].table.name = n /\ contract[l].table.name = n
<1>1. broken /\ n \in Names(contract)
  BY DEF Names
<1>2. Report(broken, "error", "DUPLICATE_TABLE_NAME", n) \subseteq checkDuplicateTableName(contract)
  BY <1>1 DEF checkDuplicateTableName
<1>3. \A d \in checkDuplicateTableName(contract) : d.severity # "error"
  BY RulesHold
<1>4. \A d \in Report(broken, "error", "DUPLICATE_TABLE_NAME", n) : d.severity # "error"
  BY <1>2, <1>3
<1>5. broken \in BOOLEAN
  OBVIOUS
<1> HIDE DEF broken
<1> QED BY <1>1, <1>4, <1>5, NotBroken

(* The order of its tables was computed.                                    *)
LEMMA NothingThrown ==
  ASSUME NEW contract, NEW paired, Clean(contract, paired)
  PROVE  computeSyncTableOrder(contract).throws = "nothing"
<1> DEFINE throws == computeSyncTableOrder(contract).throws
<1>1. throws \in {"nothing", "external", "cycle"}
  BY DEF computeSyncTableOrder
<1>2. \A d \in checkFkCycleAndExternalFk(contract) : d.severity # "error"
  BY RulesHold
<1>3. /\ Report(throws = "cycle", "error", "FK_CYCLE", NoTable) \subseteq checkFkCycleAndExternalFk(contract)
      /\ Report(throws = "external", "error", "REQUIRED_EXTERNAL_FK", NoTable) \subseteq checkFkCycleAndExternalFk(contract)
  BY DEF checkFkCycleAndExternalFk
<1> HIDE DEF throws
<1>4. throws # "cycle"
  BY <1>2, <1>3, NotBroken
<1>5. throws # "external"
  BY <1>2, <1>3, NotBroken
<1> QED BY <1>1, <1>4, <1>5 DEF throws

(* A contract that is built is made of lists, and of tables that            *)
(* defineSyncContract takes.                                                *)
LEMMA ContractBuilt ==
  ASSUME NEW l \in Schemas, ~ ContractThrows(SyncTables, LocalModule[l]), NEW paired \in BOOLEAN
  PROVE  LET contract == ContractOf(l, paired)
         IN  /\ WellFormed(contract)
             /\ \A i \in DOMAIN contract :
                   MadeOfLists(contract[i].table) /\ validateAndExtractTableMeta(contract[i])
<1> DEFINE contract == ContractOf(l, paired)
<1>1. DOMAIN contract = DOMAIN SyncTables
  BY DEF ContractOf, Contract
<1>2. \E n \in Nat : DOMAIN SyncTables = 1..n
  <2>1. PICK s : s = SyncTables
    OBVIOUS
  <2>2. s \in Seq(ToSet(s))
    BY <2>1, GeneratorAssumption
  <2>3. Len(s) \in Nat /\ DOMAIN s = 1..Len(s)
    BY <2>2
  <2> QED BY <2>1, <2>3
<1>3. ASSUME NEW i \in DOMAIN SyncTables
      PROVE  MadeOfLists(contract[i].table) /\ validateAndExtractTableMeta(contract[i])
  <2> DEFINE export == SyncTables[i].exportName
             t == LocalModule[l][export]
  <2>1. export \in DOMAIN LocalModule[l] /\ validateAndExtractTableMeta(ContractOf(l, FALSE)[i])
    BY <1>3 DEF ContractThrows, ContractOf
  <2>2. \A list \in {t.columns, t.primaryKeys, t.foreignKeys} : list \in Seq(ToSet(list))
    BY <2>1, GeneratorAssumption
  <2>3. /\ contract[i].table = t /\ contract[i].table = ContractOf(l, FALSE)[i].table
        /\ contract[i].scope = ContractOf(l, FALSE)[i].scope
    BY DEF ContractOf, Contract, syncedTable
  <2>4. validateAndExtractTableMeta(contract[i])
    <3> HIDE DEF contract
    <3> QED BY <2>1, <2>3 DEF validateAndExtractTableMeta
  <2> HIDE DEF t, contract
  <2> QED BY <2>2, <2>3, <2>4 DEF MadeOfLists, List
<1> QED BY <1>1, <1>2, <1>3 DEF WellFormed

(* A schema that is let through has orders that order its tables, and       *)
(* syncable tables.                                                         *)
LEMMA AcceptedIsRight ==
  ASSUME NEW paired \in BOOLEAN, NEW l \in AcceptedSchemas(paired)
  PROVE  /\ OrdersTables(OrdersOf(l), ContractOf(l, paired))
         /\ \A i \in DOMAIN ContractOf(l, paired) : SyncableTable(ContractOf(l, paired)[i])
<1>1. PICK pairs : Clean(ContractOf(l, paired), pairs)
  BY DEF AcceptedSchemas
<1>2. l \in Schemas /\ ~ ContractThrows(SyncTables, LocalModule[l])
  BY DEF AcceptedSchemas
<1> DEFINE contract == ContractOf(l, paired)
<1>3. /\ WellFormed(contract)
      /\ \A i \in DOMAIN contract : MadeOfLists(contract[i].table) /\ validateAndExtractTableMeta(contract[i])
  BY <1>2, ContractBuilt
<1>4. OneName(contract) /\ computeSyncTableOrder(contract).throws = "nothing"
  BY <1>1, OneNameEach, NothingThrown
<1>5. OrdersOf(l) = [upsertOrder |-> computeSyncTableOrder(contract).upsertOrder,
                     deleteOrder |-> computeSyncTableOrder(contract).deleteOrder]
  <2>1. DOMAIN contract = DOMAIN ContractOf(l, FALSE)
    BY DEF ContractOf, Contract
  <2>2. \A i \in DOMAIN contract : contract[i].table = ContractOf(l, FALSE)[i].table
    BY DEF ContractOf, Contract, syncedTable
  <2> HIDE DEF contract
  <2>3. computeSyncTableOrder(contract) = computeSyncTableOrder(ContractOf(l, FALSE))
    BY <1>3, <1>4, <2>1, <2>2, OrderOfTables
  <2> QED BY <1>2, <2>3 DEF OrdersOf, TableOrder, ContractOf
<1> HIDE DEF contract
<1>6. Clean(contract, pairs)
  BY <1>1 DEF contract
<1>7. OrdersTables(OrdersOf(l), contract)
  BY <1>3, <1>4, <1>5, OrderIsRight
<1>8. \A i \in DOMAIN contract : SyncableTable(contract[i])
  BY <1>3, <1>6, TableIsSyncable
<1> QED BY <1>7, <1>8 DEF contract

(* What an entry was not refused for.                                       *)
LEMMA AcceptedOutcome ==
  ASSUME NEW kind \in Kinds, NEW schema \in [{"local", "api"} -> Schemas \cup {NoFile}],
         "throws" \notin Outcome(kind, schema), "error" \notin Outcome(kind, schema)
  PROVE  schema.local \in AcceptedSchemas(kind = "paired")
<1>1. schema.local \in Schemas \cup {NoFile} /\ schema.api \in Schemas \cup {NoFile}
  OBVIOUS
<1>2. schema.local \in Schemas /\ (kind = "paired" => schema.api \in Schemas)
  BY <1>1 DEF Outcome
<1> DEFINE l == schema.local
           a == schema.api
<1>3. CASE kind = "paired"
  <2>1. Outcome(kind, schema) = PairedOutcome[l][a]
    BY <1>2, <1>3, WorkbenchAssumption DEF Outcome
  <2> DEFINE pairs == PairedTables(SyncTables, LocalModule[l], ApiModule[a])
  <2>2. PairedOutcome[l][a] =
          IF PairedContractThrows(SyncTables, LocalModule[l], ApiModule[a]) THEN {"throws"}
          ELSE Severities(runDiagnostics(ContractOf(l, TRUE), pairs))
    BY <1>2, <1>3 DEF PairedOutcome, ContractOf
  <2>3. ~ PairedContractThrows(SyncTables, LocalModule[l], ApiModule[a])
    BY <2>1, <2>2
  <2>4. Clean(ContractOf(l, TRUE), pairs)
    BY <2>1, <2>2, <2>3 DEF Clean
  <2> HIDE DEF pairs
  <2>5. l \in AcceptedSchemas(TRUE)
    BY <1>2, <2>3, <2>4 DEF AcceptedSchemas, PairedContractThrows
  <2> QED BY <1>3, <2>5
<1>4. CASE kind # "paired"
  <2>1. Outcome(kind, schema) = BareOutcome[l]
    BY <1>2, <1>4, WorkbenchAssumption DEF Outcome
  <2>2. BareOutcome[l] =
          IF ContractThrows(SyncTables, LocalModule[l]) THEN {"throws"}
          ELSE Severities(runDiagnostics(ContractOf(l, FALSE), {}))
    BY <1>2 DEF BareOutcome, ContractOf
  <2>3. ~ ContractThrows(SyncTables, LocalModule[l])
    BY <2>1, <2>2
  <2>4. Clean(ContractOf(l, FALSE), {})
    BY <2>1, <2>2, <2>3 DEF Clean
  <2>5. l \in AcceptedSchemas(FALSE)
    BY <1>2, <2>3, <2>4 DEF AcceptedSchemas
  <2> QED BY <1>4, <2>5
<1> QED BY <1>3, <1>4
=============================================================================
