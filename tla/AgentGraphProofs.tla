--------------------------- MODULE AgentGraphProofs ----------------------------
(* Theorems about AgentGraph, for any toolboxes and bounds.  The invariant   *)
(* is a predicate of a graph, so that an action that removes nodes and adds  *)
(* others is two steps of the argument.                                      *)
EXTENDS AgentGraph, Integers, SequenceTheorems, FiniteSetTheorems, TLAPS

-----------------------------------------------------------------------------
(* The inductive invariant.                                                *)

Node == [kind : Labels, parent : Ids \cup {None}, cases : Cases,
         other : SUBSET Ids, items : SUBSET ItemNames, tools : BOOLEAN, goto : BOOLEAN]
Sheet == [node : Ids \cup {None}, cases : Cases, other : SUBSET Ids]

NodesOK(ns) == ns = [n \in DOMAIN ns |-> ns[n]] /\ \A n \in DOMAIN ns : ns[n] \in Node

\* No edge, no node and no reference is about an identifier not yet given out.
Typed(ns, es, cr, ph) ==
  /\ cr \in Ids /\ ph \in 0..cr /\ NodesOK(ns) /\ DOMAIN ns \subseteq 1..cr
  /\ \A n \in DOMAIN ns : ns[n].parent <= cr
  /\ es \subseteq Edges /\ \A e \in es : e.source <= cr /\ e.target <= cr

\* Begin is there, at the top and the only one; the start of an iteration is in one.
FixedNodes(ns) ==
  /\ Begin \in DOMAIN ns /\ ns[Begin].kind = "Begin" /\ ns[Begin].parent = None
  /\ \A n \in DOMAIN ns : ns[n].kind = "IterationStart" /\ ns[n].parent \in DOMAIN ns
                            => ns[ns[n].parent].kind = "Iteration"

Hanging == {"agentBottom", "tool"}

\* What hangs below an agent is an agent or a tool, and nothing else leads to it.
HangsOnce(ns, es) ==
  \A e \in es :
    /\ e.target \in DOMAIN ns =>
         /\ e.handle = "agentBottom" => ns[e.target].kind = "Agent"
         /\ e.handle = "tool" => ns[e.target].kind = "Tool"
    /\ e.handle \in Hanging => \A f \in es : f.target = e.target => f = e

\* An edge that stays behind when its target goes has lost its source too; this
\* holds as edges lead to a node of the same parent, or out of an iteration.
LeadsToLive(ns, es) ==
  \A e \in es : e.source \in DOMAIN ns =>
    e.target \in DOMAIN ns /\ ns[e.target].parent \in {None, ns[e.source].parent}

\* The placeholder is one, and does not hang below an agent.
PlaceholderOnly(ns, es, ph) ==
  /\ ph \in DOMAIN ns => ns[ph].kind = "Placeholder"
  /\ \A e \in es : e.target = ph => e.handle \notin Hanging

SwitchHandles == {"start", Else, "Case 1", "Case 2"}
HandlesMatch(ns, es) ==
  \A e \in es : e.source \in DOMAIN ns =>
    (ns[e.source].kind = "Switch" => e.handle \in SwitchHandles)

\* EdgesMatchForms of this graph.
FormsMatch(ns, es) ==
  \A e \in es : e.source \in DOMAIN ns =>
    /\ ns[e.source].kind = "Categorize" /\ e.handle \in ItemNames
         => e.handle \in ns[e.source].items
    /\ e.handle = "agentException" => ns[e.source].goto

\* GraphAcyclic of these edges.
Acyclic(es) ==
  \A S \in (SUBSET {e.source : e \in es}) \ {{}} :
    \E n \in S : \A e \in es : e.source = n => e.target \notin S

Sound(ns, es, cr, ph) ==
  /\ Typed(ns, es, cr, ph) /\ FixedNodes(ns) /\ HangsOnce(ns, es) /\ LeadsToLive(ns, es)
  /\ PlaceholderOnly(ns, es, ph) /\ HandlesMatch(ns, es) /\ FormsMatch(ns, es) /\ Acyclic(es)

GraphInv ==
  /\ Sound(nodes, edges, created, placeholder)
  /\ toolbox \in Toolboxes /\ sheet \in Sheet

\* The step of FixedNodesStay.
FixedStay ==
  \A n \in Live \ Live' :
    n # Begin /\ (nodes[n].kind = "IterationStart" => nodes[n].parent \notin Live')

-----------------------------------------------------------------------------
(* Graphs that shrink and grow.                                            *)

\* Of any nodes, sources or not, one has no edge to any of them.
LEMMA AnyNodes ==
  ASSUME NEW es, Acyclic(es), NEW S, S # {}
  PROVE  \E n \in S : \A e \in es : e.source = n => e.target \notin S
<1> DEFINE sources == {e.source : e \in es}
<1>1. CASE \E n \in S : n \notin sources
  BY <1>1
<1>2. CASE S \in (SUBSET sources) \ {{}}
  BY <1>2 DEF Acyclic
<1> HIDE DEF sources
<1>3. CASE \A n \in S : n \in sources
  <2>1. S \in SUBSET sources /\ S \notin {{}}
    BY <1>3
  <2> QED
    BY <1>2, <2>1
<1> QED
  BY <1>1, <1>3

LEMMA FewerEdges ==
  ASSUME NEW es, Acyclic(es), NEW fs, fs \subseteq es
  PROVE  Acyclic(fs)
BY AnyNodes DEF Acyclic

\* Nodes and edges leave, and forms change: what remains to be shown is that
\* no edge loses its target alone, and that the forms still match.
LEMMA Shrinks ==
  ASSUME NEW ns, NEW es, NEW cr, NEW ph, Sound(ns, es, cr, ph),
         NEW ms, NodesOK(ms), DOMAIN ms \subseteq DOMAIN ns,
         \A n \in DOMAIN ms : ms[n].kind = ns[n].kind /\ ms[n].parent = ns[n].parent,
         Begin \in DOMAIN ms,
         NEW fs, fs \subseteq es,
         \A e \in fs : e.source \in DOMAIN ms => e.target \in DOMAIN ms,
         FormsMatch(ms, fs), NEW pl \in {ph, None}
  PROVE  Sound(ms, fs, cr, pl)
<1>1. Typed(ms, fs, cr, pl)
  BY DEF Sound, Typed, Ids, None
<1>2. FixedNodes(ms)
  BY DEF Sound, FixedNodes
<1>3. HangsOnce(ms, fs)
  BY DEF Sound, HangsOnce
<1>4. LeadsToLive(ms, fs)
  BY DEF Sound, LeadsToLive
<1>5. PlaceholderOnly(ms, fs, pl)
  <2>1. None \notin DOMAIN ms /\ \A e \in fs : e.target # None
    BY <1>1 DEF Typed, Edges, Ids, None
  <2> QED
    BY <2>1 DEF Sound, PlaceholderOnly
<1>6. HandlesMatch(ms, fs)
  BY DEF Sound, HandlesMatch
<1>7. Acyclic(fs)
  BY FewerEdges DEF Sound
<1> QED
  BY <1>1, <1>2, <1>3, <1>4, <1>5, <1>6, <1>7 DEF Sound

\* New nodes come without edges.
LEMMA Copies ==
  ASSUME NEW ns, NEW es, NEW cr, NEW ph, Sound(ns, es, cr, ph),
         NEW cs \in Ids, cr <= cs,
         NEW ms, NodesOK(ms), DOMAIN ns \subseteq DOMAIN ms, DOMAIN ms \subseteq 1..cs,
         \A n \in DOMAIN ns : ms[n] = ns[n],
         \A n \in DOMAIN ms \ DOMAIN ns :
            /\ n > cr /\ ms[n].parent <= cs
            /\ ms[n].kind = "IterationStart" /\ ms[n].parent \in DOMAIN ms
                 => ms[ms[n].parent].kind = "Iteration"
  PROVE  Sound(ms, es, cs, ph)
<1>0. cr \in Nat /\ cs \in Nat
  BY DEF Sound, Typed, Ids
<1>1. Typed(ms, es, cs, ph)
  <2>1. \A n \in DOMAIN ms : ms[n].parent <= cs
    <3>1. ASSUME NEW n \in DOMAIN ns PROVE ms[n].parent <= cs
      <4>1. ns[n].parent \in Nat /\ ns[n].parent <= cr
        BY DEF Sound, Typed, NodesOK, Node, Ids, None
      <4> QED
        BY <1>0, <4>1
    <3> QED
      BY <3>1
  <2>2. \A e \in es : e.source \in Nat /\ e.target \in Nat
    BY DEF Sound, Typed, Edges, Ids
  <2> QED
    BY <1>0, <2>1, <2>2 DEF Sound, Typed
<1>2. \A e \in es : (e.source \in DOMAIN ms => e.source \in DOMAIN ns)
                    /\ (e.target \in DOMAIN ms => e.target \in DOMAIN ns)
  BY <1>0 DEF Sound, Typed, Edges, Ids
<1>3. FixedNodes(ms)
  <2>1. \A n \in DOMAIN ns : ns[n].parent \in DOMAIN ms => ns[n].parent \in DOMAIN ns
    <3>1. ASSUME NEW n \in DOMAIN ns PROVE ns[n].parent \in Nat /\ ns[n].parent <= cr
      BY DEF Sound, Typed, NodesOK, Node, Ids, None
    <3> QED
      BY <1>0, <3>1
  <2> QED
    BY <2>1 DEF Sound, FixedNodes
<1>4. HangsOnce(ms, es) /\ LeadsToLive(ms, es)
  BY <1>2 DEF Sound, HangsOnce, LeadsToLive
<1>5. ph \in DOMAIN ms => ph \in DOMAIN ns
  BY <1>0 DEF Sound, Typed
<1>6. PlaceholderOnly(ms, es, ph) /\ HandlesMatch(ms, es) /\ FormsMatch(ms, es)
  BY <1>2, <1>5 DEF Sound, PlaceholderOnly, HandlesMatch, FormsMatch
<1> QED
  BY <1>1, <1>3, <1>4, <1>6 DEF Sound

\* An edge that may be drawn from a node to a new one of this kind and parent.
MayDraw(ns, e, kind, parent) ==
  /\ e.handle = "agentBottom" => kind = "Agent"
  /\ e.handle = "tool" => kind = "Tool"
  /\ e.source \in DOMAIN ns =>
       /\ parent \in {None, ns[e.source].parent}
       /\ ns[e.source].kind = "Switch" => e.handle \in SwitchHandles
       /\ ns[e.source].kind = "Categorize" /\ e.handle \in ItemNames
            => e.handle \in ns[e.source].items
       /\ e.handle = "agentException" => ns[e.source].goto

\* One new node comes with edges to it, which no edge leaves.
LEMMA Grows ==
  ASSUME NEW ns, NEW es, NEW cr, NEW ph, Sound(ns, es, cr, ph),
         cr + 1 \in Ids, NEW node \in Node, node.parent <= cr,
         node.kind = "IterationStart" /\ node.parent \in DOMAIN ns
           => ns[node.parent].kind = "Iteration",
         NEW drawn \in SUBSET Edges,
         \A e \in drawn : /\ e.target = cr + 1 /\ e.source <= cr
                          /\ MayDraw(ns, e, node.kind, node.parent)
                          /\ e.handle \in Hanging => drawn = {e}
  PROVE  Sound(With(ns, cr + 1, node), es \cup drawn, cr + 1, ph)
<1> DEFINE ms == With(ns, cr + 1, node)
<1>0. cr \in Nat /\ ph \in 0..cr /\ DOMAIN ns \subseteq 1..cr
  BY DEF Sound, Typed, Ids
<1>1. /\ DOMAIN ms = DOMAIN ns \cup {cr + 1} /\ ms[cr + 1] = node
      /\ \A n \in DOMAIN ns : ms[n] = ns[n]
  BY <1>0 DEF With
<1>2. NodesOK(ms)
  BY <1>1 DEF With, NodesOK, Sound, Typed
<1> HIDE DEF ms
<1>3. Sound(ms, es, cr + 1, ph)
  <2>1. node.parent \in Nat
    BY DEF Node, Ids, None
  <2>2. node.parent \in DOMAIN ms => node.parent \in DOMAIN ns
    BY <1>0, <1>1, <2>1
  <2>3. node.parent \in DOMAIN ns => ms[node.parent] = ns[node.parent]
    BY <1>1
  <2>4. \A n \in DOMAIN ms \ DOMAIN ns :
            /\ n > cr /\ ms[n].parent <= cr + 1
            /\ ms[n].kind = "IterationStart" /\ ms[n].parent \in DOMAIN ms
                 => ms[ms[n].parent].kind = "Iteration"
    <3> SUFFICES /\ cr + 1 > cr /\ node.parent <= cr + 1
                 /\ node.kind = "IterationStart" /\ node.parent \in DOMAIN ms
                      => ms[node.parent].kind = "Iteration"
      BY <1>1
    <3> QED
      BY <1>0, <2>1, <2>2, <2>3
  <2>5. DOMAIN ns \subseteq DOMAIN ms /\ DOMAIN ms \subseteq 1..(cr + 1)
    BY <1>0, <1>1
  <2>6. cr <= cr + 1
    BY <1>0
  <2> QED
    BY <1>1, <1>2, <2>4, <2>5, <2>6, Copies
<1>4. \A e \in es : e.target # cr + 1 /\ e.source # cr + 1
  BY <1>0 DEF Sound, Typed, Edges, Ids
<1>5. \A e \in drawn : /\ e \in Edges /\ e.source # cr + 1
                       /\ e.source \in DOMAIN ms => e.source \in DOMAIN ns /\ ms[e.source] = ns[e.source]
  BY <1>0, <1>1 DEF Edges, Ids
<1>6. Typed(ms, es \cup drawn, cr + 1, ph)
  <2>1. \A e \in drawn : e.source <= cr + 1 /\ e.target <= cr + 1
    BY <1>0, <1>5 DEF Edges, Ids
  <2> QED
    BY <1>3, <2>1 DEF Sound, Typed
<1>7. HangsOnce(ms, es \cup drawn)
  BY <1>1, <1>3, <1>4, <1>5 DEF Sound, HangsOnce, MayDraw, Hanging
<1>8. LeadsToLive(ms, es \cup drawn)
  BY <1>1, <1>3, <1>5 DEF Sound, LeadsToLive, MayDraw
<1>9. HandlesMatch(ms, es \cup drawn) /\ FormsMatch(ms, es \cup drawn)
  BY <1>3, <1>5 DEF Sound, HandlesMatch, FormsMatch, MayDraw
<1>10. PlaceholderOnly(ms, es \cup drawn, ph)
  <2>1. \A e \in drawn : e.target # ph
    BY <1>0
  <2> QED
    BY <1>3, <2>1 DEF Sound, PlaceholderOnly
<1>11. Acyclic(es \cup drawn)
  <2>1. SUFFICES ASSUME NEW S \in (SUBSET {e.source : e \in es \cup drawn}) \ {{}}
                 PROVE  \E n \in S : \A e \in es \cup drawn : e.source = n => e.target \notin S
    BY DEF Acyclic
  <2>2. cr + 1 \notin S
    BY <1>4, <1>5
  <2>3. PICK n \in S : \A e \in es : e.source = n => e.target \notin S
    <3>1. Acyclic(es) /\ S # {}
      BY <2>1 DEF Sound
    <3> QED
      BY <3>1, AnyNodes
  <2> QED
    BY <2>2, <2>3
<1> QED
  BY <1>3, <1>6, <1>7, <1>8, <1>9, <1>10, <1>11 DEF Sound, ms

-----------------------------------------------------------------------------
(* Reaching, and edges drawn by hand.                                      *)

\* What is reached is left only to what is reached,
LEMMA ReachIsClosed ==
  ASSUME NEW es \in SUBSET Edges, NEW n, NEW e \in es, e.source \in Reach(n, es) \cup {n}
  PROVE  e.target \in Reach(n, es)
BY DEF Reach, Edges

\* and entered from n or from what is reached.
LEMMA ReachIsEntered ==
  ASSUME NEW es \in SUBSET Edges, NEW n, NEW m \in Reach(n, es)
  PROVE  \E e \in es : e.target = m /\ e.source \in Reach(n, es) \cup {n}
<1> DEFINE S == Reach(n, es) \ {m}
<1>1. SUFFICES ASSUME \A e \in es : e.source \in Reach(n, es) \cup {n} => e.target # m
               PROVE  FALSE
  OBVIOUS
<1>2. \A e \in es : e.source \in S \cup {n} => e.target \in S
  BY <1>1, ReachIsClosed
<1>3. S \in SUBSET Ids /\ m \notin S
  BY DEF Reach
<1> HIDE DEF S
<1> QED
  BY <1>2, <1>3 DEF Reach

\* hasCanvasCycle follows the edges to live nodes; from a live node there are
\* no others.
LEMMA Connects ==
  ASSUME NEW ns, NEW es, NEW cr, NEW ph, Sound(ns, es, cr, ph),
         NEW s \in DOMAIN ns, NEW t \in DOMAIN ns, NEW h \in Handles, h \notin Hanging,
         MayDraw(ns, Edge(s, h, t), ns[t].kind, ns[t].parent),
         \A e \in es : e.target = t => e.handle \notin Hanging,
         s # t, s \notin Reach(t, {e \in es : e.target \in DOMAIN ns})
  PROVE  Sound(ns, es \cup {Edge(s, h, t)}, cr, ph)
<1> DEFINE drawn == Edge(s, h, t)
           live == {e \in es : e.target \in DOMAIN ns}
           R == Reach(t, live) \cup {t}
<1>0. /\ drawn \in Edges /\ drawn.source = s /\ drawn.handle = h /\ drawn.target = t
      /\ live \in SUBSET Edges /\ s <= cr /\ t <= cr
  <2>1. live \in SUBSET Edges
    BY DEF Sound, Typed
  <2>2. s \in Ids /\ t \in Ids /\ s <= cr /\ t <= cr
    BY GraphAssumption DEF Sound, Typed, Ids
  <2> QED
    BY <2>1, <2>2 DEF Edge, Edges
<1>1. R \subseteq DOMAIN ns
  BY <1>0, ReachIsEntered
<1>2. \A e \in es : e.source \in R => e.target \in R
  BY <1>0, <1>1, ReachIsClosed DEF Sound, LeadsToLive
<1>3. s \notin R /\ t \in R
  OBVIOUS
<1> HIDE DEF R, live, drawn
<1>4. Acyclic(es \cup {drawn})
  <2>1. SUFFICES ASSUME NEW S \in (SUBSET {e.source : e \in es \cup {drawn}}) \ {{}}
                 PROVE  \E n \in S : \A e \in es \cup {drawn} : e.source = n => e.target \notin S
    BY DEF Acyclic
  <2>2. CASE t \in S
    <3>1. PICK n \in R \cap S : \A e \in es : e.source = n => e.target \notin R \cap S
      <4>1. R \cap S # {} /\ Acyclic(es)
        BY <1>3, <2>2 DEF Sound
      <4> QED
        BY <4>1, AnyNodes
    <3> QED
      BY <1>0, <1>2, <1>3, <3>1
  <2>3. CASE t \notin S
    <3>1. PICK n \in S : \A e \in es : e.source = n => e.target \notin S
      BY <2>1, AnyNodes DEF Sound
    <3> QED
      BY <1>0, <2>3, <3>1
  <2> QED
    BY <2>2, <2>3
<1>5. Typed(ns, es \cup {drawn}, cr, ph) /\ FixedNodes(ns)
  BY <1>0 DEF Sound, Typed
<1>6. HangsOnce(ns, es \cup {drawn})
  BY <1>0 DEF Sound, HangsOnce, Hanging
<1>7. LeadsToLive(ns, es \cup {drawn}) /\ PlaceholderOnly(ns, es \cup {drawn}, ph)
  BY <1>0 DEF Sound, LeadsToLive, PlaceholderOnly, MayDraw, drawn
<1>8. HandlesMatch(ns, es \cup {drawn}) /\ FormsMatch(ns, es \cup {drawn})
  BY <1>0 DEF Sound, HandlesMatch, FormsMatch, MayDraw, drawn
<1> QED
  BY <1>4, <1>5, <1>6, <1>7, <1>8 DEF Sound, drawn

LEMMA Cased ==
  /\ CaseNames[1] = "Case 1" /\ CaseNames[2] = "Case 2"
  /\ DOMAIN CaseNames = 1..2 /\ Len(CaseNames) = 2
  /\ 1 \in DOMAIN CaseNames /\ 2 \in DOMAIN CaseNames
  /\ \A i \in 1..2 : CaseNames[i] \in {"Case 1", "Case 2"}
BY DEF CaseNames

\* The handles on the right side of a node fit its form.
LEMMA RightHandlesFit ==
  ASSUME NodesOK(nodes), NEW n \in Live, NEW h \in RightHandles(n)
  PROVE  /\ h \in Handles /\ h \notin Hanging
         /\ nodes[n].kind = "Switch" => h \in SwitchHandles
         /\ nodes[n].kind = "Categorize" /\ h \in ItemNames => h \in nodes[n].items
         /\ h = "agentException" => nodes[n].goto
<1>1. nodes[n] \in Node
  BY DEF NodesOK, Live
<1>2. {"Case 1", "Case 2"} \subseteq Handles
  <2>1. {"Case 1", "Case 2"} \subseteq {CaseNames[i] : i \in DOMAIN CaseNames}
    BY Cased
  <2> QED
    BY <2>1 DEF Handles
<1>3. PICK k \in 0..2 : nodes[n].cases \in [1..k -> SUBSET Ids]
  BY <1>1, Cased DEF Node, Cases
<1>4. CASE nodes[n].kind = "Switch"
  <2>1. h \in {CaseNames[i] : i \in DOMAIN nodes[n].cases} \/ h = Else
    BY <1>4 DEF RightHandles
  <2>2. h \in {"Case 1", "Case 2", Else}
    <3>1. DOMAIN nodes[n].cases = 1..k /\ 1..k \subseteq 1..2
      BY <1>3
    <3> QED
      BY <2>1, <3>1, Cased
  <2>3. h \in Handles
    BY <1>2, <2>2 DEF Handles
  <2> QED
    BY <1>4, <2>2, <2>3 DEF Hanging, SwitchHandles, Else, ItemNames
<1>5. CASE nodes[n].kind = "Categorize"
  BY <1>1, <1>5 DEF RightHandles, Node, Handles, Hanging, ItemNames
<1>6. CASE nodes[n].kind \notin {"Switch", "Categorize"}
  BY <1>1, <1>6 DEF RightHandles, Handles, Hanging, ItemNames
<1> QED
  BY <1>4, <1>5, <1>6

-----------------------------------------------------------------------------
(* Forms that follow the edges.                                            *)

\* The same node, but for what updateSwitchFormData writes.
SameBut(ms, ns) ==
  /\ NodesOK(ms) /\ DOMAIN ms = DOMAIN ns
  /\ \A n \in DOMAIN ns : /\ ms[n].kind = ns[n].kind /\ ms[n].parent = ns[n].parent
                          /\ ms[n].items = ns[n].items /\ ms[n].goto = ns[n].goto

LEMMA SameButSound ==
  ASSUME NEW ns, NEW es, NEW cr, NEW ph, Sound(ns, es, cr, ph), NEW ms, SameBut(ms, ns)
  PROVE  Sound(ms, es, cr, ph)
<1>1. FormsMatch(ms, es)
  BY DEF Sound, SameBut, FormsMatch
<1>2. Begin \in DOMAIN ms /\ \A e \in es : e.source \in DOMAIN ms => e.target \in DOMAIN ms
  BY DEF Sound, SameBut, FixedNodes, LeadsToLive
<1> QED
  BY <1>1, <1>2, Shrinks DEF SameBut

LEMMA UpdateSwitchSame ==
  ASSUME NEW ns, NodesOK(ns), NEW s, NEW h, NEW targets \in SUBSET Ids,
         s \in DOMAIN ns /\ ns[s].kind = "Switch" => h \in SwitchHandles
  PROVE  SameBut(UpdateSwitch(ns, s, h, targets), ns)
<1>1. CASE s \notin DOMAIN ns \/ ns[s].kind # "Switch" \/ h = "start"
  BY <1>1 DEF UpdateSwitch, SameBut
<1>2. CASE ~(s \notin DOMAIN ns \/ ns[s].kind # "Switch" \/ h = "start")
  <2>1. ns[s] \in Node
    BY <1>2 DEF NodesOK
  <2>2. CASE h = Else
    BY <1>2, <2>1, <2>2 DEF UpdateSwitch, SameBut, NodesOK, Node
  <2>3. CASE h # Else
    <3> DEFINE i == CHOOSE j \in DOMAIN CaseNames : CaseNames[j] = h
               had == ns[s].cases
               now == [j \in 1..(IF i > Len(had) THEN i ELSE Len(had)) |->
                         IF j = i THEN targets ELSE IF j \in DOMAIN had THEN had[j] ELSE {}]
    <3>1. i \in 1..2
      <4>1. \E j \in DOMAIN CaseNames : CaseNames[j] = h
        <5>1. h = CaseNames[1] \/ h = CaseNames[2]
          BY <1>2, <2>3, Cased DEF SwitchHandles
        <5> QED
          BY <5>1, Cased
      <4> QED
        BY <4>1, Cased
    <3>2. PICK k \in 0..2 : had \in [1..k -> SUBSET Ids]
      BY <2>1, Cased DEF Node, Cases
    <3>3. had \in Seq(SUBSET Ids) /\ Len(had) = k
      BY <3>2
    <3> HIDE DEF i, had
    <3>4. PICK m \in 0..2 : m = IF i > Len(had) THEN i ELSE Len(had)
      BY <3>1, <3>3
    <3>5. now \in [1..m -> SUBSET Ids]
      BY <3>2, <3>4
    <3>6. now \in Cases
      BY <3>4, <3>5, Cased DEF Cases
    <3>7. UpdateSwitch(ns, s, h, targets) = [ns EXCEPT ![s].cases = now]
      BY <1>2, <2>3, Zenon DEF UpdateSwitch, now, had, i
    <3> HIDE DEF now
    <3>8. [ns[s] EXCEPT !.cases = now] \in Node
      BY <2>1, <3>6 DEF Node
    <3>9. [ns EXCEPT ![s].cases = now] = [ns EXCEPT ![s] = [ns[s] EXCEPT !.cases = now]]
      BY <1>2
    <3> DEFINE ms == [ns EXCEPT ![s] = [ns[s] EXCEPT !.cases = now]]
    <3>10. /\ DOMAIN ms = DOMAIN ns /\ ms = [n \in DOMAIN ms |-> ms[n]]
           /\ ms[s] = [ns[s] EXCEPT !.cases = now] /\ \A n \in DOMAIN ns \ {s} : ms[n] = ns[n]
      BY <1>2
    <3> HIDE DEF ms
    <3>11. NodesOK(ms)
      BY <3>8, <3>10 DEF NodesOK
    <3>12. ms[s].kind = ns[s].kind /\ ms[s].parent = ns[s].parent
           /\ ms[s].items = ns[s].items /\ ms[s].goto = ns[s].goto
      BY <2>1, <3>10 DEF Node
    <3>13. SameBut(ms, ns)
      BY <3>10, <3>11, <3>12 DEF SameBut
    <3> QED
      BY <3>7, <3>9, <3>13 DEF ms
  <2> QED
    BY <2>2, <2>3
<1> QED
  BY <1>1, <1>2

\* addEdge of the store leaves a sound graph sound.
LEMMA AfterEdge ==
  ASSUME NEW ns, NEW es, NEW cr, NEW ph, Sound(ns, es, cr, ph),
         NEW os \in SUBSET Edges, NEW e \in es
  PROVE  SameBut(NodesAfterEdge(ns, os, e), ns) /\ Sound(NodesAfterEdge(ns, os, e), es, cr, ph)
<1>1. e \in Edges /\ TargetsOf(os \cup {e}, e.source, e.handle) \in SUBSET Ids
  BY DEF Sound, Typed, TargetsOf, Edges
<1>2. SameBut(NodesAfterEdge(ns, os, e), ns)
  BY <1>1, UpdateSwitchSame DEF NodesAfterEdge, Sound, Typed, HandlesMatch
<1> QED
  BY <1>2, SameButSound

-----------------------------------------------------------------------------
(* The actions that add.                                                   *)

LEMMA FewCases == <<>> \in Cases /\ <<{}>> \in Cases
<1>1. <<>> \in [1..0 -> SUBSET Ids] /\ <<{}>> \in [1..1 -> SUBSET Ids]
  OBVIOUS
<1>2. 0 \in 0..2 /\ 1 \in 0..2
  OBVIOUS
<1> QED
  BY <1>1, <1>2, Cased DEF Cases

LEMMA NewNodeType ==
  ASSUME NEW kind \in Labels, NEW parent \in Ids \cup {None}
  PROVE  NewNode(kind, parent) \in Node
BY FewCases DEF NewNode, Node

\* The invariant in the words of the actions.
LEMMA InvFacts ==
  ASSUME GraphInv
  PROVE  /\ created \in Nat /\ created >= 1 /\ created <= MaxNodes /\ NodesOK(nodes)
         /\ edges \subseteq Edges /\ Live \subseteq 1..created
         /\ \A n \in Live : /\ nodes[n] \in Node /\ nodes[n].parent <= created
                            /\ n \in Ids /\ n <= created
         /\ toolbox.kinds \subseteq MenuLabels /\ toolbox.size <= MaxNodes /\ toolbox.size \in Nat
         /\ MaxNodes \in Nat
<1>1. MaxNodes \in Nat /\ toolbox \in [kinds : SUBSET MenuLabels, size : Ids]
  BY GraphAssumption DEF GraphInv
<1>2. toolbox.kinds \subseteq MenuLabels /\ toolbox.size \in 1..MaxNodes
  BY <1>1 DEF Ids
<1>3. Typed(nodes, edges, created, placeholder)
  BY DEF GraphInv, Sound
<1> QED
  BY <1>1, <1>2, <1>3 DEF Typed, NodesOK, Live, Ids

LEMMA NewIds ==
  ASSUME GraphInv, created < toolbox.size
  PROVE  created + 1 \in Ids
BY InvFacts DEF Ids

\* A node with one edge that may lead to it.
LEMMA GrowsByOne ==
  ASSUME NEW ns, NEW es, NEW cr, NEW ph, Sound(ns, es, cr, ph), cr + 1 \in Ids,
         NEW kind \in Labels \ {"Begin", "IterationStart"}, NEW s \in DOMAIN ns, NEW h \in Handles,
         MayDraw(ns, Edge(s, h, cr + 1), kind, ns[s].parent)
  PROVE  Sound(With(ns, cr + 1, NewNode(kind, ns[s].parent)),
               es \cup {Edge(s, h, cr + 1)}, cr + 1, ph)
<1>1. /\ ns[s].parent \in Ids \cup {None} /\ ns[s].parent <= cr /\ s \in Ids /\ s <= cr
  BY GraphAssumption DEF Sound, Typed, NodesOK, Node, Ids
<1>2. NewNode(kind, ns[s].parent) \in Node
  BY <1>1, NewNodeType
<1>3. NewNode(kind, ns[s].parent).kind = kind /\ NewNode(kind, ns[s].parent).parent = ns[s].parent
  BY DEF NewNode
<1>4. Edge(s, h, cr + 1) \in Edges /\ Edge(s, h, cr + 1).target = cr + 1
      /\ Edge(s, h, cr + 1).source = s
  BY <1>1 DEF Edge, Edges
<1> DEFINE drawn == {Edge(s, h, cr + 1)}
<1>5. drawn \in SUBSET Edges
  BY <1>4
<1>6. \A e \in drawn : /\ e.target = cr + 1 /\ e.source <= cr /\ MayDraw(ns, e, kind, ns[s].parent)
                       /\ e.handle \in Hanging => drawn = {e}
  BY <1>1, <1>4
<1> HIDE DEF drawn
<1>7. Sound(With(ns, cr + 1, NewNode(kind, ns[s].parent)), es \cup drawn, cr + 1, ph)
  BY <1>1, <1>2, <1>3, <1>5, <1>6, Grows
<1> QED
  BY <1>7 DEF drawn

\* The start node of an iteration that has just been added.
LEMMA GrowsByStart ==
  ASSUME NEW ns, NEW es, NEW cr, NEW ph, Sound(ns, es, cr, ph), cr + 1 \in Ids,
         cr \in DOMAIN ns, ns[cr].kind = "Iteration"
  PROVE  Sound(With(ns, cr + 1, NewNode("IterationStart", cr)), es, cr + 1, ph)
<1>1. cr \in Ids /\ cr <= cr
  BY GraphAssumption DEF Sound, Typed, Ids
<1>2. NewNode("IterationStart", cr) \in Node
  BY <1>1, NewNodeType DEF Labels
<1>3. NewNode("IterationStart", cr).kind = "IterationStart" /\ NewNode("IterationStart", cr).parent = cr
  BY DEF NewNode
<1>4. Sound(With(ns, cr + 1, NewNode("IterationStart", cr)), es \cup {}, cr + 1, ph)
  BY <1>1, <1>2, <1>3, Grows
<1> QED
  BY <1>4

LEMMA AddNextInv ==
  ASSUME GraphInv, NEW n \in Live, NEW h \in RightHandles(n), NEW kind \in toolbox.kinds,
         AddNext(n, h, kind), UNCHANGED toolbox
  PROVE  GraphInv' /\ FixedStay
<1> DEFINE new == created + 1
           e == Edge(n, h, new)
           ns == With(nodes, new, NewNode(kind, nodes[n].parent))
<1>1. new \in Ids /\ kind \in MenuLabels
  BY InvFacts, NewIds DEF AddNext
<1>2. Sound(nodes, edges, created, placeholder) /\ NodesOK(nodes) /\ n \in DOMAIN nodes
  BY DEF GraphInv, Sound, Typed, Live
<1>3. MayDraw(nodes, e, kind, nodes[n].parent) /\ h \in Handles
  BY <1>2, RightHandlesFit DEF MayDraw, Edge, Hanging
<1>4. kind \in Labels \ {"Begin", "IterationStart"}
  BY <1>1 DEF Labels, MenuLabels
<1>5. Sound(ns, edges \cup {e}, new, placeholder)
  BY <1>1, <1>2, <1>3, <1>4, GrowsByOne
<1>6. e \in edges \cup {e}
  OBVIOUS
<1>7. /\ nodes' = NodesAfterEdge(ns, edges, e) /\ edges' = edges \cup {e} /\ created' = new
      /\ placeholder' = placeholder /\ sheet' = sheet
  BY DEF AddNext
<1>8. DOMAIN nodes \subseteq DOMAIN ns
  BY DEF With
<1> HIDE DEF ns, e
<1>9. SameBut(nodes', ns) /\ Sound(nodes', edges', created', placeholder')
  BY <1>5, <1>6, <1>7, AfterEdge, InvFacts
<1>10. Live \ Live' = {}
  BY <1>8, <1>9 DEF SameBut, Live
<1> QED
  BY <1>7, <1>9, <1>10 DEF GraphInv, FixedStay

LEMMA IterationGrows ==
  ASSUME GraphInv, created + 1 < toolbox.size,
         NEW parent \in Ids \cup {None}, parent <= created,
         NEW drawn \in SUBSET Edges,
         \A e \in drawn : /\ e.target = created + 1 /\ e.source <= created
                          /\ MayDraw(nodes, e, "Iteration", parent)
                          /\ e.handle \in Hanging => drawn = {e}
  PROVE  /\ Sound(WithIteration(nodes, parent), edges \cup drawn, created + 2, placeholder)
         /\ DOMAIN WithIteration(nodes, parent) = Live \cup {created + 1, created + 2}
<1> DEFINE ns == With(nodes, created + 1, NewNode("Iteration", parent))
<1>1. created + 1 \in Ids /\ (created + 1) + 1 \in Ids /\ (created + 1) + 1 = created + 2
  BY InvFacts DEF Ids
<1>2. NewNode("Iteration", parent) \in Node
  BY NewNodeType DEF Labels
<1>3. NewNode("Iteration", parent).kind = "Iteration" /\ NewNode("Iteration", parent).parent = parent
  BY DEF NewNode
<1>4. Sound(nodes, edges, created, placeholder)
  BY DEF GraphInv
<1>5. Sound(ns, edges \cup drawn, created + 1, placeholder)
  BY <1>1, <1>2, <1>3, <1>4, Grows
<1>6. DOMAIN ns = Live \cup {created + 1} /\ ns[created + 1].kind = "Iteration"
  BY <1>3 DEF With, Live
<1>7. WithIteration(nodes, parent) = With(ns, created + 2, NewNode("IterationStart", created + 1))
  BY DEF WithIteration
<1> HIDE DEF ns
<1>8. Sound(With(ns, (created + 1) + 1, NewNode("IterationStart", created + 1)),
            edges \cup drawn, (created + 1) + 1, placeholder)
  BY <1>1, <1>5, <1>6, GrowsByStart
<1>9. DOMAIN With(ns, created + 2, NewNode("IterationStart", created + 1))
        = Live \cup {created + 1, created + 2}
  BY <1>6 DEF With
<1> QED
  BY <1>1, <1>7, <1>8, <1>9

LEMMA AddIterationInv ==
  ASSUME GraphInv, NEW n \in Live, NEW h \in RightHandles(n), AddIteration(n, h), UNCHANGED toolbox
  PROVE  GraphInv' /\ FixedStay
<1> DEFINE e == Edge(n, "start", created + 1)
<1>1. nodes[n].parent \in Ids \cup {None} /\ nodes[n].parent <= created /\ n \in Ids /\ n <= created
  BY InvFacts DEF Node
<1>2. e \in Edges /\ e.source = n /\ e.handle = "start" /\ e.target = created + 1
  BY <1>1, InvFacts DEF Edge, Edges, Handles, Ids, AddIteration
<1>3. MayDraw(nodes, e, "Iteration", nodes[n].parent)
  BY <1>2 DEF MayDraw, SwitchHandles, ItemNames
<1>4. created + 1 < toolbox.size
  BY DEF AddIteration
<1> HIDE DEF e
<1>5. /\ Sound(WithIteration(nodes, nodes[n].parent), edges \cup {e}, created + 2, placeholder)
      /\ DOMAIN WithIteration(nodes, nodes[n].parent) = Live \cup {created + 1, created + 2}
  <2> DEFINE drawn == {e}
  <2>1. drawn \in SUBSET Edges
    BY <1>2
  <2>2. \A d \in drawn : /\ d.target = created + 1 /\ d.source <= created
                         /\ MayDraw(nodes, d, "Iteration", nodes[n].parent)
                         /\ d.handle \in Hanging => drawn = {d}
    BY <1>1, <1>2, <1>3
  <2> HIDE DEF drawn
  <2>3. /\ Sound(WithIteration(nodes, nodes[n].parent), edges \cup drawn, created + 2, placeholder)
        /\ DOMAIN WithIteration(nodes, nodes[n].parent) = Live \cup {created + 1, created + 2}
    BY <1>1, <1>4, <2>1, <2>2, IterationGrows
  <2> QED
    BY <2>3 DEF drawn
<1>6. /\ nodes' = WithIteration(nodes, nodes[n].parent) /\ edges' = edges \cup {e}
      /\ created' = created + 2 /\ placeholder' = placeholder /\ sheet' = sheet
  BY DEF AddIteration, e
<1>7. Live \ Live' = {}
  BY <1>5, <1>6 DEF Live
<1> QED
  BY <1>5, <1>6, <1>7 DEF GraphInv, FixedStay

LEMMA AddSubAgentInv ==
  ASSUME GraphInv, NEW n \in Live, AddSubAgent(n), UNCHANGED toolbox
  PROVE  GraphInv' /\ FixedStay
<1> DEFINE e == Edge(n, "agentBottom", created + 1)
           ns == With(nodes, created + 1, NewNode("Agent", nodes[n].parent))
<1>1. created + 1 \in Ids /\ n \in DOMAIN nodes /\ Sound(nodes, edges, created, placeholder)
  BY NewIds DEF AddSubAgent, Live, GraphInv
<1>2. MayDraw(nodes, e, "Agent", nodes[n].parent)
  BY DEF MayDraw, Edge, AddSubAgent
<1>3. Sound(ns, edges \cup {e}, created + 1, placeholder)
  BY <1>1, <1>2, GrowsByOne DEF Labels, Handles
<1>4. /\ nodes' = ns /\ edges' = edges \cup {e} /\ created' = created + 1
      /\ placeholder' = placeholder /\ sheet' = sheet
  BY DEF AddSubAgent
<1>5. Live \ Live' = {}
  BY <1>4 DEF Live, With
<1> QED
  BY <1>3, <1>4, <1>5 DEF GraphInv, FixedStay

\* Nodes go, and with them at least the edges to them from nodes that stay.
LEMMA Removes ==
  ASSUME NEW ns, NEW es, NEW cr, NEW ph, Sound(ns, es, cr, ph),
         NEW gone, Begin \notin gone, NEW fs, fs \subseteq es,
         \A e \in fs : e.source \in DOMAIN ns \ gone => e.target \notin gone,
         NEW pl \in {ph, None}
  PROVE  /\ Sound(Without(ns, gone), fs, cr, pl) /\ DOMAIN Without(ns, gone) = DOMAIN ns \ gone
         /\ \A n \in DOMAIN ns \ gone : Without(ns, gone)[n] = ns[n]
<1> DEFINE ms == Without(ns, gone)
<1>1. /\ DOMAIN ms = DOMAIN ns \ gone /\ ms = [n \in DOMAIN ms |-> ms[n]]
      /\ \A n \in DOMAIN ms : ms[n] = ns[n]
  BY DEF Without
<1> HIDE DEF ms
<1>2. NodesOK(ms) /\ Begin \in DOMAIN ms
  BY <1>1 DEF Sound, Typed, NodesOK, FixedNodes
<1>3. \A e \in fs : e.source \in DOMAIN ms => e.target \in DOMAIN ms
  BY <1>1 DEF Sound, LeadsToLive
<1>4. FormsMatch(ms, fs)
  BY <1>1 DEF Sound, FormsMatch
<1>5. Sound(ms, fs, cr, pl)
  BY <1>1, <1>2, <1>3, <1>4, Shrinks
<1> QED
  BY <1>1, <1>5 DEF ms

LEMMA SetToolsInv ==
  ASSUME GraphInv, NEW n \in Live, NEW some \in BOOLEAN, SetTools(n, some), UNCHANGED toolbox
  PROVE  GraphInv' /\ FixedStay
<1> DEFINE set == [nodes EXCEPT ![n].tools = some]
           e == Edge(n, "tool", created + 1)
<1>1. n \in DOMAIN nodes /\ nodes[n] \in Node /\ nodes[n].kind = "Agent" /\ NodesOK(nodes)
      /\ Sound(nodes, edges, created, placeholder)
  BY InvFacts DEF SetTools, Live, GraphInv
<1>2. SameBut(set, nodes)
  <2>1. /\ DOMAIN set = DOMAIN nodes /\ set = [m \in DOMAIN set |-> set[m]]
        /\ set[n] = [nodes[n] EXCEPT !.tools = some] /\ \A m \in DOMAIN nodes \ {n} : set[m] = nodes[m]
    BY <1>1
  <2> HIDE DEF set
  <2>2. set[n] \in Node /\ set[n].kind = nodes[n].kind /\ set[n].parent = nodes[n].parent
        /\ set[n].items = nodes[n].items /\ set[n].goto = nodes[n].goto
    BY <1>1, <2>1 DEF Node
  <2> QED
    BY <1>1, <2>1, <2>2 DEF SameBut, NodesOK
<1>3. Sound(set, edges, created, placeholder)
  BY <1>1, <1>2, SameButSound
<1>4. DOMAIN set = Live /\ \A m \in Live : set[m].kind = nodes[m].kind /\ set[m].parent = nodes[m].parent
  BY <1>2 DEF SameBut, Live
<1>5. placeholder' = placeholder /\ sheet' = sheet
  BY DEF SetTools
<1>6. CASE /\ created < toolbox.size
           /\ nodes' = With(set, created + 1, NewNode("Tool", nodes[n].parent))
           /\ edges' = edges \cup {e} /\ created' = created + 1
  <2> HIDE DEF set
  <2>1. MayDraw(set, e, "Tool", set[n].parent) /\ n \in DOMAIN set
    BY <1>1, <1>4 DEF MayDraw, Edge
  <2>2. created + 1 \in Ids
    BY <1>6, NewIds
  <2>3. Sound(With(set, created + 1, NewNode("Tool", set[n].parent)), edges \cup {e},
              created + 1, placeholder)
    BY <1>3, <2>1, <2>2, GrowsByOne DEF Labels, Handles
  <2>4. set[n].parent = nodes[n].parent
    BY <1>4
  <2>5. Live \ Live' = {}
    BY <1>4, <1>6 DEF Live, With
  <2> QED
    BY <1>5, <1>6, <2>3, <2>4, <2>5 DEF GraphInv, FixedStay
<1>7. CASE nodes' = set /\ edges' = edges /\ created' = created
  <2>1. Live \ Live' = {}
    BY <1>4, <1>7 DEF Live
  <2> QED
    BY <1>3, <1>5, <1>7, <2>1 DEF GraphInv, FixedStay
<1>8. ASSUME NEW t \in TargetsOf(edges, n, "tool"), nodes' = Without(set, {t}),
             edges' = edges \ Touching(t), created' = created
      PROVE  GraphInv' /\ FixedStay
  <2>1. t \in Live => nodes[t].kind = "Tool"
    BY <1>1 DEF TargetsOf, Sound, HangsOnce, Live
  <2>2. t # Begin
    BY <1>1, <2>1 DEF Sound, FixedNodes, Live
  <2> DEFINE gone == {t}
             fs == edges \ Touching(t)
  <2>3. Begin \notin gone /\ fs \subseteq edges /\ \A d \in fs : d.target \notin gone
    BY <2>2 DEF Touching
  <2> HIDE DEF set, gone, fs
  <2>4. /\ Sound(Without(set, gone), fs, created, placeholder)
        /\ DOMAIN Without(set, gone) = DOMAIN set \ gone
    BY <1>3, <2>3, Removes
  <2>5. Live \ Live' \subseteq {t}
    BY <1>4, <1>8, <2>4 DEF Live, gone
  <2> QED
    BY <1>5, <1>8, <2>1, <2>2, <2>4, <2>5 DEF GraphInv, FixedStay, gone, fs
<1> QED
  BY <1>6, <1>7, <1>8 DEF SetTools

\* Another node is the placeholder.
LEMMA Replaces ==
  ASSUME NEW ns, NEW es, NEW cr, NEW ph, Sound(ns, es, cr, ph),
         NEW pl \in 0..cr, pl \in DOMAIN ns => ns[pl].kind = "Placeholder",
         \A e \in es : e.target = pl => e.handle \notin Hanging
  PROVE  Sound(ns, es, cr, pl)
BY DEF Sound, Typed, PlaceholderOnly

LEMMA DragToPaneInv ==
  ASSUME GraphInv, NEW n \in Live, NEW h \in RightHandles(n), DragToPane(n, h), UNCHANGED toolbox
  PROVE  GraphInv' /\ FixedStay
<1> DEFINE old == {m \in Live : nodes[m].kind = "Placeholder"}
           kept == {e \in edges : {e.source, e.target} \cap old = {}}
           new == created + 1
           e == Edge(n, h, new)
           rest == Without(nodes, old)
           ns == With(rest, new, NewNode("Placeholder", nodes[n].parent))
<1>1. /\ nodes' = NodesAfterEdge(ns, kept, e) /\ edges' = kept \cup {e}
      /\ created' = new /\ placeholder' = new /\ sheet' = sheet
  BY DEF DragToPane
<1>2. /\ new \in Ids /\ n \in DOMAIN nodes /\ Sound(nodes, edges, created, placeholder)
      /\ NodesOK(nodes) /\ created \in Nat
  BY InvFacts, NewIds DEF DragToPane, Live, GraphInv
<1>3. n \notin old
  BY DEF RightHandles
<1>4. /\ h \in Handles /\ MayDraw(nodes, e, "Placeholder", nodes[n].parent) /\ h \notin Hanging
      /\ e.handle = h /\ e.source = n /\ e.target = new
  BY <1>2, RightHandlesFit DEF MayDraw, Edge, Hanging
<1>5. Begin \notin old /\ kept \subseteq edges /\ \A d \in kept : d.target \notin old
  BY <1>2 DEF Sound, FixedNodes, Live
<1> HIDE DEF old, kept, e
<1>6. /\ Sound(rest, kept, created, placeholder) /\ DOMAIN rest = Live \ old
      /\ \A m \in Live \ old : rest[m] = nodes[m]
  BY <1>2, <1>5, Removes DEF Live
<1> HIDE DEF rest
<1>7. n \in DOMAIN rest /\ rest[n] = nodes[n]
  BY <1>3, <1>6
<1>8. MayDraw(rest, e, "Placeholder", rest[n].parent)
  BY <1>2, <1>4, <1>7 DEF MayDraw
<1>9. Sound(With(rest, new, NewNode("Placeholder", rest[n].parent)), kept \cup {e}, new, placeholder)
  BY <1>2, <1>4, <1>6, <1>7, <1>8, GrowsByOne DEF Labels, e
<1>10. /\ Sound(ns, kept \cup {e}, new, placeholder) /\ DOMAIN ns = (Live \ old) \cup {new}
       /\ ns[new].kind = "Placeholder"
  BY <1>6, <1>7, <1>9 DEF With, NewNode
<1> HIDE DEF ns, new
<1>11. kept \subseteq Edges /\ e \in kept \cup {e}
  BY <1>5, InvFacts
<1>12. SameBut(nodes', ns) /\ Sound(nodes', kept \cup {e}, new, placeholder)
  BY <1>1, <1>10, <1>11, AfterEdge
<1>13. \A d \in kept \cup {e} : d.target = new => d.handle \notin Hanging
  <2>1. \A d \in kept : d.target # new
    BY <1>2, <1>5, InvFacts DEF Edges, Ids, new, Sound, Typed
  <2> QED
    BY <1>4, <2>1
<1>14. new \in 0..new
  BY <1>2 DEF new
<1>15. Sound(nodes', kept \cup {e}, new, new)
  BY <1>10, <1>12, <1>13, <1>14, Replaces DEF SameBut
<1>16. Live \ Live' \subseteq old
  BY <1>10, <1>12 DEF Live, SameBut
<1> QED
  BY <1>1, <1>2, <1>5, <1>15, <1>16 DEF GraphInv, FixedStay, old

LEMMA PickNodeInv ==
  ASSUME GraphInv, NEW kind \in toolbox.kinds, PickNode(kind), UNCHANGED toolbox
  PROVE  GraphInv' /\ FixedStay
<1> DEFINE new == created + 1
           last == IF kind = "Iteration" THEN new + 1 ELSE new
           added == IF kind = "Iteration" THEN WithIteration(nodes, None)
                    ELSE With(nodes, new, NewNode(kind, None))
           drawn == {Edge(e.source, e.handle, new) : e \in {x \in edges : x.target = placeholder}}
           shown == IF drawn = {} THEN added
                    ELSE NodesAfterEdge(added, edges, CHOOSE e \in drawn : TRUE)
           left == (edges \cup drawn) \ Touching(placeholder)
<1>1. /\ nodes' = Without(shown, {placeholder}) /\ edges' = left
      /\ created' = last /\ placeholder' = None /\ sheet' = sheet
      /\ created + (IF kind = "Iteration" THEN 1 ELSE 0) < toolbox.size
  BY DEF PickNode
<1>2. /\ Sound(nodes, edges, created, placeholder) /\ kind \in MenuLabels /\ created \in Nat
      /\ edges \subseteq Edges /\ placeholder \in 0..created /\ toolbox.size \in Nat
  BY InvFacts DEF GraphInv, Sound, Typed
<1>3. new \in Ids
  BY <1>1, <1>2, NewIds
<1>4. None \in Ids \cup {None} /\ None <= created
  BY <1>2 DEF None
<1>5. \A d \in drawn : \E e \in edges : /\ e.target = placeholder /\ d.source = e.source
                                        /\ d.handle = e.handle /\ d.target = new /\ d \in Edges
  BY <1>2, <1>3 DEF Edge, Edges
<1> HIDE DEF drawn
<1>6. ASSUME NEW d \in drawn
      PROVE  /\ d \in Edges /\ d.target = new /\ d.source <= created
             /\ MayDraw(nodes, d, kind, None) /\ d.handle \notin Hanging
  <2>1. PICK e \in edges : /\ e.target = placeholder /\ d.source = e.source
                           /\ d.handle = e.handle /\ d.target = new /\ d \in Edges
    BY <1>5
  <2>2. d.handle \notin Hanging /\ d.source <= created
    BY <1>2, <2>1 DEF Sound, PlaceholderOnly, Typed
  <2> QED
    BY <1>2, <2>1, <2>2 DEF Sound, MayDraw, HandlesMatch, FormsMatch, Hanging
<1>7. drawn \in SUBSET Edges
  BY <1>6
<1>8. /\ Sound(added, edges \cup drawn, last, placeholder)
      /\ Live \subseteq DOMAIN added /\ new \in DOMAIN added
  <2>1. CASE kind = "Iteration"
    <3>1. created + 1 < toolbox.size
      BY <1>1, <2>1
    <3>2. /\ Sound(WithIteration(nodes, None), edges \cup drawn, created + 2, placeholder)
          /\ DOMAIN WithIteration(nodes, None) = Live \cup {created + 1, created + 2}
      BY <1>4, <1>6, <1>7, <2>1, <3>1, IterationGrows
    <3>3. new + 1 = created + 2
      BY <1>2
    <3> QED
      BY <2>1, <3>2, <3>3
  <2>2. CASE kind # "Iteration"
    <3>1. NewNode(kind, None) \in Node /\ NewNode(kind, None).kind = kind
          /\ NewNode(kind, None).parent = None
      <4>1. kind \in Labels
        BY <1>2 DEF Labels, MenuLabels
      <4> QED
        BY <4>1, NewNodeType DEF NewNode
    <3>2. Sound(With(nodes, new, NewNode(kind, None)), edges \cup drawn, new, placeholder)
      BY <1>2, <1>3, <1>4, <1>6, <1>7, <3>1, Grows DEF MenuLabels
    <3> QED
      BY <2>2, <3>2 DEF With, Live
  <2> QED
    BY <2>1, <2>2
<1> HIDE DEF added, last
<1>9. /\ Sound(shown, edges \cup drawn, last, placeholder) /\ DOMAIN shown = DOMAIN added
  <2>1. CASE drawn = {}
    BY <1>8, <2>1
  <2>2. CASE drawn # {}
    <3>1. (CHOOSE e \in drawn : TRUE) \in edges \cup drawn
      BY <2>2
    <3> QED
      BY <1>2, <1>8, <2>2, <3>1, AfterEdge DEF SameBut
  <2> QED
    BY <2>1, <2>2
<1> HIDE DEF shown
<1> DEFINE gone == {placeholder}
<1>10. Begin \notin gone
  BY <1>2 DEF Sound, FixedNodes, PlaceholderOnly
<1>11. left \subseteq edges \cup drawn /\ \A d \in left : d.target \notin gone
  BY <1>2, <1>6 DEF Touching
<1> HIDE DEF left, gone
<1>12. Sound(Without(shown, gone), left, last, None) /\ DOMAIN Without(shown, gone) = DOMAIN shown \ gone
  BY <1>9, <1>10, <1>11, Removes
<1>13. Live \ Live' \subseteq gone
  BY <1>1, <1>8, <1>9, <1>12 DEF Live, gone
<1>14. \A n \in Live \ Live' : nodes[n].kind = "Placeholder"
  BY <1>2, <1>13 DEF gone, Sound, PlaceholderOnly, Live
<1>15. FixedStay
  BY <1>10, <1>13, <1>14 DEF FixedStay
<1> QED
  BY <1>1, <1>12, <1>15 DEF GraphInv, gone

LEMMA CancelPickInv ==
  ASSUME GraphInv, CancelPick, UNCHANGED toolbox
  PROVE  GraphInv' /\ FixedStay
<1> DEFINE gone == {placeholder}
           left == edges \ Touching(placeholder)
<1>1. /\ nodes' = Without(nodes, gone) /\ edges' = left /\ created' = created
      /\ placeholder' = None /\ sheet' = sheet
  BY DEF CancelPick
<1>2. Sound(nodes, edges, created, placeholder)
  BY DEF GraphInv
<1>3. Begin \notin gone /\ left \subseteq edges /\ \A d \in left : d.target \notin gone
  BY <1>2 DEF Sound, FixedNodes, PlaceholderOnly, Touching
<1> HIDE DEF gone, left
<1>4. Sound(Without(nodes, gone), left, created, None) /\ DOMAIN Without(nodes, gone) = Live \ gone
  BY <1>2, <1>3, Removes DEF Live
<1>5. \A n \in Live \ Live' : n \in gone /\ nodes[n].kind = "Placeholder"
  BY <1>1, <1>2, <1>4 DEF gone, Sound, PlaceholderOnly, Live
<1> QED
  BY <1>1, <1>3, <1>4, <1>5 DEF GraphInv, FixedStay

LEMMA ConnectInv ==
  ASSUME GraphInv, NEW s \in Live, NEW h \in RightHandles(s), NEW t \in Live, Connect(s, h, t),
         UNCHANGED toolbox
  PROVE  GraphInv' /\ FixedStay
<1> DEFINE e == Edge(s, h, t)
<1>1. /\ nodes' = NodesAfterEdge(nodes, edges, e) /\ edges' = edges \cup {e}
      /\ created' = created /\ placeholder' = placeholder /\ sheet' = sheet
      /\ HasLeftHandle(t) /\ s # t /\ nodes[s].parent = nodes[t].parent /\ ~HasCanvasCycle(s, t)
  BY DEF Connect, IsValidConnection, IsSameNodeChild
<1>2. /\ Sound(nodes, edges, created, placeholder) /\ NodesOK(nodes) /\ edges \subseteq Edges
      /\ s \in DOMAIN nodes /\ t \in DOMAIN nodes
  BY InvFacts DEF GraphInv, Live
<1>3. h \in Handles /\ h \notin Hanging /\ MayDraw(nodes, e, nodes[t].kind, nodes[t].parent)
  BY <1>1, <1>2, RightHandlesFit DEF MayDraw, Edge, Hanging
<1>4. \A d \in edges : d.target = t => d.handle \notin Hanging
  BY <1>1, <1>2 DEF HasLeftHandle, IsSubAgent, Sound, HangsOnce, Hanging, MenuLabels
<1>5. s \notin Reach(t, {d \in edges : d.target \in DOMAIN nodes})
  BY <1>1 DEF HasCanvasCycle, LiveEdges, Live
<1>6. Sound(nodes, edges \cup {e}, created, placeholder)
  BY <1>1, <1>2, <1>3, <1>4, <1>5, Connects
<1> HIDE DEF e
<1>7. SameBut(nodes', nodes) /\ Sound(nodes', edges \cup {e}, created, placeholder)
  BY <1>1, <1>2, <1>6, AfterEdge
<1> QED
  BY <1>1, <1>7 DEF GraphInv, FixedStay, SameBut, Live

LEMMA DuplicateInv ==
  ASSUME GraphInv, NEW n \in Live, Duplicate(n), UNCHANGED toolbox
  PROVE  GraphInv' /\ FixedStay
<1> DEFINE inside == {m \in Live : nodes[m].parent = n}
           copied == IF nodes[n].kind = "Iteration" THEN inside ELSE {}
           copy == created + 1
           last == copy + Cardinality(copied)
<1>1. /\ Sound(nodes, edges, created, placeholder) /\ NodesOK(nodes) /\ created \in Nat
      /\ Live = DOMAIN nodes /\ toolbox.size \in Nat /\ toolbox.size <= MaxNodes /\ MaxNodes \in Nat
      /\ \A m \in Live : nodes[m].parent <= created /\ m <= created /\ m \in Ids /\ nodes[m] \in Node
  BY InvFacts DEF GraphInv, Live
<1>2. Cardinality(copied) \in Nat
  <2>1. IsFiniteSet(1..created) /\ copied \in SUBSET (1..created)
    BY <1>1, InvFacts, FS_Interval
  <2> HIDE DEF copied
  <2> QED
    BY <2>1, FS_Subset, FS_CardinalityType
<1>3. PICK f \in [copied -> (copy + 1)..last] :
        nodes' = [m \in Live \cup {copy} \cup {f[x] : x \in copied} |->
                    IF m = copy THEN nodes[n]
                    ELSE IF m \in Live THEN nodes[m]
                    ELSE [nodes[CHOOSE x \in copied : f[x] = m] EXCEPT !.parent = copy]]
  BY DEF Duplicate
<1>4. /\ last <= toolbox.size /\ created' = last /\ edges' = edges /\ placeholder' = placeholder
      /\ sheet' = sheet /\ nodes[n].kind \in MenuLabels
  BY DEF Duplicate
<1>5. copied \subseteq Live /\ (copied # {} => nodes[n].kind = "Iteration")
  OBVIOUS
<1> HIDE DEF copied
<1>6. last \in Ids /\ created <= last /\ copy \in Ids /\ copy <= last /\ last \in Nat
  BY <1>1, <1>2, <1>4 DEF Ids
<1> DEFINE others == {f[x] : x \in copied}
<1>7. \A m \in others : m > copy /\ m <= last /\ m \in Nat
  <2>1. others \subseteq (copy + 1)..last
    BY <1>3
  <2> QED
    BY <1>1, <1>6, <2>1
<1>8. \A m \in others : \E x \in copied : f[x] = m
  OBVIOUS
<1>9. DOMAIN nodes' = Live \cup {copy} \cup others
  BY <1>3
<1>10. nodes'[copy] = nodes[n]
  BY <1>3
<1>11. \A m \in Live : nodes'[m] = nodes[m]
  BY <1>1, <1>3
<1>12. ASSUME NEW m \in others
       PROVE  /\ nodes'[m] \in Node /\ nodes'[m].parent = copy
  <2> DEFINE x == CHOOSE y \in copied : f[y] = m
  <2>1. x \in copied
    BY <1>8
  <2>2. nodes'[m] = [nodes[x] EXCEPT !.parent = copy]
    BY <1>1, <1>3, <1>7
  <2>3. nodes[x] \in Node
    BY <1>1, <1>5, <2>1
  <2> HIDE DEF x
  <2> QED
    BY <1>6, <2>2, <2>3 DEF Node
<1>13. nodes' = [m \in DOMAIN nodes' |-> nodes'[m]]
  BY <1>3
<1> HIDE DEF others
<1>14. NodesOK(nodes')
  BY <1>1, <1>9, <1>10, <1>11, <1>12, <1>13 DEF NodesOK
<1>15. \A m \in DOMAIN nodes' \ DOMAIN nodes :
         /\ m > created /\ nodes'[m].parent <= last
         /\ nodes'[m].kind = "IterationStart" /\ nodes'[m].parent \in DOMAIN nodes'
              => nodes'[nodes'[m].parent].kind = "Iteration"
  <2>1. CASE copied = {}
    <3>1. others = {}
      BY <2>1 DEF others
    <3>2. nodes[n].parent \in Nat /\ nodes[n].parent <= created
      BY <1>1 DEF Node, Ids, None
    <3> QED
      BY <1>1, <1>4, <1>6, <1>9, <1>10, <3>1, <3>2 DEF MenuLabels
  <2>2. CASE copied # {}
    <3>1. nodes[n].parent \in Nat /\ nodes[n].parent <= created
      BY <1>1 DEF Node, Ids, None
    <3> QED
      BY <1>1, <1>4, <1>5, <1>6, <1>7, <1>9, <1>10, <1>12, <2>2, <3>1 DEF MenuLabels
  <2> QED
    BY <2>1, <2>2
<1>16. DOMAIN nodes \subseteq DOMAIN nodes' /\ DOMAIN nodes' \subseteq 1..last
  BY <1>1, <1>6, <1>7, <1>9 DEF Ids
<1> HIDE DEF last
<1>17. Sound(nodes', edges, last, placeholder)
  BY <1>1, <1>6, <1>11, <1>14, <1>15, <1>16, Copies
<1> QED
  BY <1>4, <1>9, <1>17 DEF GraphInv, FixedStay, Live

-----------------------------------------------------------------------------
(* The actions that remove.                                                *)

LEMMA SheetStays ==
  ASSUME GraphInv, NEW gone
  PROVE  SheetAfter(gone) \in Sheet
BY FewCases DEF SheetAfter, NoSheet, Sheet, GraphInv

\* Removing is sound when it takes no fixed node, and each edge to what goes
\* from what stays.
LEMMA RemoveInv ==
  ASSUME GraphInv, NEW gone, NEW cut, Remove(gone, cut), UNCHANGED toolbox, Begin \notin gone,
         \A e \in edges : e.source \in Live \ gone /\ e.target \in gone => e \in cut,
         \A n \in Live \cap gone : nodes[n].kind = "IterationStart" => nodes[n].parent \notin Live \ gone
  PROVE  GraphInv' /\ FixedStay
<1> DEFINE left == edges \ cut
<1>1. /\ nodes' = Without(nodes, gone) /\ edges' = left /\ sheet' = SheetAfter(gone)
      /\ created' = created /\ placeholder' = placeholder
  BY DEF Remove
<1>2. left \subseteq edges /\ \A e \in left : e.source \in Live \ gone => e.target \notin gone
  OBVIOUS
<1> HIDE DEF left
<1>3. Sound(Without(nodes, gone), left, created, placeholder) /\ DOMAIN Without(nodes, gone) = Live \ gone
  BY <1>2, Removes DEF GraphInv, Live
<1>4. FixedStay
  BY <1>1, <1>3 DEF FixedStay, Live
<1> QED
  BY <1>1, <1>3, <1>4, SheetStays DEF GraphInv

LEMMA DeleteNodeInv ==
  ASSUME GraphInv, NEW n \in Live, DeleteNode(n), UNCHANGED toolbox
  PROVE  GraphInv' /\ FixedStay
<1> DEFINE gone == {n}
<1>1. Remove(gone, Touching(n)) /\ nodes[n].kind \in MenuLabels
  BY DEF DeleteNode
<1>2. Begin \notin gone
  BY <1>1 DEF GraphInv, Sound, FixedNodes, MenuLabels
<1>3. \A e \in edges : e.source \in Live \ gone /\ e.target \in gone => e \in Touching(n)
  BY DEF Touching
<1>4. \A m \in Live \cap gone : nodes[m].kind = "IterationStart" => nodes[m].parent \notin Live \ gone
  BY <1>1 DEF MenuLabels
<1> HIDE DEF gone
<1> QED
  BY <1>1, <1>2, <1>3, <1>4, RemoveInv

LEMMA DeleteIterationInv ==
  ASSUME GraphInv, NEW n \in Live, DeleteIteration(n), UNCHANGED toolbox
  PROVE  GraphInv' /\ FixedStay
<1> DEFINE children == {m \in Live : nodes[m].parent = n}
           gone == {n} \cup children
           cut == Touching(n) \cup {e \in edges : e.source \in children /\ e.target = e.source}
<1>1. Remove(gone, cut) /\ nodes[n].kind = "Iteration"
  BY DEF DeleteIteration
<1>2. Sound(nodes, edges, created, placeholder) /\ n \in Ids /\ Live = DOMAIN nodes /\ n # None
  BY InvFacts, GraphAssumption DEF GraphInv, Live, Ids, None
<1>3. Begin \notin gone
  BY <1>1, <1>2 DEF Sound, FixedNodes
<1>4. ASSUME NEW e \in edges, e.source \in Live \ gone, e.target \in gone PROVE e \in cut
  <2>1. nodes[e.target].parent \in {None, nodes[e.source].parent}
    BY <1>2, <1>4 DEF Sound, LeadsToLive
  <2>2. e.target = n
    BY <1>2, <1>4, <2>1
  <2> QED
    BY <2>2 DEF Touching
<1>5. \A m \in Live \cap gone : nodes[m].kind = "IterationStart" => nodes[m].parent \notin Live \ gone
  BY <1>1
<1> HIDE DEF gone, cut
<1> QED
  BY <1>1, <1>3, <1>4, <1>5, RemoveInv

\* What hangs below an agent leaves with it, also over the edges given only;
\* all of it are agents and tools.
LEMMA BelowHangs ==
  ASSUME GraphInv, NEW n, NEW es \in SUBSET edges, NEW m \in Below(n, es)
  PROVE  /\ \E e \in edges : e.target = m /\ e.handle \in Hanging /\ e.source \in Below(n, es) \cup {n}
         /\ m \in Live => nodes[m].kind \in {"Agent", "Tool"}
         /\ m # Begin
<1> DEFINE hs == {e \in es : e.handle \in {"agentBottom", "tool"}}
<1>1. hs \in SUBSET Edges /\ Below(n, es) = Reach(n, hs)
  BY InvFacts DEF Below
<1>2. PICK e \in hs : e.target = m /\ e.source \in Below(n, es) \cup {n}
  <2> HIDE DEF hs
  <2> QED
    BY <1>1, ReachIsEntered
<1>3. m \in Live => nodes[m].kind \in {"Agent", "Tool"}
  BY <1>2 DEF GraphInv, Sound, HangsOnce, Live
<1>4. m # Begin
  BY <1>3 DEF GraphInv, Sound, FixedNodes, Live
<1> QED
  BY <1>2, <1>3, <1>4 DEF Hanging

LEMMA DeleteAgentInv ==
  ASSUME GraphInv, NEW n \in Live, DeleteAgent(n), UNCHANGED toolbox
  PROVE  GraphInv' /\ FixedStay
<1> DEFINE gone == {n} \cup Below(n, edges)
<1>1. PICK more \in EdgesBelow(n, edges) : Remove(gone, Touching(n) \cup more)
  BY DEF DeleteAgent
<1>2. nodes[n].kind = "Agent"
  BY DEF DeleteAgent
<1> DEFINE cut == Touching(n) \cup more
<1>3. Begin \notin gone
  BY <1>2, BelowHangs DEF GraphInv, Sound, FixedNodes
<1>4. ASSUME NEW e \in edges, e.source \in Live \ gone, e.target \in gone PROVE e \in cut
  <2>1. CASE e.target = n
    BY <2>1 DEF Touching
  <2>2. CASE e.target \in Below(n, edges)
    <3>1. PICK d \in edges : d.target = e.target /\ d.handle \in Hanging /\ d.source \in gone
      BY <2>2, BelowHangs
    <3>2. e = d
      BY <3>1 DEF GraphInv, Sound, HangsOnce
    <3> QED
      BY <1>4, <3>1, <3>2
  <2> QED
    BY <1>4, <2>1, <2>2
<1>5. \A m \in Live \cap gone : nodes[m].kind # "IterationStart"
  BY <1>2, BelowHangs
<1> HIDE DEF gone
<1> QED
  BY <1>1, <1>3, <1>4, <1>5, RemoveInv

LEMMA DeleteSelectionInv ==
  ASSUME GraphInv, NEW sel, NEW es \in SUBSET edges, DeleteSelection(sel, es), UNCHANGED toolbox
  PROVE  GraphInv' /\ FixedStay
<1> DEFINE all == Selected(sel)
           touched == es \cup UNION {Touching(m) : m \in all}
           agents == {m \in all : nodes[m].kind = "Agent"}
           below == UNION {Below(a, touched) : a \in agents}
           gone == Deletable(all) \cup below
           cut == DeletableEdges(all, touched)
<1>1. Remove(gone, cut)
  BY DEF DeleteSelection
<1>2. all \subseteq Live /\ touched \in SUBSET edges
  BY DEF Selected, Touching
<1>3. \A m \in all : Touching(m) \subseteq touched
  OBVIOUS
<1> HIDE DEF touched, all
<1>4. ASSUME NEW m \in below
      PROVE  /\ m # Begin /\ (m \in Live => nodes[m].kind # "IterationStart")
             /\ \E d \in edges : d.target = m /\ d.handle \in Hanging /\ d.source \in gone
  <2>1. PICK a \in agents : m \in Below(a, touched)
    OBVIOUS
  <2>2. a \in Deletable(all)
    BY <2>1 DEF Deletable
  <2>3. PICK d \in edges : d.target = m /\ d.handle \in Hanging /\ d.source \in Below(a, touched) \cup {a}
    BY <1>2, <2>1, BelowHangs
  <2>4. d.source \in gone
    BY <2>1, <2>2, <2>3
  <2>5. m # Begin /\ (m \in Live => nodes[m].kind # "IterationStart")
    BY <1>2, <2>1, BelowHangs
  <2> QED
    BY <2>3, <2>4, <2>5
<1>5. Begin \notin gone
  BY <1>2, <1>4 DEF Deletable, GraphInv, Sound, FixedNodes
<1> HIDE DEF below
<1>6. ASSUME NEW e \in edges, e.source \in Live \ gone, e.target \in gone PROVE e \in cut
  <2>1. CASE e.target \in Deletable(all)
    <3>1. e \in touched /\ e.target \in all
      BY <1>3, <2>1 DEF Deletable, Touching
    <3> QED
      BY <3>1 DEF DeletableEdges
  <2>2. CASE e.target \in below
    <3>1. PICK d \in edges : d.target = e.target /\ d.handle \in Hanging /\ d.source \in gone
      BY <1>4, <2>2
    <3>2. e = d
      BY <3>1 DEF GraphInv, Sound, HangsOnce
    <3> QED
      BY <1>6, <3>1, <3>2
  <2> QED
    BY <1>6, <2>1, <2>2
<1>7. ASSUME NEW m \in Live \cap gone, nodes[m].kind = "IterationStart"
      PROVE  nodes[m].parent \notin Live \ gone
  <2>1. m \in Deletable(all)
    BY <1>4, <1>7
  <2>2. nodes[m].parent \in all
    BY <1>7, <2>1 DEF Deletable
  <2>3. nodes[nodes[m].parent].kind = "Iteration"
    BY <1>2, <1>7, <2>2 DEF GraphInv, Sound, FixedNodes, Live
  <2>4. nodes[m].parent \in Deletable(all)
    BY <2>2, <2>3 DEF Deletable
  <2> QED
    BY <2>4
<1> HIDE DEF gone, cut
<1> QED
  BY <1>1, <1>5, <1>6, <1>7, RemoveInv

LEMMA DeleteEdgeInv ==
  ASSUME GraphInv, NEW e \in edges, DeleteEdge(e), UNCHANGED toolbox
  PROVE  GraphInv' /\ FixedStay
<1> DEFINE targets == TargetsOf(edges, e.source, e.handle) \ {e.target}
           left == edges \ {e}
<1>1. /\ nodes' = UpdateSwitch(nodes, e.source, e.handle, targets) /\ edges' = left
      /\ created' = created /\ placeholder' = placeholder /\ sheet' = sheet
  BY DEF DeleteEdge
<1>2. Sound(nodes, edges, created, placeholder) /\ NodesOK(nodes) /\ targets \in SUBSET Ids
  BY InvFacts DEF GraphInv, TargetsOf, Edges
<1> HIDE DEF targets
<1>3. SameBut(nodes', nodes)
  BY <1>1, <1>2, UpdateSwitchSame DEF Sound, HandlesMatch
<1>4. Sound(nodes', edges, created, placeholder)
  BY <1>2, <1>3, SameButSound
<1>5. /\ NodesOK(nodes') /\ Begin \in DOMAIN nodes' /\ left \subseteq edges
      /\ \A d \in left : d.source \in DOMAIN nodes' => d.target \in DOMAIN nodes'
      /\ FormsMatch(nodes', left)
  BY <1>4 DEF Sound, Typed, FixedNodes, LeadsToLive, FormsMatch
<1> HIDE DEF left
<1>6. Sound(nodes', left, created, placeholder)
  BY <1>4, <1>5, Shrinks
<1> QED
  BY <1>1, <1>3, <1>6 DEF GraphInv, FixedStay, SameBut, Live

-----------------------------------------------------------------------------
(* The forms.                                                              *)

\* A form changes and edges go: no category or method goes before its edges.
LEMMA FormInv ==
  ASSUME GraphInv, NEW n, NEW node \in Node,
         n \in Live => node.kind = nodes[n].kind /\ node.parent = nodes[n].parent,
         nodes' = [nodes EXCEPT ![n] = node], edges' \subseteq edges,
         n \in Live => \A e \in edges' : e.source = n =>
           /\ node.kind = "Categorize" /\ e.handle \in ItemNames => e.handle \in node.items
           /\ e.handle = "agentException" => node.goto,
         sheet' \in Sheet, UNCHANGED <<created, placeholder, toolbox>>
  PROVE  GraphInv' /\ FixedStay
<1>1. Sound(nodes, edges, created, placeholder) /\ NodesOK(nodes)
  BY InvFacts DEF GraphInv
<1>2. /\ DOMAIN nodes' = DOMAIN nodes /\ nodes' = [m \in DOMAIN nodes' |-> nodes'[m]]
      /\ n \in DOMAIN nodes => nodes'[n] = node /\ \A m \in DOMAIN nodes \ {n} : nodes'[m] = nodes[m]
  BY <1>1 DEF NodesOK
<1>3. n \notin DOMAIN nodes => nodes' = nodes
  BY <1>1 DEF NodesOK
<1>4. NodesOK(nodes')
  BY <1>1, <1>2, <1>3 DEF NodesOK
<1>5. \A m \in DOMAIN nodes' : nodes'[m].kind = nodes[m].kind /\ nodes'[m].parent = nodes[m].parent
  BY <1>2, <1>3 DEF Live
<1>6. Begin \in DOMAIN nodes'
      /\ \A d \in edges' : d.source \in DOMAIN nodes' => d.target \in DOMAIN nodes'
  BY <1>1, <1>2 DEF Sound, FixedNodes, LeadsToLive
<1>7. FormsMatch(nodes', edges')
  BY <1>1, <1>2, <1>3 DEF Sound, FormsMatch, Live
<1>8. Sound(nodes', edges', created, placeholder)
  BY <1>1, <1>2, <1>4, <1>5, <1>6, <1>7, Shrinks
<1> QED
  BY <1>2, <1>8 DEF GraphInv, FixedStay, Live

LEMMA ItemInv ==
  ASSUME GraphInv, NEW n \in Live, NEW u \in ItemNames, AddItem(n, u) \/ RemoveItem(n, u),
         UNCHANGED toolbox
  PROVE  GraphInv' /\ FixedStay
<1>1. nodes[n] \in Node /\ sheet' \in Sheet /\ UNCHANGED <<created, placeholder, toolbox>>
      /\ FormsMatch(nodes, edges) /\ n \in DOMAIN nodes
  BY InvFacts DEF AddItem, RemoveItem, GraphInv, Sound, Live
<1>2. CASE AddItem(n, u)
  <2> DEFINE node == [nodes[n] EXCEPT !.items = @ \cup {u}]
  <2>1. node \in Node /\ node.kind = nodes[n].kind /\ node.parent = nodes[n].parent
        /\ node.goto = nodes[n].goto /\ node.items = nodes[n].items \cup {u}
    BY <1>1 DEF Node
  <2>2. nodes' = [nodes EXCEPT ![n] = node] /\ edges' = edges
    BY <1>2 DEF AddItem
  <2> HIDE DEF node
  <2>3. \A e \in edges' : e.source = n =>
           /\ node.kind = "Categorize" /\ e.handle \in ItemNames => e.handle \in node.items
           /\ e.handle = "agentException" => node.goto
    BY <1>1, <2>1, <2>2 DEF FormsMatch
  <2> QED
    BY <1>1, <2>1, <2>2, <2>3, FormInv
<1>3. CASE RemoveItem(n, u)
  <2> DEFINE node == [nodes[n] EXCEPT !.items = @ \ {u}]
  <2>1. node \in Node /\ node.kind = nodes[n].kind /\ node.parent = nodes[n].parent
        /\ node.goto = nodes[n].goto /\ node.items = nodes[n].items \ {u}
    BY <1>1 DEF Node
  <2>2. /\ nodes' = [nodes EXCEPT ![n] = node]
        /\ edges' = {e \in edges : ~(e.source = n /\ e.handle = u)}
    BY <1>3 DEF RemoveItem
  <2> HIDE DEF node
  <2>3. \A e \in edges' : e.source = n =>
           /\ node.kind = "Categorize" /\ e.handle \in ItemNames => e.handle \in node.items
           /\ e.handle = "agentException" => node.goto
    BY <1>1, <2>1, <2>2 DEF FormsMatch
  <2> QED
    BY <1>1, <2>1, <2>2, <2>3, FormInv
<1> QED
  BY <1>2, <1>3

LEMMA SetGotoInv ==
  ASSUME GraphInv, NEW n \in Live, NEW goto \in BOOLEAN, SetGoto(n, goto), UNCHANGED toolbox
  PROVE  GraphInv' /\ FixedStay
<1> DEFINE node == [nodes[n] EXCEPT !.goto = goto]
<1>1. nodes[n] \in Node /\ sheet' \in Sheet /\ UNCHANGED <<created, placeholder, toolbox>>
      /\ FormsMatch(nodes, edges) /\ n \in DOMAIN nodes /\ nodes[n].kind = "Agent"
  BY InvFacts DEF SetGoto, GraphInv, Sound, Live
<1>2. node \in Node /\ node.kind = nodes[n].kind /\ node.parent = nodes[n].parent /\ node.goto = goto
  BY <1>1 DEF Node
<1>3. /\ nodes' = [nodes EXCEPT ![n] = node] /\ edges' \subseteq edges
      /\ goto \/ \A e \in edges' : ~(e.source = n /\ e.handle = "agentException")
  BY DEF SetGoto
<1> HIDE DEF node
<1>4. \A e \in edges' : e.source = n =>
         /\ node.kind = "Categorize" /\ e.handle \in ItemNames => e.handle \in node.items
         /\ e.handle = "agentException" => node.goto
  BY <1>1, <1>2, <1>3
<1> QED
  BY <1>1, <1>2, <1>3, <1>4, FormInv

\* A list of at most two cases.
LEMMA CasesAreSequences == \A c : c \in Cases <=> c \in Seq(SUBSET Ids) /\ Len(c) <= 2
<1>1. ASSUME NEW c \in Cases PROVE c \in Seq(SUBSET Ids) /\ Len(c) <= 2
  <2>1. PICK k \in 0..2 : c \in [1..k -> SUBSET Ids]
    BY Cased DEF Cases
  <2> QED
    BY <2>1
<1>2. ASSUME NEW c \in Seq(SUBSET Ids), Len(c) <= 2 PROVE c \in Cases
  <2>1. Len(c) \in 0..2 /\ c \in [1..Len(c) -> SUBSET Ids]
    <3>1. Len(c) \in Nat /\ c \in [1..Len(c) -> SUBSET Ids]
      BY <1>2, LenProperties
    <3>2. \A k \in Nat : k <= 2 => k \in 0..2
      OBVIOUS
    <3> QED
      BY <1>2, <3>1, <3>2
  <2> QED
    BY <2>1, Cased DEF Cases
<1> QED
  BY <1>1, <1>2

LEMMA SheetInv ==
  ASSUME GraphInv, (\E n \in Live : OpenSwitchForm(n)) \/ CloseSheet \/ EditSwitchForm, UNCHANGED toolbox
  PROVE  GraphInv' /\ FixedStay
<1>1. CASE \E n \in Live : OpenSwitchForm(n)
  <2>1. PICK n \in Live : OpenSwitchForm(n)
    BY <1>1
  <2>2. sheet' \in Sheet
    BY <2>1, InvFacts DEF OpenSwitchForm, Sheet, Node
  <2> QED
    BY <2>1, <2>2 DEF OpenSwitchForm, GraphInv, FixedStay, Live
<1>2. CASE CloseSheet
  <2>1. sheet' \in Sheet
    BY <1>2, FewCases DEF CloseSheet, NoSheet, Sheet
  <2> QED
    BY <1>2, <2>1 DEF CloseSheet, GraphInv, FixedStay, Live
<1>3. CASE EditSwitchForm
  <2> DEFINE had == sheet.cases
  <2>1. sheet \in Sheet /\ had \in Seq(SUBSET Ids) /\ Len(had) <= 2 /\ Len(had) \in Nat
    BY CasesAreSequences DEF GraphInv, Sheet
  <2>2. PICK c \in {had} \cup (IF Len(had) < MaxCases THEN {Append(had, {})} ELSE {})
                   \cup {SubSeq(had, 1, i - 1) \o SubSeq(had, i + 1, Len(had)) : i \in 2..Len(had)} :
             sheet' = [sheet EXCEPT !.cases = c]
    BY <1>3 DEF EditSwitchForm
  <2> HIDE DEF had
  <2>3. c \in Cases
    <3>1. CASE c = had
      BY <2>1, <3>1, CasesAreSequences
    <3>2. CASE Len(had) < MaxCases /\ c = Append(had, {})
      <4>1. c \in Seq(SUBSET Ids) /\ Len(c) = Len(had) + 1
        BY <2>1, <3>2, AppendProperties
      <4>2. MaxCases \in {1, 2}
        BY GraphAssumption
      <4>3. Len(c) <= 2
        BY <2>1, <3>2, <4>1, <4>2
      <4> QED
        BY <4>1, <4>3, CasesAreSequences
    <3>3. CASE \E i \in 2..Len(had) : c = SubSeq(had, 1, i - 1) \o SubSeq(had, i + 1, Len(had))
      <4>1. PICK i \in 2..Len(had) : c = SubSeq(had, 1, i - 1) \o SubSeq(had, i + 1, Len(had))
        BY <3>3
      <4>2. i = 2 /\ Len(had) = 2
        <5>1. \A k \in Nat : \A j \in 2..k : k <= 2 => j = 2 /\ k = 2
          OBVIOUS
        <5> QED
          BY <2>1, <4>1, <5>1
      <4>3. SubSeq(had, 1, 1) \in Seq(SUBSET Ids) /\ Len(SubSeq(had, 1, 1)) = 1
        BY <2>1, <4>2, SubSeqProperties
      <4>4. SubSeq(had, 3, 2) \in Seq(SUBSET Ids) /\ Len(SubSeq(had, 3, 2)) = 0
        BY <2>1, <4>2, SubSeqProperties
      <4>5. c \in Seq(SUBSET Ids) /\ Len(c) = 1
        BY <4>1, <4>2, <4>3, <4>4, ConcatProperties
      <4> QED
        BY <4>5, 1 <= 2, CasesAreSequences
    <3> QED
      BY <2>2, <3>1, <3>2, <3>3
  <2>4. sheet' \in Sheet /\ sheet'.cases = c
    BY <2>1, <2>2, <2>3 DEF Sheet
  <2> DEFINE n == sheet.node
             node == [[nodes[n] EXCEPT !.cases = sheet'.cases] EXCEPT !.other = sheet.other]
  <2>5. nodes' = [[nodes EXCEPT ![n].cases = sheet'.cases] EXCEPT ![n].other = sheet.other]
        /\ edges' = edges /\ UNCHANGED <<created, placeholder>>
    BY <1>3 DEF EditSwitchForm
  <2>6. NodesOK(nodes) /\ Live = DOMAIN nodes /\ FormsMatch(nodes, edges)
    BY InvFacts DEF Live, GraphInv, Sound
  <2>7. CASE n \in Live
    <3>1. node \in Node /\ node.kind = nodes[n].kind /\ node.parent = nodes[n].parent
          /\ node.items = nodes[n].items /\ node.goto = nodes[n].goto
      BY <2>1, <2>3, <2>4, <2>7, InvFacts DEF Node, Sheet
    <3>2. nodes' = [nodes EXCEPT ![n] = node]
      BY <2>5, <2>6, <2>7 DEF NodesOK
    <3> HIDE DEF node, n
    <3>3. \A e \in edges' : e.source = n =>
             /\ node.kind = "Categorize" /\ e.handle \in ItemNames => e.handle \in node.items
             /\ e.handle = "agentException" => node.goto
      BY <2>5, <2>6, <2>7, <3>1 DEF FormsMatch
    <3> QED
      BY <2>4, <2>5, <3>1, <3>2, <3>3, FormInv
  <2>8. CASE n \notin Live
    <3>1. nodes' = nodes
      BY <2>5, <2>6, <2>8 DEF NodesOK
    <3> QED
      BY <2>4, <2>5, <3>1 DEF GraphInv, FixedStay, Live
  <2> QED
    BY <2>7, <2>8
<1> QED
  BY <1>1, <1>2, <1>3

-----------------------------------------------------------------------------
(* The theorems.                                                           *)

LEMMA GraphStepInv ==
  ASSUME GraphInv, [GraphNext]_graphVars
  PROVE  GraphInv' /\ [FixedStay]_graphVars
<1>1. ASSUME GraphNext PROVE GraphInv' /\ FixedStay
  <2>1. UNCHANGED toolbox
    BY <1>1 DEF GraphNext
  <2>2. ASSUME NEW n \in Live, NEW h \in RightHandles(n),
               \/ \E kind \in toolbox.kinds : AddNext(n, h, kind)
               \/ "Iteration" \in toolbox.kinds /\ AddIteration(n, h)
               \/ DragToPane(n, h)
               \/ \E t \in Live : Connect(n, h, t)
        PROVE  GraphInv' /\ FixedStay
    BY <2>1, <2>2, AddNextInv, AddIterationInv, DragToPaneInv, ConnectInv
  <2>3. ASSUME (\E kind \in toolbox.kinds : PickNode(kind)) \/ CancelPick
        PROVE  GraphInv' /\ FixedStay
    BY <2>1, <2>3, PickNodeInv, CancelPickInv
  <2>4. ASSUME NEW n \in Live,
               \/ AddSubAgent(n) \/ Duplicate(n) \/ DeleteNode(n) \/ DeleteIteration(n)
               \/ DeleteAgent(n) \/ \E some \in BOOLEAN : SetTools(n, some)
        PROVE  GraphInv' /\ FixedStay
    BY <2>1, <2>4, AddSubAgentInv, SetToolsInv, DuplicateInv, DeleteNodeInv, DeleteIterationInv,
       DeleteAgentInv
  <2>5. ASSUME NEW n \in Live,
               \/ \E goto \in BOOLEAN : SetGoto(n, goto)
               \/ OpenSwitchForm(n)
               \/ \E u \in ItemNames : AddItem(n, u) \/ RemoveItem(n, u)
        PROVE  GraphInv' /\ FixedStay
    BY <2>1, <2>5, SetGotoInv, SheetInv, ItemInv
  <2>6. ASSUME \/ \E m, n \in Live : m <= n /\ DeleteSelection({m, n}, {})
               \/ \E e \in edges : DeleteEdge(e) \/ DeleteSelection({}, {e})
        PROVE  GraphInv' /\ FixedStay
    <3>1. ASSUME NEW m \in Live, NEW n \in Live, DeleteSelection({m, n}, {})
          PROVE  GraphInv' /\ FixedStay
      <4>1. {} \in SUBSET edges
        OBVIOUS
      <4> QED
        BY <2>1, <3>1, <4>1, DeleteSelectionInv
    <3>2. ASSUME NEW e \in edges, DeleteEdge(e) \/ DeleteSelection({}, {e})
          PROVE  GraphInv' /\ FixedStay
      <4>1. {e} \in SUBSET edges
        OBVIOUS
      <4> QED
        BY <2>1, <3>2, <4>1, DeleteEdgeInv, DeleteSelectionInv
    <3> QED
      BY <2>6, <3>1, <3>2
  <2>7. ASSUME EditSwitchForm \/ CloseSheet
        PROVE  GraphInv' /\ FixedStay
    BY <2>1, <2>7, SheetInv
  <2> QED
    BY <1>1, <2>2, <2>3, <2>4, <2>5, <2>6, <2>7 DEF GraphNext, GraphStep
<1>2. CASE UNCHANGED graphVars
  BY <1>2 DEF graphVars, GraphInv
<1> QED
  BY <1>1, <1>2

LEMMA GraphInitInv == GraphInit => GraphInv
<1> SUFFICES ASSUME GraphInit PROVE GraphInv
  OBVIOUS
<1>0. 1 \in Ids /\ Begin = 1 /\ None = 0
  BY GraphAssumption DEF Ids, Begin, None
<1>1. /\ DOMAIN nodes = {1} /\ nodes[1] = NewNode("Begin", None) /\ edges = {}
      /\ created = 1 /\ placeholder = 0 /\ nodes = [n \in DOMAIN nodes |-> nodes[n]]
  BY <1>0 DEF GraphInit
<1>2. NewNode("Begin", None) \in Node
  BY NewNodeType DEF Labels
<1>3. NewNode("Begin", None).kind = "Begin" /\ NewNode("Begin", None).parent = 0
  BY <1>0 DEF NewNode
<1>4. Typed(nodes, edges, created, placeholder) /\ FixedNodes(nodes)
  BY <1>0, <1>1, <1>2, <1>3 DEF Typed, NodesOK, FixedNodes
<1>5. /\ HangsOnce(nodes, edges) /\ LeadsToLive(nodes, edges)
      /\ PlaceholderOnly(nodes, edges, placeholder) /\ HandlesMatch(nodes, edges)
      /\ FormsMatch(nodes, edges) /\ Acyclic(edges)
  BY <1>1 DEF HangsOnce, LeadsToLive, PlaceholderOnly, HandlesMatch, FormsMatch, Acyclic
<1>6. sheet \in Sheet
  BY FewCases DEF GraphInit, NoSheet, Sheet
<1> QED
  BY <1>4, <1>5, <1>6 DEF GraphInit, GraphInv, Sound

LEMMA GraphInductive == GraphSpec => []GraphInv
<1>1. GraphInv /\ [GraphNext]_graphVars => GraphInv'
  BY GraphStepInv
<1> QED
  BY <1>1, GraphInitInv, PTL DEF GraphSpec

LEMMA GraphInvType == ASSUME GraphInv PROVE GraphTypeOK
<1>1. placeholder \in Ids \cup {None}
  <2>1. placeholder \in 0..created /\ created \in Ids
    BY DEF GraphInv, Sound, Typed
  <2> QED
    BY <2>1, GraphAssumption DEF Ids, None
<1> QED
  BY <1>1 DEF GraphTypeOK, GraphInv, Sound, Typed, NodesOK, Node, Sheet, Live

\* Every variable of the editor's graph keeps its type.
THEOREM GraphTypeCorrect == GraphSpec => []GraphTypeOK
<1>1. GraphInv => GraphTypeOK
  BY GraphInvType
<1> QED
  BY <1>1, GraphInductive, PTL

\* No run of the agent can come back to a node: what hasCanvasCycle does not
\* see, edges to nodes that are gone, are not led back from a live node, and
\* every edge that is not drawn by hand leads to a new node.
THEOREM NoCycleIsDrawn == GraphSpec => []GraphAcyclic
<1>1. GraphInv => GraphAcyclic
  BY DEF GraphInv, Sound, Acyclic, GraphAcyclic
<1> QED
  BY <1>1, GraphInductive, PTL

\* The branches that are drawn are those the forms have.
THEOREM EdgesFollowForms == GraphSpec => []EdgesMatchForms
<1>1. GraphInv => EdgesMatchForms
  BY DEF GraphInv, Sound, FormsMatch, EdgesMatchForms, Live
<1> QED
  BY <1>1, GraphInductive, PTL

\* Begin is never removed, nor the start of an iteration that stays.
THEOREM FixedNodesAreKept == GraphSpec => FixedNodesStay
<1>1. ASSUME GraphInv, [GraphNext]_graphVars
      PROVE  [\A n \in Live \ Live' :
                /\ n # Begin
                /\ nodes[n].kind = "IterationStart" => nodes[n].parent \notin Live']_graphVars
  BY <1>1, GraphStepInv DEF FixedStay
<1> QED
  BY <1>1, GraphInductive, PTL DEF GraphSpec, FixedNodesStay
=============================================================================
