------------------------------ MODULE AgentGraph -------------------------------
(***************************************************************************)
(* The graph store of the agent editor (web/src/pages/agent/store.ts) and  *)
(* the handlers of the canvas that change it: nodes added behind a handle, *)
(* dragged out to the pane and picked from the menu, connected by hand,    *)
(* copied, and removed by the toolbar, by the keyboard or with the agent   *)
(* above them; the forms whose edits add or remove handles.                *)
(*                                                                         *)
(* A node is an identifier that is never used again; its record has the    *)
(* operator's label, the iteration it is drawn in, and what of its form    *)
(* follows the edges.  Edges are a set: addEdge keeps no duplicate.  The   *)
(* order of the edge array is abstracted; where the code takes the first   *)
(* edge that fits, any such edge may be it.  Positions, names, selection   *)
(* styles and the fields of a form that hold no node are left out.         *)
(***************************************************************************)
EXTENDS Naturals, Sequences, FiniteSets

CONSTANTS MaxNodes,   \* bound: nodes ever created, Begin among them
          Toolboxes,  \* bound: sets of labels that are used together, each with
                      \* a number of nodes; one is chosen at the start
          MaxCases    \* bound: cases of a Switch

Begin == 1
None == 0
Ids == 1..MaxNodes

Labels == {"Begin", "Message", "Agent", "Tool", "Switch", "Categorize",
           "Iteration", "IterationStart", "Placeholder"}
MenuLabels == {"Message", "Agent", "Switch", "Categorize", "Iteration"}

ASSUME GraphAssumption ==
  /\ MaxNodes \in Nat \ {0}
  /\ Toolboxes \subseteq [kinds : SUBSET MenuLabels, size : Ids]
  /\ MaxCases \in {1, 2}

CaseNames == <<"Case 1", "Case 2">>
Else == "end_cpn_ids"
ItemNames == {"item 1", "item 2"}     \* bound: two categories of a Categorize
Handles == {"start", "tool", "agentBottom", "agentException", Else}
             \cup {CaseNames[i] : i \in DOMAIN CaseNames} \cup ItemNames

Edges == [source : Ids, handle : Handles, target : Ids]
Cases == UNION {[1..n -> SUBSET Ids] : n \in 0..Len(CaseNames)}

VARIABLES nodes,        \* the live nodes: identifier -> record
          edges,        \* a set of edges
          created,      \* the last identifier given out
          placeholder,  \* createdPlaceholderRef
          sheet,        \* the values of an open Switch form
          toolbox       \* the bound chosen for this behaviour

canvasVars == <<nodes, edges, created, placeholder, sheet>>
graphVars == <<nodes, edges, created, placeholder, sheet, toolbox>>

NoSheet == [node |-> None, cases |-> <<>>, other |-> {}]

\* What addCanvasNode and initializeOperatorParams put into a new node.
NewNode(kind, parent) ==
  [kind |-> kind, parent |-> parent,
   cases |-> IF kind = "Switch" THEN <<{}>> ELSE <<>>, other |-> {},
   items |-> {}, tools |-> FALSE, goto |-> FALSE]

GraphInit ==
  /\ nodes = [n \in {Begin} |-> NewNode("Begin", None)]
  /\ edges = {}
  /\ created = Begin
  /\ placeholder = None
  /\ sheet = NoSheet
  /\ toolbox \in Toolboxes

-----------------------------------------------------------------------------
(* Reading the graph.                                                      *)

Live == DOMAIN nodes
Edge(s, h, t) == [source |-> s, handle |-> h, target |-> t]
Touching(n) == {e \in edges : n \in {e.source, e.target}}

IsSubAgent(n) == \E e \in edges : e.target = n /\ e.handle = "agentBottom"

\* The handles a node shows on its right side, from which edges are drawn.
RightHandles(n) ==
  CASE nodes[n].kind \in {"Tool", "Placeholder"} -> {}
    [] nodes[n].kind = "Switch" ->
         {CaseNames[i] : i \in DOMAIN nodes[n].cases} \cup {Else}
    [] nodes[n].kind = "Categorize" -> nodes[n].items
    [] nodes[n].kind = "Agent" ->
         (IF IsSubAgent(n) THEN {} ELSE {"start"})
         \cup (IF nodes[n].goto THEN {"agentException"} ELSE {})
    [] OTHER -> {"start"}

\* The nodes that edges of es lead to from n: they are in every set that holds
\* the targets of n and of its own members.
Reach(n, es) ==
  LET Closed == {S \in SUBSET Ids : \A e \in es : e.source \in S \cup {n} => e.target \in S}
  IN  {m \in Ids : \A S \in Closed : m \in S}

\* getOutgoers returns live nodes only.
LiveEdges == {e \in edges : e.target \in Live}

\* Mutant: only an edge straight back is seen.
HasCanvasCycleBack(s, t) == \E e \in LiveEdges : e.source = t /\ e.target = s

HasCanvasCycle(s, t) == s \in Reach(t, LiveEdges)

IsSameNodeChild(s, t) == nodes[s].parent = nodes[t].parent

\* RestrictedUpstreamMap, for the labels modelled here.
Restricted(s, t) ==
  \/ nodes[t].kind = "Begin" /\ nodes[s].kind # "Begin"
  \/ nodes[s].kind = nodes[t].kind /\ nodes[s].kind \in {"Message", "Categorize"}
  \/ nodes[s].kind = "Message" /\ nodes[t].kind = "Categorize"

IsValidConnection(s, t) ==
  /\ s # t
  /\ ~Restricted(s, t)
  /\ IsSameNodeChild(s, t)
  /\ ~HasCanvasCycle(s, t)

-----------------------------------------------------------------------------
(* Writing it.                                                             *)

\* updateSwitchFormData: the targets of the handle go into the form.  A case
\* that is no longer in the form is made again by lodash's set; the handle
\* "start", which a Switch does not show, has no case (its index is NaN).
UpdateSwitch(ns, s, h, targets) ==
  IF s \notin DOMAIN ns \/ ns[s].kind # "Switch" \/ h = "start" THEN ns
  ELSE IF h = Else THEN [ns EXCEPT ![s].other = targets]
  ELSE LET i == CHOOSE j \in DOMAIN CaseNames : CaseNames[j] = h
           had == ns[s].cases
       IN  [ns EXCEPT ![s].cases =
              [j \in 1..(IF i > Len(had) THEN i ELSE Len(had)) |->
                 IF j = i THEN targets
                 ELSE IF j \in DOMAIN had THEN had[j] ELSE {}]]

TargetsOf(es, s, h) == {e.target : e \in {x \in es : x.source = s /\ x.handle = h}}

\* addEdge of the store, with updateFormDataOnConnect.
NodesAfterEdge(ns, es, e) ==
  UpdateSwitch(ns, e.source, e.handle, TargetsOf(es \cup {e}, e.source, e.handle))

Without(ns, gone) == [n \in DOMAIN ns \ gone |-> ns[n]]
With(ns, n, node) == [m \in DOMAIN ns \cup {n} |-> IF m = n THEN node ELSE ns[m]]

\* useHideFormSheetOnNodeDeletion
SheetAfter(gone) == IF sheet.node \in gone THEN NoSheet ELSE sheet

\* Nodes of these identifiers and these edges leave the graph.
Remove(gone, cut) ==
  /\ nodes' = Without(nodes, gone)
  /\ edges' = edges \ cut
  /\ sheet' = SheetAfter(gone)
  /\ UNCHANGED <<created, placeholder>>

-----------------------------------------------------------------------------
(* Adding.                                                                 *)

\* addCanvasNode behind the handle h of n; an iteration comes with its start
\* node and hangs on the "start" handle whatever handle was clicked.
AddNext(n, h, kind) ==
  /\ h \in RightHandles(n)
  /\ kind # "Iteration"
  /\ created < toolbox.size
  /\ LET new == created + 1
         e == Edge(n, h, new)
     IN  /\ nodes' = NodesAfterEdge(With(nodes, new, NewNode(kind, nodes[n].parent)),
                                    edges, e)
         /\ edges' = edges \cup {e}
         /\ created' = new
  /\ UNCHANGED <<placeholder, sheet>>

WithIteration(ns, parent) ==
  With(With(ns, created + 1, NewNode("Iteration", parent)),
       created + 2, NewNode("IterationStart", created + 1))

AddIteration(n, h) ==
  /\ h \in RightHandles(n)
  /\ created + 1 < toolbox.size
  /\ nodes' = WithIteration(nodes, nodes[n].parent)
  /\ edges' = edges \cup {Edge(n, "start", created + 1)}
  /\ created' = created + 2
  /\ UNCHANGED <<placeholder, sheet>>

\* "Add agent" in the form of an agent.
AddSubAgent(n) ==
  /\ nodes[n].kind = "Agent"
  /\ created < toolbox.size
  /\ nodes' = With(nodes, created + 1, NewNode("Agent", nodes[n].parent))
  /\ edges' = edges \cup {Edge(n, "agentBottom", created + 1)}
  /\ created' = created + 1
  /\ UNCHANGED <<placeholder, sheet>>

\* addToolNode keeps a tool node that is there already.
HasToolNode(n) == \E t \in TargetsOf(edges, n, "tool") : t \in Live

\* The tools of an agent change (or its form is opened): the effect of
\* ToolPopover adds a tool node or removes it.
SetTools(n, some) ==
  /\ nodes[n].kind = "Agent"
  /\ LET set == [nodes EXCEPT ![n].tools = some]
     IN  \/ /\ some /\ ~HasToolNode(n)
            /\ created < toolbox.size
            /\ nodes' = With(set, created + 1, NewNode("Tool", nodes[n].parent))
            /\ edges' = edges \cup {Edge(n, "tool", created + 1)}
            /\ created' = created + 1
         \/ /\ some /\ HasToolNode(n)
            /\ nodes' = set
            /\ UNCHANGED <<edges, created>>
         \/ /\ ~some
            /\ \/ /\ TargetsOf(edges, n, "tool") = {}
                  /\ nodes' = set
                  /\ UNCHANGED edges
               \/ \E t \in TargetsOf(edges, n, "tool") :   \* deleteAgentToolNodeById
                    /\ nodes' = Without(set, {t})
                    /\ edges' = edges \ Touching(t)
            /\ UNCHANGED created
  /\ UNCHANGED <<placeholder, sheet>>

\* isFromConnectionDrag: an edge is dropped on the pane.  A placeholder that
\* is still there is removed first; its name stays in a Switch form.
DragToPane(n, h) ==
  /\ h \in RightHandles(n)
  /\ created < toolbox.size
  /\ LET old == {m \in Live : nodes[m].kind = "Placeholder"}
         kept == {e \in edges : {e.source, e.target} \cap old = {}}
         new == created + 1
         e == Edge(n, h, new)
     IN  /\ nodes' = NodesAfterEdge(
                       With(Without(nodes, old), new,
                            NewNode("Placeholder", nodes[n].parent)), kept, e)
         /\ edges' = kept \cup {e}
         /\ created' = new
         /\ placeholder' = new
  /\ UNCHANGED sheet

\* A menu entry is picked: addCanvasNode is called with no node of origin, for
\* the start of the drag is forgotten, then onNodeCreated draws the
\* placeholder's edge to the new node and deletes the placeholder.
PickNode(kind) ==
  /\ placeholder # None
  /\ created + (IF kind = "Iteration" THEN 1 ELSE 0) < toolbox.size
  /\ LET new == created + 1
         added == IF kind = "Iteration" THEN WithIteration(nodes, None)
                  ELSE With(nodes, new, NewNode(kind, None))
         drawn == {Edge(e.source, e.handle, new) :
                     e \in {x \in edges : x.target = placeholder}}
     IN  /\ nodes' = Without(
                       IF drawn = {} THEN added
                       ELSE NodesAfterEdge(added, edges, CHOOSE e \in drawn : TRUE),
                       {placeholder})
         /\ edges' = (edges \cup drawn) \ Touching(placeholder)
         /\ created' = IF kind = "Iteration" THEN new + 1 ELSE new
         /\ placeholder' = None
  /\ UNCHANGED sheet

\* removePlaceholderNode: a click on the pane, a move of the canvas, Escape.
CancelPick ==
  /\ placeholder # None
  /\ nodes' = Without(nodes, {placeholder})
  /\ edges' = edges \ Touching(placeholder)
  /\ placeholder' = None
  /\ UNCHANGED <<created, sheet>>

\* The nodes that show a target handle on their left side.
HasLeftHandle(n) == nodes[n].kind \in MenuLabels /\ ~IsSubAgent(n)

\* An edge is drawn by hand between two nodes.
Connect(s, h, t) ==
  /\ h \in RightHandles(s)
  /\ HasLeftHandle(t)
  /\ Edge(s, h, t) \notin edges
  /\ IsValidConnection(s, t)
  /\ nodes' = NodesAfterEdge(nodes, edges, Edge(s, h, t))
  /\ edges' = edges \cup {Edge(s, h, t)}
  /\ UNCHANGED <<created, placeholder, sheet>>

\* duplicateNodeForm leaves the targets of a Switch in the copy.  For a
\* Categorize it reads the keys of category_description, a field that only the
\* DSL has: it raises, and nothing is copied.
Duplicate(n) ==
  /\ nodes[n].kind \in MenuLabels
  /\ \A m \in Live :
       m = n \/ (nodes[n].kind = "Iteration" /\ nodes[m].parent = n)
         => nodes[m].kind # "Categorize"
  /\ LET inside == {m \in Live : nodes[m].parent = n}
         copied == IF nodes[n].kind = "Iteration" THEN inside ELSE {}
         copy == created + 1
     IN  /\ created + 1 + Cardinality(copied) <= toolbox.size
         /\ \E f \in [copied -> (copy + 1)..(copy + Cardinality(copied))] :
              /\ \A a, b \in copied : f[a] = f[b] => a = b
              /\ nodes' = [m \in Live \cup {copy} \cup {f[x] : x \in copied} |->
                   IF m = copy THEN nodes[n]
                   ELSE IF m \in Live THEN nodes[m]
                   ELSE [nodes[CHOOSE x \in copied : f[x] = m] EXCEPT !.parent = copy]]
         /\ created' = copy + Cardinality(copied)
  /\ UNCHANGED <<edges, placeholder, sheet>>

-----------------------------------------------------------------------------
(* Removing.                                                               *)

\* The x of an edge, which edges of sub-agents, tools and placeholders lack.
DeleteEdge(e) ==
  /\ e \in edges /\ {e.source, e.target} \subseteq Live
  /\ e.handle \notin {"tool", "agentBottom"}
  /\ nodes[e.target].kind \notin {"Tool", "Placeholder"}
  /\ nodes' = UpdateSwitch(nodes, e.source, e.handle,
                           TargetsOf(edges, e.source, e.handle) \ {e.target})
  /\ edges' = edges \ {e}
  /\ UNCHANGED <<created, placeholder, sheet>>

\* deleteNodeById: the toolbar of a node that is neither agent nor iteration.
DeleteNode(n) ==
  /\ nodes[n].kind \in MenuLabels \ {"Agent", "Iteration"}
  /\ Remove({n}, Touching(n))

\* deleteIterationNodeById: of the edges between the children only those from
\* a child to itself are cut, the condition asks for both ends with "and".
DeleteIteration(n) ==
  /\ nodes[n].kind = "Iteration"
  /\ LET children == {m \in Live : nodes[m].parent = n}
     IN  Remove({n} \cup children,
                Touching(n) \cup {e \in edges : e.source \in children
                                                /\ e.target = e.source})

\* filterAllDownstreamAgentAndToolNodeIds
Below(n, es) == Reach(n, {e \in es : e.handle \in {"agentBottom", "tool"}})
\* deleteAllDownstreamAgentsAndTool: of the edges of the nodes below, the
\* accumulator takes one only, the first edge of the first node.
EdgesBelow(n, es) ==
  LET first == {e.target : e \in {x \in es : x.source = n
                                     /\ x.handle \in {"agentBottom", "tool"}}}
  IN  IF first = {} THEN {{}}
      ELSE {{e} : e \in {x \in es : {x.source, x.target} \cap first # {}}}

\* deleteAgentDownstreamNodesById: the toolbar, or the list of sub-agents.
DeleteAgent(n) ==
  /\ nodes[n].kind = "Agent"
  /\ \E more \in EdgesBelow(n, edges) :
       Remove({n} \cup Below(n, edges), Touching(n) \cup more)

\* What xyflow hands to handleBeforeDelete: the selection, what lies in it,
\* and the edges of all these nodes.
Selected(sel) ==
  {m \in Live : \/ m \in sel
                \/ nodes[m].parent \in sel
                \/ nodes[m].parent \in Live /\ nodes[nodes[m].parent].parent \in sel}

\* Mutant: only Begin stays.
DeletableAllButBegin(all) == {m \in all : nodes[m].kind # "Begin"}

\* handleBeforeDelete: Begin stays, and the start of an iteration stays unless
\* the iteration goes; what hangs below an agent goes with it, as far as the
\* edges handed over reach.
Deletable(all) ==
  {m \in all : /\ nodes[m].kind # "Begin"
               /\ nodes[m].kind = "IterationStart" => nodes[m].parent \in all}
DeletableEdges(all, es) ==
  {e \in es : ~(/\ e.source \in all /\ e.target \notin all
                /\ nodes[e.source].kind \in {"Begin", "IterationStart"})}

\* The Delete key: xyflow removes what handleBeforeDelete returns.
DeleteSelection(sel, es) ==
  LET all == Selected(sel)
      touched == es \cup UNION {Touching(m) : m \in all}
      agents == {m \in all : nodes[m].kind = "Agent"}
  IN  Remove(Deletable(all) \cup UNION {Below(a, touched) : a \in agents},
             DeletableEdges(all, touched))

-----------------------------------------------------------------------------
(* Forms.                                                                  *)

\* The form sheet of a Switch copies the form when it opens.
OpenSwitchForm(n) ==
  /\ nodes[n].kind = "Switch"
  /\ sheet' = [node |-> n, cases |-> nodes[n].cases, other |-> nodes[n].other]
  /\ UNCHANGED <<nodes, edges, created, placeholder>>

\* Every edit of the sheet writes all its values: a case is added or removed
\* (never the first), or another field changes.
EditSwitchForm ==
  /\ sheet.node # None
  /\ LET had == sheet.cases
     IN  sheet' \in {[sheet EXCEPT !.cases = c] :
           c \in {had}
                 \cup (IF Len(had) < MaxCases THEN {Append(had, {})} ELSE {})
                 \cup {SubSeq(had, 1, i - 1) \o SubSeq(had, i + 1, Len(had)) :
                         i \in 2..Len(had)}}
  /\ nodes' = [nodes EXCEPT ![sheet.node].cases = sheet'.cases,
                            ![sheet.node].other = sheet.other]
  /\ UNCHANGED <<edges, created, placeholder>>

CloseSheet ==
  /\ sheet' = NoSheet
  /\ UNCHANGED <<nodes, edges, created, placeholder>>

\* handleAdd and handleRemove of DynamicCategorize.
AddItem(n, u) ==
  /\ nodes[n].kind = "Categorize" /\ u \notin nodes[n].items
  /\ nodes' = [nodes EXCEPT ![n].items = @ \cup {u}]
  /\ UNCHANGED <<edges, created, placeholder, sheet>>

\* Mutant: the edges of the category stay.
RemoveItemOnly(n, u) ==
  /\ nodes[n].kind = "Categorize" /\ u \in nodes[n].items
  /\ nodes' = [nodes EXCEPT ![n].items = @ \ {u}]
  /\ UNCHANGED <<edges, created, placeholder, sheet>>

RemoveItem(n, u) ==
  /\ nodes[n].kind = "Categorize" /\ u \in nodes[n].items
  /\ nodes' = [nodes EXCEPT ![n].items = @ \ {u}]
  /\ edges' = {e \in edges : ~(e.source = n /\ e.handle = u)}
  /\ UNCHANGED <<created, placeholder, sheet>>

\* The exception method of an agent: all but "goto" cut the exception edges.
SetGoto(n, goto) ==
  /\ nodes[n].kind = "Agent"
  /\ nodes' = [nodes EXCEPT ![n].goto = goto]
  /\ edges' = IF goto THEN edges
              ELSE {e \in edges : ~(e.source = n /\ e.handle = "agentException")}
  /\ UNCHANGED <<created, placeholder, sheet>>

-----------------------------------------------------------------------------
GraphStep ==
  \/ \E n \in Live : \E h \in RightHandles(n) :
       \/ \E kind \in toolbox.kinds : AddNext(n, h, kind)
       \/ "Iteration" \in toolbox.kinds /\ AddIteration(n, h)
       \/ DragToPane(n, h)
       \/ \E t \in Live : Connect(n, h, t)
  \/ \E kind \in toolbox.kinds : PickNode(kind)
  \/ CancelPick
  \/ \E n \in Live :
       \/ AddSubAgent(n)
       \/ \E some \in BOOLEAN : SetTools(n, some)
       \/ \E goto \in BOOLEAN : SetGoto(n, goto)
       \/ Duplicate(n)
       \/ DeleteNode(n)
       \/ DeleteIteration(n)
       \/ DeleteAgent(n)
       \/ OpenSwitchForm(n)
       \/ \E u \in ItemNames : AddItem(n, u) \/ RemoveItem(n, u)
  \/ \E m, n \in Live : m <= n /\ DeleteSelection({m, n}, {})
  \/ \E e \in edges : DeleteEdge(e) \/ DeleteSelection({}, {e})
  \/ EditSwitchForm
  \/ CloseSheet

GraphNext == GraphStep /\ UNCHANGED toolbox

GraphSpec == GraphInit /\ [][GraphNext]_graphVars

-----------------------------------------------------------------------------
(* Properties.                                                             *)

GraphTypeOK ==
  /\ created \in Ids
  /\ Live \subseteq 1..created
  /\ \A n \in Live :
       nodes[n] \in [kind : Labels, parent : Ids \cup {None}, cases : Cases,
                     other : SUBSET Ids, items : SUBSET ItemNames,
                     tools : BOOLEAN, goto : BOOLEAN]
  /\ edges \subseteq Edges
  /\ placeholder \in Ids \cup {None}
  /\ toolbox \in Toolboxes
  /\ sheet \in [node : Ids \cup {None}, cases : Cases, other : SUBSET Ids]

\* hasCanvasCycle is asked for edges drawn by hand only; whatever order edges
\* are drawn, nodes added, copied and removed in, no run of the agent can come
\* back to a node: of any nodes, one has no edge to any of them.
GraphAcyclic ==
  \A S \in (SUBSET {e.source : e \in edges}) \ {{}} :
    \E n \in S : \A e \in edges : e.source = n => e.target \notin S

\* The branches of a Categorize and the exception branch of an agent are drawn
\* as edges and decided by a form, which are changed by different handlers: the
\* DSL has no target for a category that is gone, nor an exception_goto for an
\* agent whose method is another one, whatever was dragged, picked or copied
\* while the form changed.
EdgesMatchForms ==
  \A e \in edges : e.source \in Live =>
    /\ nodes[e.source].kind = "Categorize" /\ e.handle \in ItemNames
         => e.handle \in nodes[e.source].items
    /\ e.handle = "agentException" => nodes[e.source].goto

\* handleBeforeDelete: Begin is never removed, and an iteration that stays
\* keeps its start node, whatever is selected when Delete is pressed.
FixedNodesStay ==
  [][\A n \in Live \ Live' :
       /\ n # Begin
       /\ nodes[n].kind = "IterationStart" => nodes[n].parent \notin Live']_graphVars
=============================================================================
