----------------------------- MODULE AtlasGraph ------------------------------
(***************************************************************************)
(* build_graph() of scripts/atlas_sync.py: the relations the issues state, *)
(* resolved to parents and blockers, and the cycles among them.            *)
(*                                                                         *)
(* Python iterates a set in an order of its own, so the depth-first search *)
(* takes the nodes, and the blockers of a node, in any order.              *)
(***************************************************************************)
EXTENDS Integers, FiniteSets, Sequences

CONSTANTS
  Work,         \* the work issues of the repository
  Maps,         \* its map issues, which may be parents and have none
  Elsewhere,    \* targets that do not exist or are in another repository
  NoIssue,
  PartOf,       \* what an issue may state: the targets of its Part of lines,
  Native,       \* its native parent or NoIssue,
  BlockedBy     \* and the targets of its Blocked by and Depends on lines

ASSUME AtlasAssumption ==
  /\ IsFiniteSet(Work) /\ NoIssue \notin Work \cup Maps \cup Elsewhere /\ Work \cap Maps = {}
  /\ \A ts \in PartOf \cup BlockedBy : ts \subseteq Work \cup Maps \cup Elsewhere
  /\ Native \subseteq Work \cup Maps \cup Elsewhere \cup {NoIssue}

VARIABLES
  text, native, blockers,  \* what the issues state
  parent,       \* node.parent
  edges,        \* node.blocked_by without the maps: nothing blocks a map
  todo,         \* the blockers of a node the search has still to look at
  color,        \* of every node: "white", "gray" or "black"
  stack,
  cyclic        \* the nodes reported to be on a prerequisite cycle

atlasVars == <<text, native, blockers, parent, edges, todo, color, stack, cyclic>>

-----------------------------------------------------------------------------
(* Resolving what an issue states *)

\* One Part of line counts, several do not, and a native parent has to agree.
Stated(ts, n) ==
  LET line == IF Cardinality(ts) = 1 THEN CHOOSE t \in ts : TRUE ELSE NoIssue IN
  CASE n = NoIssue -> line
    [] line = NoIssue -> n
    [] OTHER -> IF n = line THEN n ELSE NoIssue

\* Lines that name another repository are dropped before they are counted.
resolve_containment(w) ==
  LET p == Stated(text[w], native[w]) IN IF p \in (Work \cup Maps) \ {w} THEN p ELSE NoIssue

resolve_blocked_by(w) == (blockers[w] \cap Work) \ {w}

\* Mutant: only an issue and its parent's parent are compared.
WalksOfTwo(parents, len) ==
  {path \in [1..len -> Work] :
     len <= 2 /\ \A i \in 1..len - 1 : path[i + 1] = parents[path[i]] /\ path[i + 1] # path[i]}

\* The paths of issues, all different, from any of them upwards.
Walks(parents, len) ==
  {path \in [1..len -> Work] :
     /\ \A i \in 1..len - 1 : path[i + 1] = parents[path[i]]
     /\ \A i, j \in 1..len : path[i] = path[j] => i = j}

\* A walk that comes round to path[idx] has met path[idx:] on a cycle.
find_containment_cycle_members(parents) ==
  {n \in Work : \E len \in 1..Cardinality(Work) : \E path \in Walks(parents, len), idx \in 1..len :
     parents[path[len]] = path[idx] /\ \E k \in idx..len : path[k] = n}

\* The members of a containment cycle lose their parents.
Resolve ==
  LET parents == [w \in Work |-> resolve_containment(w)] IN
  /\ color = <<>>
  /\ parent' = [w \in Work |-> IF w \in find_containment_cycle_members(parents) THEN NoIssue ELSE parents[w]]
  /\ edges' = [w \in Work |-> resolve_blocked_by(w)] /\ todo' = edges'
  /\ color' = [w \in Work |-> "white"]
  /\ UNCHANGED <<text, native, blockers, stack, cyclic>>

-----------------------------------------------------------------------------
(* find_prereq_cycle_members() *)

Push(u) == color' = [color EXCEPT ![u] = "gray"] /\ stack' = Append(stack, u)

Top == stack[Len(stack)]

\* A node that was not reached yet starts a search.
StartSearch(n) ==
  /\ color # <<>> /\ stack = <<>> /\ color[n] = "white" /\ Push(n)
  /\ UNCHANGED <<text, native, blockers, parent, edges, todo, cyclic>>

\* Mutant: a blocker that is still on the stack is passed over like a finished one.
LookAtFinished(v) ==
  /\ stack # <<>> /\ v \in todo[Top] /\ todo' = [todo EXCEPT ![Top] = @ \ {v}]
  /\ IF color[v] = "white" THEN Push(v) ELSE UNCHANGED <<color, stack>>
  /\ cyclic' = IF color[v] = "black" THEN cyclic \cup {v} ELSE cyclic
  /\ UNCHANGED <<text, native, blockers, parent, edges>>

\* The stack from a gray blocker on is a cycle.
LookAt(v) ==
  /\ stack # <<>> /\ v \in todo[Top] /\ todo' = [todo EXCEPT ![Top] = @ \ {v}]
  /\ IF color[v] = "white" THEN Push(v) ELSE UNCHANGED <<color, stack>>
  /\ cyclic' = IF color[v] = "gray"
                 THEN cyclic \cup {stack[k] : k \in {j \in DOMAIN stack :
                                     \E i \in 1..j : stack[i] = v}}
                 ELSE cyclic
  /\ UNCHANGED <<text, native, blockers, parent, edges>>

Retreat ==
  /\ stack # <<>> /\ todo[Top] = {}
  /\ color' = [color EXCEPT ![Top] = "black"] /\ stack' = SubSeq(stack, 1, Len(stack) - 1)
  /\ UNCHANGED <<text, native, blockers, parent, edges, todo, cyclic>>

-----------------------------------------------------------------------------
\* The two kinds of relation do not meet: one of them at a time is arbitrary.
AtlasInit ==
  /\ \/ text \in [Work -> PartOf] /\ native \in [Work -> Native] /\ blockers = [w \in Work |-> {}]
     \/ text = [w \in Work |-> {}] /\ native = [w \in Work |-> NoIssue] /\ blockers \in [Work -> BlockedBy]
  /\ parent = <<>> /\ edges = <<>> /\ todo = <<>> /\ color = <<>> /\ stack = <<>> /\ cyclic = {}

AtlasNext == Resolve \/ Retreat \/ \E w \in Work : StartSearch(w) \/ LookAt(w)

AtlasSpec == AtlasInit /\ [][AtlasNext]_atlasVars

-----------------------------------------------------------------------------
(* Properties *)

\* Who can be reached from x by one pair or more: whoever is in every set that
\* holds what x and its own members point at.
Reaches(pairs, x, y) ==
  \A ws \in SUBSET Work : (\A p \in pairs : p[1] \in ws \cup {x} => p[2] \in ws) => y \in ws

OnCycle(pairs) == {w \in Work : Reaches(pairs, w, w)}

Searched == color # <<>> /\ \A w \in Work : color[w] = "black"

Edges(ws) == {p \in ws \X ws : p[2] \in edges[p[1]]}

\* The parents the maps show form a forest, whatever the issues state.
ContainmentIsForest ==
  color # <<>> => OnCycle({p \in Work \X Work : parent[p[1]] = p[2]}) = {}

\* Whoever is reported is on a prerequisite cycle, and every cycle has a member
\* that is reported, in whatever order the search meets the issues.
CyclesAreReported ==
  Searched => cyclic \subseteq OnCycle(Edges(Work)) /\ OnCycle(Edges(Work \ cyclic)) = {}

\* find_prereq_cycle_members: all of them.
EveryMemberIsReported == Searched => cyclic = OnCycle(Edges(Work))

=============================================================================
