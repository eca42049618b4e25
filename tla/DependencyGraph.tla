-------------------------- MODULE DependencyGraph --------------------------
(***************************************************************************)
(* The dependency graph of a conductor session: DAGBuilder in              *)
(* conductor/dag.py, which reads the dependencies out of the prompts,      *)
(* refuses cycles by a depth-first search and orders the agents, and the   *)
(* grouping of the agents by repository in atomic_commit_multi_repo().     *)
(*                                                                         *)
(* The calls of the recursive dfs() are a stack of frames.  Agents are     *)
(* their numbers, for zero-padded ids sort as the numbers do.  A prompt is *)
(* the set of numbers its CONTRACTS_CONSUMED block mentions.               *)
(***************************************************************************)
EXTENDS Naturals, Sequences, FiniteSets

CONSTANTS
  Agents,   \* numbers of the session's agents
  Foreign,  \* numbers of agents of a larger plan, not in this session
  Repos

ASSUME GraphAssumption ==
  /\ Agents \subseteq Nat /\ IsFiniteSet(Agents)
  /\ Foreign \subseteq Nat /\ Foreign \cap Agents = {}

VARIABLES
  at,           \* the function that runs, or how it ended
  unread,       \* agents whose prompt build() has still to read
  depends_on,   \* the nodes' two edge lists
  required_by,
  visited,      \* _validate()
  in_stack,
  calls,
  in_degree,    \* topological_order()
  queue,
  order,
  repo_order,   \* atomic_commit_multi_repo()
  repo_agents

edges    == <<depends_on, required_by>>
search   == <<visited, in_stack, calls>>
sorting  == <<in_degree, queue, order>>
grouping == <<repo_order, repo_agents>>
vars     == <<at, unread, edges, search, sorting, grouping>>

----------------------------------------------------------------------------
Least(S) == CHOOSE a \in S : \A b \in S : a <= b

\* One call of dfs(): its node and the dependencies it has still to look at.
Frame(a) == [node |-> a, todo |-> depends_on[a]]
Top      == calls[Len(calls)]
Grouped  == Cardinality(UNION {{repo_agents[r][i] : i \in 1..Len(repo_agents[r])}
                                 : r \in Repos})

Init ==
  /\ at = "build"
  /\ unread = Agents
  /\ depends_on = [a \in Agents |-> {}] /\ required_by = [a \in Agents |-> {}]
  /\ visited = {} /\ in_stack = {} /\ calls = <<>>
  /\ in_degree = [a \in Agents |-> 0] /\ queue = {} /\ order = <<>>
  /\ repo_order = <<>> /\ repo_agents = [r \in Repos |-> <<>>]

----------------------------------------------------------------------------
(* build() *)

\* The next prompt is read.  References to agents outside the session and to
\* the agent itself are skipped.
Read ==
  /\ at = "build" /\ unread # {}
  /\ LET a == Least(unread) IN
     /\ \E mentioned \in SUBSET (Agents \cup Foreign) :
          LET deps == (mentioned \cap Agents) \ {a} IN
          /\ depends_on' = [depends_on EXCEPT ![a] = deps]
          /\ required_by' = [n \in Agents |-> IF n \in deps THEN required_by[n] \cup {a}
                                                            ELSE required_by[n]]
     /\ unread' = unread \ {a}
  /\ UNCHANGED <<at, search, sorting, grouping>>

Validate ==
  /\ at = "build" /\ unread = {}
  /\ at' = "validate"
  /\ UNCHANGED <<unread, edges, search, sorting, grouping>>

----------------------------------------------------------------------------
(* _validate() *)

\* dfs(a), from the frames that are already there.
Call(a, frames) ==
  /\ visited' = visited \cup {a}
  /\ in_stack' = in_stack \cup {a}
  /\ calls' = Append(frames, Frame(a))

Root ==
  /\ at = "validate" /\ calls = <<>> /\ visited # Agents
  /\ Call(Least(Agents \ visited), calls)
  /\ UNCHANGED <<at, unread, edges, sorting, grouping>>

\* The call at the top looks at its next dependency, which is not visited yet,
\* or finished, or one of the callers.
Look ==
  /\ at = "validate" /\ calls # <<>>
  /\ \E d \in Top.todo :
       LET rest == [calls EXCEPT ![Len(calls)].todo = @ \ {d}] IN
       \/ /\ d \notin visited
          /\ Call(d, rest)
          /\ UNCHANGED at
       \/ /\ d \in visited \ in_stack
          /\ calls' = rest
          /\ UNCHANGED <<at, visited, in_stack>>
       \/ /\ d \in in_stack
          /\ at' = "refused"
          /\ UNCHANGED search
  /\ UNCHANGED <<unread, edges, sorting, grouping>>

\* Mutant of Finish: a node that is finished stays in in_stack.
FinishInStack ==
  /\ at = "validate" /\ calls # <<>> /\ Top.todo = {}
  /\ calls' = SubSeq(calls, 1, Len(calls) - 1)
  /\ UNCHANGED <<at, unread, edges, visited, in_stack, sorting, grouping>>

Finish ==
  /\ at = "validate" /\ calls # <<>> /\ Top.todo = {}
  /\ in_stack' = in_stack \ {Top.node}
  /\ calls' = SubSeq(calls, 1, Len(calls) - 1)
  /\ UNCHANGED <<at, unread, edges, visited, sorting, grouping>>

----------------------------------------------------------------------------
(* topological_order() *)

CountEdges ==
  /\ at = "validate" /\ calls = <<>> /\ visited = Agents
  /\ in_degree' = [a \in Agents |-> Cardinality(depends_on[a])]
  /\ queue' = {a \in Agents : depends_on[a] = {}}
  /\ at' = "order"
  /\ UNCHANGED <<unread, edges, search, order, grouping>>

\* Agent a leaves the queue, and those it was the last to hold up join it.
Take(a) ==
  /\ order' = Append(order, a)
  /\ in_degree' = [n \in Agents |-> IF n \in required_by[a] THEN in_degree[n] - 1
                                                            ELSE in_degree[n]]
  /\ queue' = (queue \ {a}) \cup {n \in required_by[a] : in_degree[n] = 1}
  /\ UNCHANGED <<at, unread, edges, search, grouping>>

\* Mutant of Emit: the queue is not sorted.
EmitAny == at = "order" /\ \E a \in queue : Take(a)

Emit == at = "order" /\ queue # {} /\ Take(Least(queue))

Ordered ==
  /\ at = "order" /\ queue = {}
  /\ at' = IF Len(order) # Cardinality(Agents) THEN "broken" ELSE "group"
  /\ UNCHANGED <<unread, edges, search, sorting, grouping>>

----------------------------------------------------------------------------
(* The grouping by repository.  An agent's repository was given in the      *)
(* wizard and is first looked at here.                                      *)

\* Mutant of Group: a repository that is met for the first time goes first.
GroupFirst ==
  /\ at = "group" /\ Grouped < Len(order)
  /\ \E r \in Repos :
       /\ repo_order' = IF repo_agents[r] = <<>> THEN <<r>> \o repo_order ELSE repo_order
       /\ repo_agents' = [repo_agents EXCEPT ![r] = Append(@, order[Grouped + 1])]
  /\ UNCHANGED <<at, unread, edges, search, sorting>>

Group ==
  /\ at = "group" /\ Grouped < Len(order)
  /\ \E r \in Repos :
       /\ repo_order' = IF repo_agents[r] = <<>> THEN Append(repo_order, r) ELSE repo_order
       /\ repo_agents' = [repo_agents EXCEPT ![r] = Append(@, order[Grouped + 1])]
  /\ UNCHANGED <<at, unread, edges, search, sorting>>

AllGrouped ==
  /\ at = "group" /\ Grouped = Len(order)
  /\ at' = "grouped"
  /\ UNCHANGED <<unread, edges, search, sorting, grouping>>

----------------------------------------------------------------------------
Next ==
  \/ Read \/ Validate
  \/ Root \/ Look \/ Finish
  \/ CountEdges \/ Emit \/ Ordered
  \/ Group \/ AllGrouped

Spec == Init /\ [][Next]_vars

----------------------------------------------------------------------------
(* The reference definitions *)

\* Every agent of some set waits for another of the set.
Cyclic == \E S \in (SUBSET Agents) \ {{}} : \A a \in S : depends_on[a] \cap S # {}

Place(a)  == CHOOSE i \in 1..Len(order) : order[i] = a
RepoOf(a) == CHOOSE r \in Repos : \E i \in 1..Len(repo_agents[r]) : repo_agents[r][i] = a
Turn(r)   == CHOOSE i \in 1..Len(repo_order) : repo_order[i] = r

----------------------------------------------------------------------------
(* Properties *)

\* The graph's two edge lists mirror each other once the prompts are read,
\* and every other variable is of its type.
TypeOK ==
  /\ at \in {"build", "validate", "refused", "order", "broken", "group", "grouped"}
  /\ unread \subseteq Agents /\ visited \subseteq Agents
  /\ in_stack = {calls[i].node : i \in 1..Len(calls)}
  /\ \A a, b \in Agents : a \in depends_on[b] <=> b \in required_by[a]
  /\ in_degree \in [Agents -> Nat] /\ queue \subseteq Agents
  /\ order \in Seq(Agents) /\ repo_order \in Seq(Repos)
  /\ repo_agents \in [Repos -> Seq(Agents)]

\* The search refuses exactly the sessions in which some agents wait for one
\* another in a circle; a shared dependency is none.  The sort agrees: its error
\* "cycle present despite earlier check" is never raised.
CycleVerdict ==
  /\ at = "refused" => Cyclic
  /\ at \in {"order", "group", "grouped"} => ~Cyclic
  /\ at # "broken"

\* The order is the least topological order: each agent is the least of those
\* all of whose dependencies come before it.
OrderIsLeast ==
  /\ \A i \in 1..Len(order) :
       LET before == {order[j] : j \in 1..(i - 1)}
       IN order[i] = Least({a \in Agents \ before : depends_on[a] \subseteq before})
  /\ at \in {"group", "grouped"} => {order[i] : i \in 1..Len(order)} = Agents

\* What the repositories' order does give: when a repository's turn comes, all
\* that its first agent depends on is in repositories before it, and each
\* agent is in exactly one group.
FirstAgentsAreServed ==
  at = "grouped" =>
    /\ \A r \in Repos : repo_agents[r] # <<>> =>
         \A d \in depends_on[repo_agents[r][1]] : Turn(RepoOf(d)) < Turn(r)
    /\ \A r, s \in Repos : \A i \in 1..Len(repo_agents[r]), j \in 1..Len(repo_agents[s]) :
         repo_agents[r][i] = repo_agents[s][j] => r = s /\ i = j

\* What the docstring of atomic_commit_multi_repo() says: a producer's
\* repository comes before any repository that consumes from it.  It does not
\* hold, and no run checks it: let 1 and 3 be in one repository, 2 in another,
\* and 3 depend on 2.
ProducersFirst ==
  at = "grouped" =>
    \A a \in Agents : \A d \in depends_on[a] :
      RepoOf(d) # RepoOf(a) => Turn(RepoOf(d)) < Turn(RepoOf(a))

=============================================================================
