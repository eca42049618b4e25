----------------------- MODULE DependencyGraphProofs -----------------------
(***************************************************************************)
(* Proofs about DependencyGraph, for every session and whatever its        *)
(* prompts mention: the search refuses exactly the cyclic graphs, the sort *)
(* gives the least topological order of the others, and the grouping       *)
(* serves the first agent of each repository.                              *)
(*                                                                         *)
(* Each function starts when the one before it has ended, so the invariant *)
(* has a part for each, and the steps of one function leave the parts of   *)
(* the others alone.                                                       *)
(***************************************************************************)
EXTENDS DependencyGraph, FiniteSetTheorems, SequenceTheorems, TLAPS

----------------------------------------------------------------------------
(* The inductive invariant *)

Where  == {"build", "validate", "refused", "order", "broken", "group", "grouped"}
Frames == [node : Agents, todo : SUBSET Agents]

\* The variables' types, and what build() has done so far.
GraphTypes ==
  /\ at \in Where
  /\ unread \subseteq Agents
  /\ depends_on \in [Agents -> SUBSET Agents]
  /\ required_by \in [Agents -> SUBSET Agents]
  /\ visited \subseteq Agents
  /\ calls \in Seq(Frames)
  /\ in_degree \in [Agents -> Nat] /\ queue \subseteq Agents
  /\ order \in Seq(Agents) /\ repo_order \in Seq(Repos)
  /\ repo_agents \in [Repos -> Seq(Agents)]

EdgesMirror ==
  /\ \A a, b \in Agents : a \in depends_on[b] <=> b \in required_by[a]
  /\ \A a \in unread : depends_on[a] = {}
  /\ at # "build" => unread = {}

\* dfs() has returned from these.
Finished == visited \ in_stack

\* The frames are a path in the graph, and what a frame has looked at is
\* finished, or the node of the frame above it.
StackIsPath ==
  /\ in_stack = {calls[i].node : i \in 1..Len(calls)}
  /\ in_stack \subseteq visited
  /\ \A i, j \in 1..Len(calls) : calls[i].node = calls[j].node => i = j
  /\ \A i \in 1..(Len(calls) - 1) : calls[i + 1].node \in depends_on[calls[i].node]
  /\ \A i \in 1..Len(calls) : calls[i].todo \subseteq depends_on[calls[i].node]
  /\ \A i \in 1..Len(calls) : \A d \in depends_on[calls[i].node] \ calls[i].todo :
       d \in Finished \/ (i < Len(calls) /\ d = calls[i + 1].node)

\* The finished nodes wait for finished nodes only, and not in a circle.
FinishedIsAcyclic ==
  /\ \A a \in Finished : depends_on[a] \subseteq Finished
  /\ \A S \in (SUBSET Finished) \ {{}} : \E a \in S : depends_on[a] \cap S = {}

\* Before and after _validate().
SearchPhases ==
  /\ at = "build" => visited = {} /\ calls = <<>>
  /\ at \in {"order", "broken", "group", "grouped"} => Finished = Agents
  /\ at = "refused" => Cyclic

SearchInv == StackIsPath /\ FinishedIsAcyclic /\ SearchPhases

Emitted   == {order[j] : j \in 1..Len(order)}
Before(i) == {order[j] : j \in 1..(i - 1)}
\* The agents that may follow those of E.
MayFollow(E)  == {a \in Agents \ E : depends_on[a] \subseteq E}

\* The order so far is least and without repetition; while the sort runs, its
\* queue and its counters say what the order so far leaves open.
SortInv ==
  /\ at \in {"build", "validate", "refused"} => order = <<>>
  /\ \A i, j \in 1..Len(order) : order[i] = order[j] => i = j
  /\ \A i \in 1..Len(order) : /\ depends_on[order[i]] \subseteq Before(i)
                              /\ order[i] = Least(MayFollow(Before(i)))
  /\ at = "order" => /\ queue = MayFollow(Emitted)
                     /\ \A a \in Agents : in_degree[a] = Cardinality(depends_on[a] \ Emitted)
  /\ at \in {"group", "grouped"} => Emitted = Agents
  /\ at # "broken"

InRepo(r) == {repo_agents[r][i] : i \in 1..Len(repo_agents[r])}
Placed    == UNION {InRepo(r) : r \in Repos}

\* The groups hold the first k agents of the order, each once; a repository has
\* its turn when it gets its first agent, and what that agent depends on is in
\* the repositories before it.
GroupInv ==
  /\ at \notin {"group", "grouped"} => repo_order = <<>> /\ \A r \in Repos : repo_agents[r] = <<>>
  /\ \E k \in 0..Len(order) : Placed = Before(k + 1) /\ (at = "grouped" => k = Len(order))
  /\ \A r, s \in Repos : \A i \in 1..Len(repo_agents[r]), j \in 1..Len(repo_agents[s]) :
       repo_agents[r][i] = repo_agents[s][j] => r = s /\ i = j
  /\ \A t, u \in 1..Len(repo_order) : repo_order[t] = repo_order[u] => t = u
  /\ \A r \in Repos : repo_agents[r] # <<>> <=> \E t \in 1..Len(repo_order) : repo_order[t] = r
  /\ \A t \in 1..Len(repo_order) : \A d \in depends_on[repo_agents[repo_order[t]][1]] :
       \E u \in 1..(t - 1) : d \in InRepo(repo_order[u])

GraphInv == GraphTypes /\ EdgesMirror /\ SearchInv /\ SortInv /\ GroupInv

----------------------------------------------------------------------------
(* The least of a set, and counting *)

\* Every non-empty set of agents has a least one: < is well founded.
LEMMA LeastIsLeast ==
  ASSUME NEW S \in SUBSET Agents, S # {}
  PROVE  Least(S) \in S /\ \A b \in S : Least(S) <= b
<1> DEFINE R == OpToRel(<, Nat)
<1>1. S \in SUBSET Nat
  BY GraphAssumption DEF GraphAssumption
<1>2. IsWellFoundedOn(R, Nat)
  BY NatLessThanWellFounded
<1>3. \A x, y \in Nat : x < y => <<x, y>> \in R
  BY DEF OpToRel
<1> HIDE DEF R
<1>4. PICK x \in S : \A y \in S : ~(<<y, x>> \in R)
  BY <1>1, <1>2, WFMin
<1>5. ASSUME NEW y \in S PROVE x <= y
  <2>1. x \in Nat /\ y \in Nat /\ ~(y < x)
    BY <1>1, <1>3, <1>4
  <2> QED
    BY <2>1
<1> QED
  BY <1>5 DEF Least

\* Sets of agents can be counted.
LEMMA AgentsAreFinite ==
  ASSUME NEW S \in SUBSET Agents
  PROVE  IsFiniteSet(S) /\ Cardinality(S) \in Nat
BY GraphAssumption, FS_Subset, FS_CardinalityType DEF GraphAssumption

\* What is written without repetition is counted by its length.
LEMMA CountOfDistinct ==
  ASSUME NEW s \in Seq(Agents), NEW k \in 0..Len(s),
         \A i, j \in 1..Len(s) : s[i] = s[j] => i = j
  PROVE  Cardinality({s[i] : i \in 1..k}) = k
<1> DEFINE T == {s[i] : i \in 1..k}
           f == [i \in 1..k |-> s[i]]
<1>1. Len(s) \in Nat /\ k \in Nat /\ 1..k \subseteq 1..Len(s)
  OBVIOUS
<1>2. f \in [1..k -> T]
  OBVIOUS
<1>3. \A i, j \in 1..k : f[i] = f[j] => i = j
  BY <1>1
<1>4. \A x \in T : \E i \in 1..k : f[i] = x
  OBVIOUS
<1>5. f \in Bijection(1..k, T)
  BY <1>2, <1>3, <1>4 DEF Bijection, Injection, Surjection, IsInjective
<1>6. ExistsBijection(1..k, T)
  BY <1>5 DEF ExistsBijection
<1> QED
  BY <1>1, <1>6, FS_CountingElements

----------------------------------------------------------------------------
(* build() *)

\* Before the sort has begun, its part of the invariant and the grouping's hold
\* of their empty results.
LEMMA NothingSortedYet ==
  ASSUME SortInv, GroupInv, UNCHANGED <<order, repo_order, repo_agents>>,
         at \in {"build", "validate", "refused"}, at' \in {"build", "validate", "refused"}
  PROVE  SortInv' /\ GroupInv'
<1>1. order = <<>> /\ repo_order = <<>> /\ \A r \in Repos : repo_agents[r] = <<>>
  BY DEF SortInv, GroupInv
<1>2. SortInv'
  BY <1>1 DEF SortInv
<1>3. (Placed = {})' /\ Before(0 + 1)' = {}
  BY <1>1 DEF Placed, InRepo, Before
<1>4. (\E k \in 0..Len(order) : Placed = Before(k + 1) /\ (at = "grouped" => k = Len(order)))'
  BY <1>1, <1>3
<1>5. GroupInv'
  BY <1>1, <1>4 DEF GroupInv
<1> QED
  BY <1>2, <1>5

\* The invariant holds of a session none of whose prompts is read.
LEMMA GraphInit == Init => GraphInv
<1> SUFFICES ASSUME Init PROVE GraphInv
  OBVIOUS
<1> USE DEF Init
<1>1. GraphTypes
  BY DEF GraphTypes, Where
<1>2. EdgesMirror
  BY DEF EdgesMirror
<1>3. StackIsPath /\ Finished = {}
  BY DEF StackIsPath, Finished
<1>4. FinishedIsAcyclic
  <2>1. (SUBSET Finished) \ {{}} = {}
    BY <1>3
  <2> QED
    BY <1>3, <2>1 DEF FinishedIsAcyclic
<1>5. SearchInv /\ SortInv
  BY <1>3, <1>4 DEF SearchInv, SearchPhases, SortInv
<1>6. Placed = {} /\ Before(0 + 1) = {}
  BY DEF Placed, InRepo, Before
<1>7. GroupInv
  BY <1>6 DEF GroupInv
<1> QED
  BY <1>1, <1>2, <1>5, <1>7 DEF GraphInv

\* A prompt's dependencies are entered in both edge lists.
LEMMA ReadStep ==
  ASSUME GraphInv, Read
  PROVE  GraphInv'
<1> USE DEF GraphInv
<1> DEFINE a == Least(unread)
<1>1. a \in unread /\ a \in Agents /\ at = "build" /\ at' = "build"
  BY LeastIsLeast DEF Read, GraphTypes
<1>2. PICK deps \in SUBSET Agents :
        /\ depends_on' = [depends_on EXCEPT ![a] = deps]
        /\ required_by' = [n \in Agents |-> IF n \in deps THEN required_by[n] \cup {a}
                                                          ELSE required_by[n]]
  <2>1. PICK mentioned \in SUBSET (Agents \cup Foreign) :
          LET deps == (mentioned \cap Agents) \ {a} IN
          /\ depends_on' = [depends_on EXCEPT ![a] = deps]
          /\ required_by' = [n \in Agents |-> IF n \in deps THEN required_by[n] \cup {a}
                                                            ELSE required_by[n]]
    BY DEF Read
  <2> QED
    BY <2>1
<1>3. unread' = unread \ {a} /\ UNCHANGED <<at, search, sorting, grouping>>
  BY DEF Read
<1> HIDE DEF a
<1>4. GraphTypes'
  BY <1>1, <1>2, <1>3 DEF GraphTypes, search, sorting, grouping
<1>5. \A x, y \in Agents : x \in depends_on'[y] <=> y \in required_by'[x]
  <2> SUFFICES ASSUME NEW x \in Agents, NEW y \in Agents
               PROVE  x \in depends_on'[y] <=> y \in required_by'[x]
    OBVIOUS
  <2>1. CASE y = a
    BY <1>1, <1>2, <2>1 DEF GraphTypes, EdgesMirror
  <2>2. CASE y # a
    BY <1>1, <1>2, <2>2 DEF GraphTypes, EdgesMirror
  <2> QED
    BY <2>1, <2>2
<1>6. EdgesMirror'
  BY <1>1, <1>2, <1>3, <1>5 DEF GraphTypes, EdgesMirror
<1>7. calls = <<>> /\ visited = {} /\ in_stack = {} /\ UNCHANGED <<calls, visited, in_stack>>
  BY <1>1, <1>3 DEF SearchInv, SearchPhases, StackIsPath, search
<1>8. SearchInv'
  BY <1>1, <1>7 DEF SearchInv, SearchPhases, StackIsPath, FinishedIsAcyclic, Finished
<1>9. SortInv' /\ GroupInv'
  BY <1>1, <1>3, NothingSortedYet DEF sorting, grouping
<1> QED
  BY <1>4, <1>6, <1>8, <1>9

\* The search begins with nothing visited.
LEMMA ValidateStep ==
  ASSUME GraphInv, Validate
  PROVE  GraphInv'
<1> USE DEF GraphInv
<1>1. at = "build" /\ at' = "validate" /\ UNCHANGED <<unread, edges, search, sorting, grouping>>
      /\ unread = {}
  BY DEF Validate
<1>2. GraphTypes' /\ EdgesMirror'
  BY <1>1 DEF GraphTypes, Where, EdgesMirror, edges, search, sorting, grouping
<1>3. SearchInv'
  BY <1>1 DEF SearchInv, SearchPhases, StackIsPath, FinishedIsAcyclic, Finished, edges, search
<1>4. SortInv' /\ GroupInv'
  BY <1>1, NothingSortedYet DEF sorting, grouping
<1> QED
  BY <1>2, <1>3, <1>4

----------------------------------------------------------------------------
(* _validate() *)

\* The steps of the search leave the rest alone.
LEMMA SearchLeavesTheRest ==
  ASSUME GraphInv, at = "validate", at' \in {"validate", "refused"},
         UNCHANGED <<unread, edges, sorting, grouping>>,
         visited' \subseteq Agents, calls' \in Seq(Frames)
  PROVE  GraphTypes' /\ EdgesMirror' /\ SortInv' /\ GroupInv'
<1> USE DEF GraphInv
<1>1. GraphTypes' /\ EdgesMirror'
  BY DEF GraphTypes, Where, EdgesMirror, edges, sorting, grouping
<1>2. SortInv' /\ GroupInv'
  BY NothingSortedYet DEF sorting, grouping
<1> QED
  BY <1>1, <1>2

\* The outer loop calls dfs() on the least agent that is not visited.
LEMMA RootStep ==
  ASSUME GraphInv, Root
  PROVE  GraphInv'
<1> USE DEF GraphInv
<1> DEFINE a == Least(Agents \ visited)
<1>1. /\ at = "validate" /\ at' = "validate" /\ calls = <<>>
      /\ visited' = visited \cup {a} /\ in_stack' = in_stack \cup {a}
      /\ calls' = <<Frame(a)>>
      /\ UNCHANGED <<unread, edges, sorting, grouping>>
  BY DEF Root, Call
<1>2. a \in Agents \ visited
  <2>1. Agents \ visited # {}
    BY DEF Root, GraphTypes
  <2> QED
    BY <2>1, LeastIsLeast
<1> HIDE DEF a
<1>3. Frame(a) \in Frames /\ Frame(a) = [node |-> a, todo |-> depends_on[a]]
  BY <1>2 DEF Frame, Frames, GraphTypes
<1>4. Len(calls') = 1 /\ calls'[1] = Frame(a) /\ calls' \in Seq(Frames) /\ calls' # <<>>
  BY <1>1, <1>3
<1>5. in_stack = {} /\ in_stack' = {a}
  BY <1>1 DEF SearchInv, StackIsPath
<1>6. Finished' = Finished
  BY <1>1, <1>2, <1>5 DEF Finished
<1>7. StackIsPath'
  BY <1>1, <1>3, <1>4, <1>5 DEF StackIsPath, edges
<1>8. FinishedIsAcyclic'
  BY <1>1, <1>6 DEF SearchInv, FinishedIsAcyclic, edges
<1>9. SearchInv'
  BY <1>1, <1>7, <1>8 DEF SearchInv, SearchPhases
<1> QED
  BY <1>1, <1>2, <1>4, <1>9, SearchLeavesTheRest DEF GraphTypes

\* The call at the top with one dependency d less to look at.
Rest(d) == [calls EXCEPT ![Len(calls)].todo = @ \ {d}]

LEMMA RestIsStack ==
  ASSUME calls \in Seq(Frames), calls # <<>>, NEW d \in Top.todo
  PROVE  /\ Rest(d) \in Seq(Frames) /\ Len(Rest(d)) = Len(calls)
         /\ Len(calls) \in Nat \ {0}
         /\ \A i \in 1..Len(calls) :
              /\ Rest(d)[i].node = calls[i].node
              /\ i # Len(calls) => Rest(d)[i].todo = calls[i].todo
         /\ Rest(d)[Len(calls)].todo = Top.todo \ {d}
<1> DEFINE n == Len(calls)
           e == [calls[n] EXCEPT !.todo = @ \ {d}]
<1>1. n \in 1..Len(calls) /\ Len(calls) \in Nat \ {0} /\ calls[n] \in Frames
  BY EmptySeq, LenProperties
<1>2. e \in Frames /\ e.node = calls[n].node /\ e.todo = calls[n].todo \ {d}
  BY <1>1 DEF Frames
<1>3. Rest(d) = [calls EXCEPT ![n] = e]
  BY DEF Rest
<1> HIDE DEF n, e
<1>4. /\ Rest(d) \in Seq(Frames) /\ Len(Rest(d)) = Len(calls)
      /\ \A i \in 1..Len(calls) : Rest(d)[i] = IF i = n THEN e ELSE calls[i]
  BY <1>1, <1>2, <1>3, ExceptSeq
<1> QED
  BY <1>1, <1>2, <1>4 DEF n, Top

\* One dependency of the node at the top is looked at: a new call, a node that
\* is finished, or a circle.
LEMMA LookStep ==
  ASSUME GraphInv, Look
  PROVE  GraphInv'
<1> USE DEF GraphInv
<1> DEFINE n == Len(calls)
<1>0. at = "validate" /\ calls # <<>> /\ calls \in Seq(Frames)
  BY DEF Look, GraphTypes
<1>a. UNCHANGED <<unread, edges, sorting, grouping>>
  BY DEF Look
<1>1. PICK d \in Top.todo :
        \/ d \notin visited /\ Call(d, Rest(d)) /\ UNCHANGED at
        \/ d \in visited \ in_stack /\ calls' = Rest(d) /\ UNCHANGED <<at, visited, in_stack>>
        \/ d \in in_stack /\ at' = "refused" /\ UNCHANGED search
  BY DEF Look, Rest
<1>2. n \in Nat \ {0} /\ n \in 1..n /\ calls[n] \in Frames /\ Top = calls[n]
  BY <1>0, EmptySeq, LenProperties DEF Top
<1>3. d \in depends_on[Top.node] /\ Top.node \in Agents /\ d \in Agents
  BY <1>2 DEF SearchInv, StackIsPath, Frames, GraphTypes
<1> DEFINE rest == Rest(d)
<1>4. /\ rest \in Seq(Frames) /\ Len(rest) = n
      /\ \A i \in 1..n : /\ rest[i].node = calls[i].node
                         /\ i # n => rest[i].todo = calls[i].todo
      /\ rest[n].todo = calls[n].todo \ {d}
  BY <1>0, <1>1, <1>2, RestIsStack
<1> HIDE DEF rest, n
<1>5. CASE d \notin visited /\ Call(d, rest) /\ UNCHANGED at
  <2>1. Frame(d) \in Frames /\ Frame(d) = [node |-> d, todo |-> depends_on[d]]
    BY <1>3 DEF Frame, Frames, GraphTypes
  <2>2. visited' = visited \cup {d} /\ in_stack' = in_stack \cup {d} /\ calls' = Append(rest, Frame(d))
    BY <1>5 DEF Call
  <2>3. /\ calls' \in Seq(Frames) /\ Len(calls') = n + 1 /\ calls'[n + 1] = Frame(d)
        /\ \A i \in 1..n : calls'[i] = rest[i]
    BY <1>2, <1>4, <2>1, <2>2, AppendProperties
  <2>4. Finished' = Finished
    BY <1>5, <2>2 DEF Finished, SearchInv, StackIsPath
  <2>5. StackIsPath'
    <3>1. in_stack = {calls[i].node : i \in 1..n} /\ in_stack \subseteq visited
      BY DEF SearchInv, StackIsPath, n
    <3>2. \A i \in 1..n : calls'[i].node = calls[i].node /\ calls[i].node # d
      BY <1>4, <1>5, <2>3, <3>1
    <3>3. /\ in_stack' = {calls'[i].node : i \in 1..(n + 1)}
          /\ in_stack' \subseteq visited'
      <4>1. \A x \in in_stack' : \E i \in 1..(n + 1) : calls'[i].node = x
        BY <1>2, <2>1, <2>2, <2>3, <3>1, <3>2
      <4>2. \A i \in 1..(n + 1) : calls'[i].node \in in_stack'
        BY <1>2, <2>1, <2>2, <2>3, <3>1, <3>2
      <4> QED
        BY <2>2, <3>1, <4>1, <4>2
    <3>4. \A i, j \in 1..(n + 1) : calls'[i].node = calls'[j].node => i = j
      <4>1. \A i, j \in 1..n : calls[i].node = calls[j].node => i = j
        BY DEF SearchInv, StackIsPath, n
      <4> QED
        BY <1>2, <2>1, <2>3, <3>2, <4>1
    <3>5. \A i \in 1..n : calls'[i + 1].node \in depends_on[calls'[i].node]
      <4>1. \A i \in 1..(n - 1) : calls[i + 1].node \in depends_on[calls[i].node]
        BY DEF SearchInv, StackIsPath, n
      <4> SUFFICES ASSUME NEW i \in 1..n PROVE calls'[i + 1].node \in depends_on[calls'[i].node]
        OBVIOUS
      <4>2. CASE i = n
        BY <1>2, <1>3, <2>1, <2>3, <3>2, <4>2
      <4>3. CASE i # n
        <5>1. i \in 1..(n - 1) /\ i + 1 \in 1..n
          BY <1>2, <4>3
        <5> QED
          BY <5>1, <4>1, <3>2
      <4> QED
        BY <4>2, <4>3
    <3>6. \A i \in 1..(n + 1) : calls'[i].todo \subseteq depends_on[calls'[i].node]
      <4>1. \A i \in 1..n : calls[i].todo \subseteq depends_on[calls[i].node]
        BY DEF SearchInv, StackIsPath, n
      <4> SUFFICES ASSUME NEW i \in 1..(n + 1) PROVE calls'[i].todo \subseteq depends_on[calls'[i].node]
        OBVIOUS
      <4>2. CASE i = n + 1
        BY <2>1, <2>3, <4>2
      <4>3. CASE i = n
        BY <1>2, <1>4, <2>3, <4>1, <4>3
      <4>4. CASE i \in 1..n /\ i # n
        BY <1>4, <2>3, <4>1, <4>4
      <4> QED
        BY <1>2, <4>2, <4>3, <4>4
    <3>7. \A i \in 1..(n + 1) : \A x \in depends_on[calls'[i].node] \ calls'[i].todo :
            x \in Finished' \/ (i < n + 1 /\ x = calls'[i + 1].node)
      <4>1. \A i \in 1..n : \A x \in depends_on[calls[i].node] \ calls[i].todo :
              x \in Finished \/ (i < n /\ x = calls[i + 1].node)
        BY DEF SearchInv, StackIsPath, n
      <4> SUFFICES ASSUME NEW i \in 1..(n + 1), NEW x \in depends_on[calls'[i].node] \ calls'[i].todo
                   PROVE  x \in Finished \/ (i < n + 1 /\ x = calls'[i + 1].node)
        BY <2>4
      <4>2. CASE i = n + 1
        BY <2>1, <2>3, <4>2
      <4>3. CASE i = n
        <5>1. x = d \/ x \in depends_on[calls[n].node] \ calls[n].todo
          BY <1>2, <1>4, <2>3, <3>2, <4>3
        <5>2. CASE x = d
          BY <1>2, <2>1, <2>3, <4>3, <5>2
        <5>3. CASE x \in depends_on[calls[n].node] \ calls[n].todo
          BY <1>2, <4>1, <5>3
        <5> QED
          BY <5>1, <5>2, <5>3
      <4>4. CASE i \in 1..n /\ i # n
        <5>1. x \in depends_on[calls[i].node] \ calls[i].todo /\ i + 1 \in 1..n
          BY <1>2, <1>4, <2>3, <3>2, <4>4
        <5>2. calls'[i + 1].node = calls[i + 1].node
          BY <3>2, <5>1
        <5> QED
          BY <1>2, <4>1, <4>4, <5>1, <5>2
      <4> QED
        BY <1>2, <4>2, <4>3, <4>4
    <3> QED
      BY <1>a, <1>2, <2>3, <3>3, <3>4, <3>5, <3>6, <3>7 DEF StackIsPath, edges
  <2>6. FinishedIsAcyclic'
    BY <1>a, <2>4 DEF SearchInv, FinishedIsAcyclic, edges
  <2>7. SearchInv'
    BY <1>0, <1>5, <2>5, <2>6 DEF SearchInv, SearchPhases
  <2> QED
    BY <1>0, <1>a, <1>3, <1>5, <2>2, <2>3, <2>7, SearchLeavesTheRest DEF GraphTypes
<1>6. CASE d \in visited \ in_stack /\ calls' = rest /\ UNCHANGED <<at, visited, in_stack>>
  <2>1. Finished' = Finished /\ d \in Finished
    BY <1>6 DEF Finished
  <2>2. StackIsPath'
    <3>1. /\ in_stack = {calls[i].node : i \in 1..n} /\ in_stack \subseteq visited
          /\ \A i, j \in 1..n : calls[i].node = calls[j].node => i = j
          /\ \A i \in 1..(n - 1) : calls[i + 1].node \in depends_on[calls[i].node]
          /\ \A i \in 1..n : calls[i].todo \subseteq depends_on[calls[i].node]
          /\ \A i \in 1..n : \A x \in depends_on[calls[i].node] \ calls[i].todo :
               x \in Finished \/ (i < n /\ x = calls[i + 1].node)
      BY DEF SearchInv, StackIsPath, n
    <3>2. /\ in_stack' = {calls'[i].node : i \in 1..n} /\ in_stack' \subseteq visited'
          /\ \A i, j \in 1..n : calls'[i].node = calls'[j].node => i = j
      BY <1>4, <1>6, <3>1
    <3>3. \A i \in 1..(n - 1) : calls'[i + 1].node \in depends_on[calls'[i].node]
      BY <1>2, <1>4, <1>6, <3>1
    <3>4. \A i \in 1..n : calls'[i].todo \subseteq depends_on[calls'[i].node]
      BY <1>4, <1>6, <3>1
    <3>5. \A i \in 1..n : \A x \in depends_on[calls'[i].node] \ calls'[i].todo :
            x \in Finished \/ (i < n /\ x = calls'[i + 1].node)
      <4> SUFFICES ASSUME NEW i \in 1..n, NEW x \in depends_on[calls'[i].node] \ calls'[i].todo
                   PROVE  x \in Finished \/ (i < n /\ x = calls'[i + 1].node)
        OBVIOUS
      <4>1. x = d \/ x \in depends_on[calls[i].node] \ calls[i].todo
        BY <1>4, <1>6
      <4>2. i < n => calls'[i + 1].node = calls[i + 1].node
        BY <1>2, <1>4, <1>6
      <4> QED
        BY <2>1, <3>1, <4>1, <4>2
    <3>6. Len(calls') = n
      BY <1>4, <1>6
    <3> QED
      BY <1>a, <2>1, <3>2, <3>3, <3>4, <3>5, <3>6 DEF StackIsPath, edges
  <2>3. FinishedIsAcyclic'
    BY <1>a, <2>1 DEF SearchInv, FinishedIsAcyclic, edges
  <2>4. SearchInv'
    BY <1>0, <1>6, <2>2, <2>3 DEF SearchInv, SearchPhases
  <2> QED
    BY <1>0, <1>a, <1>4, <1>6, <2>4, SearchLeavesTheRest DEF GraphTypes
<1>7. CASE d \in in_stack /\ at' = "refused" /\ UNCHANGED search
  <2>1. PICK k \in 1..n : calls[k].node = d
    BY <1>7 DEF SearchInv, StackIsPath, n
  <2> DEFINE S == {calls[i].node : i \in k..n}
  <2>2. S \in (SUBSET Agents) \ {{}}
    <3>1. \A i \in k..n : calls[i] \in Frames
      BY <1>0, <1>2, <2>1, ElementOfSeq DEF n
    <3> QED
      BY <1>2, <2>1, <3>1 DEF Frames
  <2>3. ASSUME NEW x \in S PROVE depends_on[x] \cap S # {}
    <3>1. PICK i \in k..n : x = calls[i].node
      OBVIOUS
    <3>2. CASE i = n
      <4>1. d \in S
        BY <1>2, <2>1
      <4> QED
        BY <1>2, <1>3, <3>1, <3>2, <4>1
    <3>3. CASE i # n
      <4>1. i \in 1..(n - 1) /\ i + 1 \in k..n
        BY <1>2, <2>1, <3>3
      <4>2. calls[i + 1].node \in depends_on[x]
        BY <3>1, <4>1 DEF SearchInv, StackIsPath, n
      <4> QED
        BY <4>1, <4>2
    <3> QED
      BY <3>2, <3>3
  <2>4. Cyclic
    BY <2>2, <2>3 DEF Cyclic
  <2>5. SearchInv'
    BY <1>a, <1>7, <2>4 DEF SearchInv, StackIsPath, FinishedIsAcyclic, Finished, SearchPhases,
                           Cyclic, edges, search
  <2> QED
    BY <1>0, <1>a, <1>7, <2>5, SearchLeavesTheRest DEF GraphTypes, search
<1> QED
  BY <1>1, <1>5, <1>6, <1>7 DEF rest

\* dfs() returns from a node all of whose dependencies are finished: a circle
\* through it would need a finished node that waits for it.
LEMMA FinishStep ==
  ASSUME GraphInv, Finish
  PROVE  GraphInv'
<1> USE DEF GraphInv
<1> DEFINE n == Len(calls)
           a == calls[n].node
<1>0. /\ at = "validate" /\ calls # <<>> /\ calls \in Seq(Frames) /\ Top = calls[n]
      /\ UNCHANGED <<at, unread, edges, visited, sorting, grouping>>
      /\ in_stack' = in_stack \ {a} /\ calls' = SubSeq(calls, 1, n - 1)
      /\ calls[n].todo = {}
  BY DEF Finish, GraphTypes, Top
<1>1. n \in Nat \ {0} /\ n \in 1..n /\ n - 1 \in Nat
  BY <1>0, EmptySeq, LenProperties
<1>2. a \in Agents
  <2>1. calls[n] \in Frames
    BY <1>0, <1>1, ElementOfSeq
  <2> QED
    BY <2>1 DEF Frames
<1>3. /\ in_stack = {calls[i].node : i \in 1..n} /\ in_stack \subseteq visited
      /\ \A i, j \in 1..n : calls[i].node = calls[j].node => i = j
      /\ \A i \in 1..(n - 1) : calls[i + 1].node \in depends_on[calls[i].node]
      /\ \A i \in 1..n : calls[i].todo \subseteq depends_on[calls[i].node]
      /\ \A i \in 1..n : \A x \in depends_on[calls[i].node] \ calls[i].todo :
           x \in Finished \/ (i < n /\ x = calls[i + 1].node)
  BY DEF SearchInv, StackIsPath
<1>4. /\ calls' \in Seq(Frames) /\ Len(calls') = n - 1
      /\ \A i \in 1..(n - 1) : calls'[i] = calls[i]
  <2> HIDE DEF n
  <2>1. \A i \in 1..(n - 1) : calls[i] \in Frames
    BY <1>0, <1>1, ElementOfSeq DEF n
  <2>2. /\ SubSeq(calls, 1, n - 1) \in Seq(Frames)
        /\ Len(SubSeq(calls, 1, n - 1)) = IF 1 <= n - 1 THEN n - 1 - 1 + 1 ELSE 0
        /\ \A i \in 1..(n - 1 - 1 + 1) : SubSeq(calls, 1, n - 1)[i] = calls[1 + i - 1]
    BY <1>1, <2>1, SubSeqProperties
  <2> QED
    BY <1>0, <1>1, <2>2
<1> HIDE DEF n, a
<1>5. a \in in_stack /\ depends_on[a] \subseteq Finished
  <2>1. a = calls[n].node
    BY DEF a
  <2> QED
    BY <1>0, <1>1, <1>3, <2>1
<1>6. Finished' = Finished \cup {a} /\ a \notin Finished
  BY <1>0, <1>3, <1>5 DEF Finished
<1>7. StackIsPath'
  <2>1. in_stack' = {calls'[i].node : i \in 1..(n - 1)}
    <3>1. \A x \in in_stack' : \E i \in 1..(n - 1) : calls'[i].node = x
      <4> SUFFICES ASSUME NEW x \in in_stack' PROVE \E i \in 1..(n - 1) : calls'[i].node = x
        OBVIOUS
      <4>1. PICK i \in 1..n : calls[i].node = x
        BY <1>0, <1>3
      <4>2. i # n
        BY <1>0, <4>1 DEF a
      <4> QED
        BY <1>1, <1>4, <4>1, <4>2
    <3>2. \A i \in 1..(n - 1) : calls'[i].node \in in_stack'
      <4> SUFFICES ASSUME NEW i \in 1..(n - 1) PROVE calls'[i].node \in in_stack'
        OBVIOUS
      <4>1. calls[i].node \in in_stack /\ calls[i].node # a
        BY <1>1, <1>3 DEF a
      <4> QED
        BY <1>0, <1>4, <4>1
    <3> QED
      BY <3>1, <3>2
  <2>2. in_stack' \subseteq visited'
    BY <1>0, <1>3
  <2>3. \A i, j \in 1..(n - 1) : calls'[i].node = calls'[j].node => i = j
    <3> SUFFICES ASSUME NEW i \in 1..(n - 1), NEW j \in 1..(n - 1), calls'[i].node = calls'[j].node
                 PROVE  i = j
      OBVIOUS
    <3>1. i \in 1..n /\ j \in 1..n /\ calls[i].node = calls[j].node
      BY <1>1, <1>4
    <3> QED
      BY <1>3, <3>1
  <2>4. \A i \in 1..((n - 1) - 1) : calls'[i + 1].node \in depends_on[calls'[i].node]
    <3> SUFFICES ASSUME NEW i \in 1..((n - 1) - 1)
                 PROVE  calls'[i + 1].node \in depends_on[calls'[i].node]
      OBVIOUS
    <3>1. i \in 1..(n - 1) /\ i + 1 \in 1..(n - 1)
      BY <1>1
    <3> QED
      BY <1>3, <1>4, <3>1
  <2>5. \A i \in 1..(n - 1) : calls'[i].todo \subseteq depends_on[calls'[i].node]
    <3> SUFFICES ASSUME NEW i \in 1..(n - 1) PROVE calls'[i].todo \subseteq depends_on[calls'[i].node]
      OBVIOUS
    <3>1. i \in 1..n /\ calls'[i] = calls[i]
      BY <1>1, <1>4
    <3> QED
      BY <1>3, <3>1
  <2>6. \A i \in 1..(n - 1) : \A x \in depends_on[calls'[i].node] \ calls'[i].todo :
          x \in Finished' \/ (i < n - 1 /\ x = calls'[i + 1].node)
    <3> SUFFICES ASSUME NEW i \in 1..(n - 1), NEW x \in depends_on[calls'[i].node] \ calls'[i].todo
                 PROVE  x \in Finished' \/ (i < n - 1 /\ x = calls'[i + 1].node)
      OBVIOUS
    <3>1. i \in 1..n /\ (x \in Finished \/ (i < n /\ x = calls[i + 1].node))
      BY <1>1, <1>3, <1>4
    <3>2. CASE i = n - 1
      BY <1>1, <1>6, <3>1, <3>2 DEF a
    <3>3. CASE i # n - 1
      <4>1. i < n - 1 /\ i + 1 \in 1..(n - 1)
        BY <1>1, <3>3
      <4> QED
        BY <1>4, <1>6, <3>1, <4>1
    <3> QED
      BY <3>2, <3>3
  <2> QED
    BY <1>0, <1>4, <2>1, <2>2, <2>3, <2>4, <2>5, <2>6 DEF StackIsPath, edges
<1>8. FinishedIsAcyclic'
  <2>1. /\ \A b \in Finished : depends_on[b] \subseteq Finished
        /\ \A S \in (SUBSET Finished) \ {{}} : \E b \in S : depends_on[b] \cap S = {}
    BY DEF SearchInv, FinishedIsAcyclic
  <2>2. \A b \in Finished' : depends_on[b] \subseteq Finished'
    BY <1>5, <1>6, <2>1
  <2>3. ASSUME NEW S \in (SUBSET Finished') \ {{}}
        PROVE  \E b \in S : depends_on[b] \cap S = {}
    <3>1. CASE S = {a}
      BY <1>5, <1>6, <3>1
    <3>2. CASE S # {a}
      <4>1. S \ {a} \in (SUBSET Finished) \ {{}}
        BY <1>6, <2>3, <3>2
      <4>2. PICK b \in S \ {a} : depends_on[b] \cap (S \ {a}) = {}
        BY <2>1, <4>1
      <4>3. a \notin depends_on[b]
        BY <1>6, <2>1, <4>1, <4>2
      <4> QED
        BY <4>2, <4>3
    <3> QED
      BY <3>1, <3>2
  <2> QED
    BY <1>0, <2>2, <2>3 DEF FinishedIsAcyclic, edges
<1>9. SearchInv'
  BY <1>0, <1>7, <1>8 DEF SearchInv, SearchPhases
<1> QED
  BY <1>0, <1>4, <1>9, SearchLeavesTheRest DEF GraphTypes

\* Once the search is over, what it found out stays true.
LEMMA SearchStays ==
  ASSUME SearchInv, UNCHANGED <<edges, search>>,
         Finished = Agents, at' \in {"order", "broken", "group", "grouped"}
  PROVE  SearchInv'
<1>1. StackIsPath' /\ FinishedIsAcyclic' /\ Finished' = Finished
  BY DEF SearchInv, StackIsPath, FinishedIsAcyclic, Finished, edges, search
<1>2. SearchPhases'
  BY <1>1 DEF SearchPhases
<1> QED
  BY <1>1, <1>2 DEF SearchInv

\* Before the grouping begins there is nothing in the groups.
LEMMA NothingGroupedYet ==
  ASSUME repo_order' = <<>>, \A r \in Repos : repo_agents'[r] = <<>>,
         Len(order)' \in Nat, at' # "grouped"
  PROVE  GroupInv'
<1>1. (Placed = {})' /\ Before(0 + 1)' = {}
  BY DEF Placed, InRepo, Before
<1>2. (\E k \in 0..Len(order) : Placed = Before(k + 1) /\ (at = "grouped" => k = Len(order)))'
  BY <1>1
<1> QED
  BY <1>2 DEF GroupInv

----------------------------------------------------------------------------
(* topological_order() *)

\* The counters and the queue at the beginning.
LEMMA CountEdgesStep ==
  ASSUME GraphInv, CountEdges
  PROVE  GraphInv'
<1> USE DEF GraphInv
<1>1. /\ at = "validate" /\ calls = <<>> /\ visited = Agents /\ at' = "order"
      /\ in_degree' = [a \in Agents |-> Cardinality(depends_on[a])]
      /\ queue' = {a \in Agents : depends_on[a] = {}}
      /\ UNCHANGED <<unread, edges, search, order, grouping>>
  BY DEF CountEdges
<1>2. \A a \in Agents : Cardinality(depends_on[a]) \in Nat
  BY AgentsAreFinite DEF GraphTypes
<1>3. GraphTypes' /\ EdgesMirror'
  BY <1>1, <1>2 DEF GraphTypes, Where, EdgesMirror, edges, search, grouping
<1>4. in_stack = {} /\ Finished = Agents
  BY <1>1 DEF SearchInv, StackIsPath, Finished
<1>5. SearchInv'
  BY <1>1, <1>4, SearchStays
<1>6. order = <<>> /\ order' = <<>> /\ Len(order') = 0
  BY <1>1 DEF SortInv
<1>7. Emitted' = {}
  BY <1>6 DEF Emitted
<1>8. queue' = {a \in Agents \ {} : depends_on[a] \subseteq {}}
  BY <1>1 DEF GraphTypes
<1>9. \A a \in Agents : in_degree'[a] = Cardinality(depends_on[a] \ {})
  <2> SUFFICES ASSUME NEW a \in Agents PROVE in_degree'[a] = Cardinality(depends_on[a] \ {})
    OBVIOUS
  <2>1. depends_on[a] \ {} = depends_on[a]
    OBVIOUS
  <2> QED
    BY <1>1, <2>1
<1>10. depends_on' = depends_on
  BY <1>1 DEF edges
<1>11. (queue = MayFollow(Emitted))'
  BY <1>7, <1>8, <1>10 DEF MayFollow
<1>12. (\A a \in Agents : in_degree[a] = Cardinality(depends_on[a] \ Emitted))'
  BY <1>7, <1>9, <1>10
<1>13. SortInv'
  BY <1>1, <1>6, <1>11, <1>12 DEF SortInv
<1>14. GroupInv'
  BY <1>1, <1>6, NothingGroupedYet DEF GroupInv, grouping
<1> QED
  BY <1>3, <1>5, <1>13, <1>14

\* What may follow once a has been emitted: those that could before, and those
\* that waited for a alone.
LEMMA QueueAfter ==
  ASSUME GraphTypes, EdgesMirror, NEW E \in SUBSET Agents,
         \A b \in E : depends_on[b] \subseteq E,
         NEW a \in MayFollow(E),
         \A b \in Agents : in_degree[b] = Cardinality(depends_on[b] \ E)
  PROVE  /\ MayFollow(E \cup {a}) =
              (MayFollow(E) \ {a}) \cup {b \in required_by[a] : in_degree[b] = 1}
         /\ \A b \in Agents :
              Cardinality(depends_on[b] \ (E \cup {a})) =
                IF b \in required_by[a] THEN in_degree[b] - 1 ELSE in_degree[b]
<1>1. a \in Agents \ E /\ depends_on[a] \subseteq E
  BY DEF MayFollow
<1>2. \A b \in Agents : b \in required_by[a] <=> a \in depends_on[b]
  BY <1>1 DEF EdgesMirror
<1>3. required_by[a] \subseteq Agents /\ \A b \in Agents : depends_on[b] \subseteq Agents
  BY <1>1 DEF GraphTypes
<1>4. ASSUME NEW b \in Agents, b \in required_by[a]
      PROVE  /\ Cardinality(depends_on[b] \ (E \cup {a})) = in_degree[b] - 1
             /\ in_degree[b] = 1 <=> depends_on[b] \subseteq E \cup {a}
  <2> DEFINE D == depends_on[b] \ E
  <2>1. a \in D /\ D \in SUBSET Agents /\ in_degree[b] = Cardinality(D)
    BY <1>1, <1>2, <1>3, <1>4
  <2>2. depends_on[b] \ (E \cup {a}) = D \ {a}
    OBVIOUS
  <2>3. depends_on[b] \subseteq E \cup {a} <=> D \ {a} = {}
    OBVIOUS
  <2> HIDE DEF D
  <2>4. IsFiniteSet(D) /\ Cardinality(D) \in Nat
    BY <2>1, AgentsAreFinite
  <2>5. IsFiniteSet(D \ {a}) /\ Cardinality(D \ {a}) = Cardinality(D) - 1
    BY <2>1, <2>4, FS_RemoveElement
  <2>6. Cardinality(D \ {a}) = 0 <=> D \ {a} = {}
    BY <2>5, FS_EmptySet
  <2>7. Cardinality(D \ {a}) = 0 <=> in_degree[b] = 1
    BY <2>1, <2>4, <2>5
  <2> QED
    BY <2>1, <2>2, <2>3, <2>5, <2>6, <2>7, Zenon
<1>5. ASSUME NEW b \in Agents, b \notin required_by[a]
      PROVE  depends_on[b] \ (E \cup {a}) = depends_on[b] \ E
  BY <1>2, <1>5
<1>6. \A b \in Agents :
        Cardinality(depends_on[b] \ (E \cup {a})) =
          IF b \in required_by[a] THEN in_degree[b] - 1 ELSE in_degree[b]
  BY <1>4, <1>5
<1>7. ASSUME NEW b \in Agents
      PROVE  b \in MayFollow(E \cup {a}) <=>
               \/ b \in MayFollow(E) \ {a}
               \/ b \in required_by[a] /\ in_degree[b] = 1
  <2>1. CASE b \in required_by[a]
    <3>1. a \in depends_on[b] /\ b \notin E /\ b # a
      BY <1>1, <1>2, <2>1
    <3> QED
      BY <1>4, <1>1, <2>1, <3>1 DEF MayFollow
  <2>2. CASE b \notin required_by[a]
    <3>1. a \notin depends_on[b]
      BY <1>2, <2>2
    <3> QED
      BY <2>2, <3>1 DEF MayFollow
  <2> QED
    BY <2>1, <2>2
<1>8. MayFollow(E \cup {a}) =
        (MayFollow(E) \ {a}) \cup {b \in required_by[a] : in_degree[b] = 1}
  <2>1. MayFollow(E \cup {a}) \subseteq Agents /\ MayFollow(E) \subseteq Agents
    BY DEF MayFollow
  <2> QED
    BY <1>3, <1>7, <2>1
<1> QED
  BY <1>6, <1>8

\* The least agent of the queue is emitted.
LEMMA EmitStep ==
  ASSUME GraphInv, Emit
  PROVE  GraphInv'
<1> USE DEF GraphInv
<1> DEFINE a == Least(queue)
           n == Len(order)
<1>1. /\ at = "order" /\ at' = at /\ order' = Append(order, a)
      /\ in_degree' = [b \in Agents |-> IF b \in required_by[a] THEN in_degree[b] - 1
                                                                ELSE in_degree[b]]
      /\ queue' = (queue \ {a}) \cup {b \in required_by[a] : in_degree[b] = 1}
      /\ UNCHANGED <<unread, edges, search, grouping>>
  BY DEF Emit, Take
<1>2. a \in queue /\ a \in Agents
  BY LeastIsLeast DEF Emit, GraphTypes
<1>3. /\ queue = MayFollow(Emitted) /\ order \in Seq(Agents) /\ n \in Nat
      /\ \A b \in Agents : in_degree[b] = Cardinality(depends_on[b] \ Emitted)
  BY <1>1 DEF SortInv, GraphTypes
<1>4. a \in Agents \ Emitted /\ depends_on[a] \subseteq Emitted /\ a = Least(MayFollow(Emitted))
  BY <1>2, <1>3 DEF MayFollow
<1> HIDE DEF a, n
<1>5. /\ order' \in Seq(Agents) /\ Len(order') = n + 1 /\ order'[n + 1] = a
      /\ \A i \in 1..n : order'[i] = order[i] /\ order[i] \in Emitted
  BY <1>1, <1>2, <1>3, AppendProperties DEF n, Emitted
<1>6. Emitted' = Emitted \cup {a} /\ Emitted \in SUBSET Agents
  <2>1. Emitted' = {order'[j] : j \in 1..(n + 1)}
    BY <1>5 DEF Emitted
  <2>2. Emitted = {order[j] : j \in 1..n}
    BY DEF Emitted, n
  <2>3. \A x \in Emitted' : x \in Emitted \cup {a}
    <3> SUFFICES ASSUME NEW j \in 1..(n + 1) PROVE order'[j] \in Emitted \cup {a}
      BY <2>1
    <3>1. CASE j = n + 1
      BY <1>5, <3>1
    <3>2. CASE j # n + 1
      BY <1>3, <1>5, <3>2
    <3> QED
      BY <3>1, <3>2
  <2>4. \A x \in Emitted \cup {a} : x \in Emitted'
    <3>1. a \in Emitted'
      BY <1>3, <1>5, <2>1
    <3>2. ASSUME NEW j \in 1..n PROVE order[j] \in Emitted'
      BY <1>3, <1>5, <2>1
    <3> QED
      BY <2>2, <3>1, <3>2
  <2>5. Emitted \in SUBSET Agents
    BY <1>3, ElementOfSeq DEF Emitted
  <2> QED
    BY <2>3, <2>4, <2>5
<1>7. /\ \A i \in 1..n : Before(i)' = Before(i)
      /\ \A i \in 1..(n + 1) : i = n + 1 => Before(i)' = Emitted
  <2>1. \A i \in 1..(n + 1) : Before(i)' = {order'[j] : j \in 1..(i - 1)}
    BY DEF Before
  <2>2. \A i \in 1..(n + 1) : {order'[j] : j \in 1..(i - 1)} = {order[j] : j \in 1..(i - 1)}
    BY <1>3, <1>5
  <2>3. (n + 1) - 1 = n /\ \A i \in 1..n : i \in 1..(n + 1)
    BY <1>3
  <2>4. Emitted = {order[j] : j \in 1..((n + 1) - 1)}
    BY <2>3 DEF Emitted, n
  <2>5. \A i \in 1..(n + 1) : Before(i)' = Before(i)
    BY <2>1, <2>2 DEF Before
  <2>6. \A i : i = n + 1 => Before(i) = Emitted
    BY <2>4 DEF Before
  <2> QED
    BY <2>3, <2>5, <2>6
<1>8. ASSUME NEW b \in Emitted PROVE depends_on[b] \subseteq Emitted
  <2>1. PICK i \in 1..n : order[i] = b
    BY DEF Emitted, n
  <2>2. depends_on[b] \subseteq Before(i)
    BY <2>1 DEF SortInv, n
  <2>3. Before(i) \subseteq Emitted
    BY <1>3 DEF Before, Emitted, n
  <2> QED
    BY <2>2, <2>3
<1>9. /\ MayFollow(Emitted \cup {a}) =
           (MayFollow(Emitted) \ {a}) \cup {b \in required_by[a] : in_degree[b] = 1}
      /\ \A b \in Agents :
           Cardinality(depends_on[b] \ (Emitted \cup {a})) =
             IF b \in required_by[a] THEN in_degree[b] - 1 ELSE in_degree[b]
  BY <1>2, <1>3, <1>6, <1>8, QueueAfter
<1>10. depends_on' = depends_on
  BY <1>1 DEF edges
<1>11. \A E : MayFollow(E)' = {b \in Agents \ E : depends_on[b] \subseteq E}
  BY <1>10 DEF MayFollow
<1>12. (queue = MayFollow(Emitted))'
  <2>1. MayFollow(Emitted)' = MayFollow(Emitted \cup {a})
    BY <1>6, <1>10 DEF MayFollow
  <2> QED
    BY <1>1, <1>3, <1>9, <2>1
<1>13. \A b \in Agents : in_degree'[b] = Cardinality(depends_on[b] \ (Emitted \cup {a}))
  BY <1>1, <1>9
<1>14. \A b \in Agents : in_degree'[b] \in Nat
  <2> SUFFICES ASSUME NEW b \in Agents PROVE in_degree'[b] \in Nat
    OBVIOUS
  <2>1. depends_on[b] \ (Emitted \cup {a}) \in SUBSET Agents
    BY DEF GraphTypes
  <2> QED
    BY <1>13, <2>1, AgentsAreFinite
<1>15. GraphTypes' /\ EdgesMirror'
  <2>1. in_degree' \in [Agents -> Nat]
    BY <1>1, <1>14
  <2>2. queue' \subseteq Agents
    BY <1>1, <1>2 DEF GraphTypes
  <2> QED
    BY <1>1, <1>5, <2>1, <2>2 DEF GraphTypes, EdgesMirror, edges, search, grouping
<1>16. SearchInv'
  BY <1>1, SearchStays DEF SearchInv, SearchPhases
<1>17. \A i, j \in 1..(n + 1) : order'[i] = order'[j] => i = j
  <2>1. \A i, j \in 1..n : order[i] = order[j] => i = j
    BY DEF SortInv, n
  <2> SUFFICES ASSUME NEW i \in 1..(n + 1), NEW j \in 1..(n + 1), order'[i] = order'[j], i # j
               PROVE  FALSE
    OBVIOUS
  <2>2. CASE i = n + 1
    BY <1>3, <1>4, <1>5, <2>2
  <2>3. CASE j = n + 1
    BY <1>3, <1>4, <1>5, <2>3
  <2>4. CASE i # n + 1 /\ j # n + 1
    BY <1>3, <1>5, <2>1, <2>4
  <2> QED
    BY <2>2, <2>3, <2>4
<1>18. ASSUME NEW i \in 1..(n + 1)
       PROVE  /\ depends_on'[order'[i]] \subseteq Before(i)'
              /\ order'[i] = Least(MayFollow(Before(i)))'
  <2>1. CASE i = n + 1
    <3>1. Before(i)' = Emitted /\ order'[i] = a
      BY <1>5, <1>7, <2>1
    <3>2. MayFollow(Before(i))' = MayFollow(Emitted)
      BY <1>10, <3>1 DEF MayFollow
    <3> QED
      BY <1>4, <1>10, <3>1, <3>2 DEF Least
  <2>2. CASE i # n + 1
    <3>1. i \in 1..n
      BY <1>3, <2>2
    <3>2. Before(i)' = Before(i) /\ order'[i] = order[i]
      BY <1>5, <1>7, <3>1
    <3>3. depends_on[order[i]] \subseteq Before(i) /\ order[i] = Least(MayFollow(Before(i)))
      BY <3>1 DEF SortInv, n
    <3>4. MayFollow(Before(i))' = MayFollow(Before(i))
      BY <1>10, <3>2 DEF MayFollow
    <3> QED
      BY <1>10, <3>2, <3>3, <3>4 DEF Least
  <2> QED
    BY <2>1, <2>2
<1>19. SortInv'
  <2>1. (\A b \in Agents : in_degree[b] = Cardinality(depends_on[b] \ Emitted))'
    BY <1>6, <1>10, <1>13
  <2> QED
    BY <1>1, <1>5, <1>12, <1>17, <1>18, <2>1 DEF SortInv
<1>20. GroupInv'
  BY <1>1, <1>3, <1>5, NothingGroupedYet DEF GroupInv, grouping
<1> QED
  BY <1>15, <1>16, <1>19, <1>20

\* When the queue is empty all agents have been emitted: the others would wait
\* for one another.
LEMMA OrderedStep ==
  ASSUME GraphInv, Ordered
  PROVE  GraphInv'
<1> USE DEF GraphInv
<1>1. at = "order" /\ queue = {} /\ UNCHANGED <<unread, edges, search, sorting, grouping>>
  BY DEF Ordered
<1>2. Emitted \in SUBSET Agents /\ order \in Seq(Agents)
  BY ElementOfSeq DEF Emitted, GraphTypes
<1>3. Emitted = Agents
  <2> SUFFICES ASSUME Emitted # Agents PROVE FALSE
    OBVIOUS
  <2>1. Agents \ Emitted \in (SUBSET Finished) \ {{}}
    BY <1>1, <1>2 DEF SearchInv, SearchPhases
  <2>2. PICK a \in Agents \ Emitted : depends_on[a] \cap (Agents \ Emitted) = {}
    BY <2>1 DEF SearchInv, FinishedIsAcyclic
  <2>3. depends_on[a] \subseteq Emitted
    BY <2>2 DEF GraphTypes
  <2> QED
    BY <1>1, <2>2, <2>3 DEF SortInv, MayFollow
<1>4. Len(order) = Cardinality(Agents)
  <2>1. Len(order) \in 0..Len(order) /\ \A i, j \in 1..Len(order) : order[i] = order[j] => i = j
    BY <1>2 DEF SortInv
  <2>2. Cardinality(Emitted) = Len(order)
    BY <1>2, <2>1, CountOfDistinct DEF Emitted
  <2> QED
    BY <1>3, <2>2
<1>5. at' = "group"
  BY <1>4 DEF Ordered
<1>6. GraphTypes' /\ EdgesMirror'
  BY <1>1, <1>5 DEF GraphTypes, Where, EdgesMirror, edges, search, sorting, grouping
<1>7. SearchInv'
  BY <1>1, <1>5, SearchStays DEF SearchInv, SearchPhases
<1>8. SortInv'
  <2>1. UNCHANGED <<depends_on, in_degree, queue, order>>
    BY <1>1 DEF sorting, edges
  <2>2. Emitted' = Emitted /\ \A i : Before(i)' = Before(i)
    BY <2>1 DEF Emitted, Before
  <2>3. \A i : MayFollow(Before(i))' = MayFollow(Before(i))
    BY <2>1, <2>2 DEF MayFollow
  <2>4. \A i : Least(MayFollow(Before(i)))' = Least(MayFollow(Before(i)))
    BY <2>3 DEF Least
  <2> QED
    BY <1>3, <1>5, <2>1, <2>2, <2>4 DEF SortInv
<1>9. GroupInv'
  BY <1>1, <1>2, <1>5, NothingGroupedYet DEF GroupInv, grouping, sorting
<1> QED
  BY <1>6, <1>7, <1>8, <1>9

----------------------------------------------------------------------------
(* atomic_commit_multi_repo() *)

\* The order stands once it is made.
LEMMA OrderStays ==
  ASSUME SortInv, UNCHANGED <<edges, sorting>>,
         at \in {"group", "grouped"}, at' \in {"group", "grouped"}
  PROVE  SortInv'
<1>1. UNCHANGED <<depends_on, order>>
  BY DEF sorting, edges
<1>2. Emitted' = Emitted /\ \A i : Before(i)' = Before(i)
  BY <1>1 DEF Emitted, Before
<1>3. \A i : MayFollow(Before(i))' = MayFollow(Before(i))
  BY <1>1, <1>2 DEF MayFollow
<1>4. \A i : Least(MayFollow(Before(i)))' = Least(MayFollow(Before(i)))
  BY <1>3 DEF Least
<1> QED
  BY <1>1, <1>2, <1>4 DEF SortInv

\* The number of agents in the groups is the number of agents of the order
\* that have been placed.
LEMMA GroupedCounts ==
  ASSUME GraphInv, NEW k \in 0..Len(order), Placed = Before(k + 1)
  PROVE  Grouped = k
<1> USE DEF GraphInv
<1>1. Grouped = Cardinality(Placed)
  BY DEF Grouped, Placed, InRepo
<1>2. order \in Seq(Agents) /\ \A i, j \in 1..Len(order) : order[i] = order[j] => i = j
  BY DEF GraphTypes, SortInv
<1>3. (k + 1) - 1 = k
  OBVIOUS
<1>4. Before(k + 1) = {order[i] : i \in 1..k}
  BY <1>3 DEF Before
<1> QED
  BY <1>1, <1>2, <1>4, CountOfDistinct

\* The next agent of the order joins the group of its repository.
LEMMA GroupStep ==
  ASSUME GraphInv, Group
  PROVE  GraphInv'
<1> USE DEF GraphInv
<1>0. /\ at = "group" /\ at' = "group" /\ Grouped < Len(order)
      /\ UNCHANGED <<unread, edges, search, sorting>>
  BY DEF Group
<1>1. PICK k \in 0..Len(order) : Placed = Before(k + 1)
  BY DEF GroupInv
<1>2. Grouped = k
  BY <1>1, GroupedCounts
<1> DEFINE a == order[k + 1]
<1>3. PICK r \in Repos :
        /\ repo_order' = IF repo_agents[r] = <<>> THEN Append(repo_order, r) ELSE repo_order
        /\ repo_agents' = [repo_agents EXCEPT ![r] = Append(@, a)]
  BY <1>2 DEF Group
<1>4. /\ order \in Seq(Agents) /\ Len(order) \in Nat /\ k \in Nat
      /\ k + 1 \in 1..Len(order) /\ (k + 1) - 1 = k /\ (k + 2) - 1 = k + 1
  BY <1>0, <1>2 DEF GraphTypes
<1>5. Placed = {order[j] : j \in 1..k}
  BY <1>1, <1>4 DEF Before
<1>6. a \in Agents /\ a \notin Placed /\ depends_on[a] \subseteq Placed
  <2>1. a \in Agents
    BY <1>4, ElementOfSeq
  <2>2. a \notin Placed
    <3> SUFFICES ASSUME NEW j \in 1..k, order[j] = a PROVE FALSE
      BY <1>5
    <3>1. j \in 1..Len(order) /\ j # k + 1
      BY <1>4
    <3> QED
      BY <1>4, <3>1 DEF SortInv
  <2>3. depends_on[a] \subseteq Before(k + 1)
    BY <1>4 DEF SortInv
  <2> QED
    BY <1>1, <2>1, <2>2, <2>3
<1> HIDE DEF a
<1> DEFINE m == Len(repo_agents[r])
<1>7. /\ repo_agents[r] \in Seq(Agents) /\ m \in Nat
      /\ repo_agents[r] = <<>> <=> m = 0
      /\ repo_order \in Seq(Repos) /\ Len(repo_order) \in Nat
  BY EmptySeq, LenProperties DEF GraphTypes
<1>8. /\ repo_agents'[r] \in Seq(Agents) /\ Len(repo_agents'[r]) = m + 1
      /\ repo_agents'[r][m + 1] = a /\ repo_agents'[r] # <<>>
      /\ \A i \in 1..m : repo_agents'[r][i] = repo_agents[r][i]
  <2>1. repo_agents'[r] = Append(repo_agents[r], a)
    BY <1>3 DEF GraphTypes
  <2> QED
    BY <1>6, <1>7, <2>1, AppendProperties
<1>9. \A s \in Repos : s # r => repo_agents'[s] = repo_agents[s]
  BY <1>3 DEF GraphTypes
<1> HIDE DEF m
<1>10. GraphTypes' /\ EdgesMirror'
  <2>1. repo_order' \in Seq(Repos)
    BY <1>3, <1>7, AppendProperties
  <2>2. repo_agents' \in [Repos -> Seq(Agents)]
    BY <1>3, <1>8, <1>9 DEF GraphTypes
  <2> QED
    BY <1>0, <2>1, <2>2 DEF GraphTypes, EdgesMirror, edges, search, sorting
<1>11. SearchInv'
  BY <1>0, SearchStays DEF SearchInv, SearchPhases
<1>12. SortInv'
  BY <1>0, OrderStays
<1>13. /\ \A s \in Repos : s # r => InRepo(s)' = InRepo(s)
       /\ InRepo(r)' = InRepo(r) \cup {a}
       /\ \A s \in Repos : InRepo(s) \subseteq InRepo(s)'
  <2>1. \A s \in Repos : s # r => InRepo(s)' = InRepo(s)
    BY <1>9 DEF InRepo
  <2>2. InRepo(r)' = {repo_agents'[r][i] : i \in 1..(m + 1)}
    BY <1>8 DEF InRepo
  <2>3. InRepo(r) = {repo_agents[r][i] : i \in 1..m}
    BY DEF InRepo, m
  <2>4. ASSUME NEW i \in 1..(m + 1) PROVE repo_agents'[r][i] \in InRepo(r) \cup {a}
    <3>1. CASE i = m + 1
      BY <1>8, <3>1
    <3>2. CASE i # m + 1
      BY <1>7, <1>8, <2>3, <3>2
    <3> QED
      BY <3>1, <3>2
  <2>5. ASSUME NEW i \in 1..m PROVE repo_agents[r][i] \in InRepo(r)'
    <3>1. i \in 1..(m + 1) /\ repo_agents'[r][i] = repo_agents[r][i]
      BY <1>7, <1>8
    <3> QED
      BY <2>2, <3>1
  <2>6. a \in InRepo(r)'
    BY <1>7, <1>8, <2>2
  <2>7. InRepo(r)' = InRepo(r) \cup {a}
    BY <2>2, <2>3, <2>4, <2>5, <2>6
  <2> QED
    BY <2>1, <2>7
<1>14. Placed' = Placed \cup {a}
  <2>1. ASSUME NEW x PROVE x \in Placed' <=> x \in Placed \cup {a}
    <3>1. x \in Placed' <=> \E s \in Repos : x \in InRepo(s)'
      BY DEF Placed
    <3>2. x \in Placed <=> \E s \in Repos : x \in InRepo(s)
      BY DEF Placed
    <3> QED
      BY <1>13, <3>1, <3>2
  <2> QED
    BY <2>1
<1>15. (\E n \in 0..Len(order) : Placed = Before(n + 1) /\ (at = "grouped" => n = Len(order)))'
  <2> DEFINE n == k + 1
  <2>1. order' = order
    BY <1>0 DEF sorting
  <2>2. Placed' = {order[j] : j \in 1..n}
    <3>1. {order[j] : j \in 1..(k + 1)} = {order[j] : j \in 1..k} \cup {order[k + 1]}
      BY <1>4
    <3> QED
      BY <1>5, <1>14, <3>1 DEF a
  <2>3. n \in 0..Len(order) /\ (n + 1) - 1 = n
    BY <1>4
  <2> HIDE DEF n
  <2>4. \A i : i = n + 1 => Before(i)' = Placed'
    BY <2>1, <2>2, <2>3 DEF Before
  <2> QED
    BY <1>0, <2>1, <2>3, <2>4
<1>16. ASSUME NEW s \in Repos, NEW u \in Repos,
              NEW i \in 1..Len(repo_agents'[s]), NEW j \in 1..Len(repo_agents'[u]),
              repo_agents'[s][i] = repo_agents'[u][j]
       PROVE  s = u /\ i = j
  <2>1. \A v \in Repos : \A h \in 1..Len(repo_agents'[v]) :
          \/ v = r /\ h = m + 1 /\ repo_agents'[v][h] = a
          \/ /\ h \in 1..Len(repo_agents[v]) /\ repo_agents'[v][h] = repo_agents[v][h]
             /\ repo_agents'[v][h] # a
    <3> SUFFICES ASSUME NEW v \in Repos, NEW h \in 1..Len(repo_agents'[v])
                 PROVE  \/ v = r /\ h = m + 1 /\ repo_agents'[v][h] = a
                        \/ /\ h \in 1..Len(repo_agents[v]) /\ repo_agents'[v][h] = repo_agents[v][h]
                           /\ repo_agents'[v][h] # a
      OBVIOUS
    <3>1. CASE v = r /\ h = m + 1
      BY <1>8, <3>1
    <3>2. CASE ~(v = r /\ h = m + 1)
      <4>1. h \in 1..Len(repo_agents[v]) /\ repo_agents'[v][h] = repo_agents[v][h]
        BY <1>7, <1>8, <1>9, <3>2 DEF m
      <4>2. repo_agents[v][h] \in Placed
        BY <4>1 DEF Placed, InRepo
      <4> QED
        BY <1>6, <4>1, <4>2
    <3> QED
      BY <3>1, <3>2
  <2>2. CASE repo_agents'[s][i] = a
    <3>1. repo_agents'[u][j] = a
      BY <1>16, <2>2
    <3>2. s = r /\ i = m + 1
      BY <2>1, <2>2
    <3>3. u = r /\ j = m + 1
      BY <2>1, <3>1
    <3> QED
      BY <3>2, <3>3
  <2>3. CASE repo_agents'[s][i] # a
    <3>1. /\ i \in 1..Len(repo_agents[s]) /\ j \in 1..Len(repo_agents[u])
          /\ repo_agents[s][i] = repo_agents[u][j]
      BY <1>16, <2>1, <2>3
    <3> QED
      BY <3>1 DEF GroupInv
  <2> QED
    BY <2>2, <2>3
<1> DEFINE l == Len(repo_order)
<1>17. /\ \A t, u \in 1..l : repo_order[t] = repo_order[u] => t = u
       /\ \A s \in Repos : repo_agents[s] # <<>> <=> \E t \in 1..l : repo_order[t] = s
       /\ \A t \in 1..l : \A d \in depends_on[repo_agents[repo_order[t]][1]] :
            \E u \in 1..(t - 1) : d \in InRepo(repo_order[u])
       /\ l \in Nat /\ \A t \in 1..l : repo_order[t] \in Repos
  <2>1. l \in Nat /\ \A t \in 1..l : repo_order[t] \in Repos
    BY <1>7, ElementOfSeq
  <2> QED
    BY <2>1 DEF GroupInv
<1>18. ASSUME NEW s \in Repos, repo_agents[s] # <<>>
       PROVE  repo_agents'[s][1] = repo_agents[s][1] /\ repo_agents'[s] # <<>>
  <2>1. CASE s = r
    BY <1>7, <1>8, <1>18, <2>1
  <2>2. CASE s # r
    BY <1>9, <1>18, <2>2
  <2> QED
    BY <2>1, <2>2
<1>19. ASSUME NEW t \in 1..l, NEW d \in depends_on[repo_agents'[repo_order[t]][1]]
       PROVE  \E u \in 1..(t - 1) : \E s \in Repos : repo_order[u] = s /\ d \in InRepo(s)'
  <2>1. repo_agents[repo_order[t]] # <<>> /\ repo_order[t] \in Repos
    BY <1>17
  <2>2. d \in depends_on[repo_agents[repo_order[t]][1]]
    BY <1>18, <1>19, <2>1
  <2>3. PICK u \in 1..(t - 1) : d \in InRepo(repo_order[u])
    BY <1>17, <2>2
  <2>4. PICK s \in Repos : s = repo_order[u]
    BY <1>17, <2>3
  <2>5. d \in InRepo(s)'
    BY <1>13, <2>3, <2>4
  <2> QED
    BY <2>4, <2>5
<1> HIDE DEF l
<1>20. /\ \A t, u \in 1..Len(repo_order') : repo_order'[t] = repo_order'[u] => t = u
       /\ \A s \in Repos : repo_agents'[s] # <<>> <=> \E t \in 1..Len(repo_order') : repo_order'[t] = s
       /\ \A t \in 1..Len(repo_order') : \A d \in depends_on[repo_agents'[repo_order'[t]][1]] :
            \E u \in 1..(t - 1) : \E s \in Repos : repo_order'[u] = s /\ d \in InRepo(s)'
  <2>1. CASE repo_agents[r] # <<>>
    <3>1. repo_order' = repo_order /\ Len(repo_order') = l
      BY <1>3, <2>1 DEF l
    <3>2. \A s \in Repos : repo_agents'[s] # <<>> <=> repo_agents[s] # <<>>
      BY <1>8, <1>9, <2>1
    <3>3. ASSUME NEW t \in 1..Len(repo_order'), NEW d \in depends_on[repo_agents'[repo_order'[t]][1]]
          PROVE  \E u \in 1..(t - 1) : \E s \in Repos : repo_order'[u] = s /\ d \in InRepo(s)'
      BY <1>19, <3>1, <3>3
    <3>4. \A s \in Repos : repo_agents'[s] # <<>> <=> \E t \in 1..l : repo_order[t] = s
      BY <1>17, <3>2
    <3> QED
      BY <1>17, <3>1, <3>3, <3>4
  <2>2. CASE repo_agents[r] = <<>>
    <3>1. /\ Len(repo_order') = l + 1 /\ repo_order'[l + 1] = r
          /\ \A t \in 1..l : repo_order'[t] = repo_order[t] /\ repo_order[t] # r
      BY <1>3, <1>7, <1>17, <2>2, AppendProperties DEF l
    <3>2. m = 0 /\ repo_agents'[r][1] = a
      BY <1>7, <1>8, <2>2
    <3>3. ASSUME NEW t \in 1..(l + 1), NEW u \in 1..(l + 1), repo_order'[t] = repo_order'[u]
          PROVE  t = u
      <4>1. CASE t = l + 1 \/ u = l + 1
        BY <1>17, <3>1, <3>3, <4>1
      <4>2. CASE t # l + 1 /\ u # l + 1
        <5>1. t \in 1..l /\ u \in 1..l
          BY <1>17, <4>2
        <5> QED
          BY <1>17, <3>1, <3>3, <5>1
      <4> QED
        BY <4>1, <4>2
    <3>4. ASSUME NEW s \in Repos
          PROVE  repo_agents'[s] # <<>> <=> \E t \in 1..(l + 1) : repo_order'[t] = s
      <4>1. CASE s = r
        BY <1>8, <1>17, <3>1, <4>1
      <4>2. CASE s # r
        <5>1. repo_agents'[s] # <<>> <=> \E t \in 1..l : repo_order[t] = s
          BY <1>9, <1>17, <4>2
        <5>2. ASSUME NEW t \in 1..(l + 1), repo_order'[t] = s PROVE t \in 1..l /\ repo_order[t] = s
          BY <1>17, <3>1, <4>2, <5>2
        <5>3. \A t \in 1..l : t \in 1..(l + 1) /\ repo_order'[t] = repo_order[t]
          BY <1>17, <3>1
        <5> QED
          BY <5>1, <5>2, <5>3
      <4> QED
        BY <4>1, <4>2
    <3>5. ASSUME NEW t \in 1..(l + 1), NEW d \in depends_on[repo_agents'[repo_order'[t]][1]]
          PROVE  \E u \in 1..(t - 1) : \E s \in Repos : repo_order'[u] = s /\ d \in InRepo(s)'
      <4>1. CASE t = l + 1
        <5>1. d \in Placed
          BY <1>6, <3>1, <3>2, <3>5, <4>1
        <5>2. PICK s \in Repos : d \in InRepo(s)
          BY <5>1 DEF Placed
        <5>3. repo_agents[s] # <<>>
          BY <5>2, EmptySeq DEF InRepo
        <5>4. PICK u \in 1..l : repo_order[u] = s
          BY <1>17, <5>3
        <5>5. u \in 1..(t - 1) /\ repo_order'[u] = s /\ d \in InRepo(s)'
          BY <1>13, <1>17, <3>1, <4>1, <5>2, <5>4
        <5> QED
          BY <5>5
      <4>2. CASE t # l + 1
        <5>1. t \in 1..l /\ repo_order'[t] = repo_order[t]
          BY <1>17, <3>1, <4>2
        <5>2. PICK u \in 1..(t - 1), s \in Repos : repo_order[u] = s /\ d \in InRepo(s)'
          BY <1>19, <3>5, <5>1
        <5>3. repo_order'[u] = s
          BY <1>17, <3>1, <5>1, <5>2
        <5> QED
          BY <5>2, <5>3
      <4> QED
        BY <4>1, <4>2
    <3> QED
      BY <3>1, <3>3, <3>4, <3>5
  <2> QED
    BY <2>1, <2>2
<1>21. \A u, s : repo_order'[u] = s => InRepo(repo_order[u])' = InRepo(s)'
  BY DEF InRepo
<1>22. (\A t \in 1..Len(repo_order) : \A d \in depends_on[repo_agents[repo_order[t]][1]] :
          \E u \in 1..(t - 1) : d \in InRepo(repo_order[u]))'
  <2>1. depends_on' = depends_on
    BY <1>0 DEF edges
  <2> SUFFICES ASSUME NEW t \in 1..Len(repo_order'), NEW d \in depends_on[repo_agents'[repo_order'[t]][1]]
               PROVE  \E u \in 1..(t - 1) : d \in InRepo(repo_order[u])'
    BY <2>1
  <2>2. PICK u \in 1..(t - 1), s \in Repos : repo_order'[u] = s /\ d \in InRepo(s)'
    BY <1>20
  <2>3. d \in InRepo(repo_order[u])'
    BY <1>21, <2>2
  <2> QED
    BY <2>3
<1>23. GroupInv'
  BY <1>0, <1>15, <1>16, <1>20, <1>22 DEF GroupInv
<1> QED
  BY <1>10, <1>11, <1>12, <1>23

\* The loop over the order ends when all agents are in a group.
LEMMA AllGroupedStep ==
  ASSUME GraphInv, AllGrouped
  PROVE  GraphInv'
<1> USE DEF GraphInv
<1>0. /\ at = "group" /\ at' = "grouped" /\ Grouped = Len(order)
      /\ UNCHANGED <<unread, edges, search, sorting, grouping>>
  BY DEF AllGrouped
<1>1. PICK k \in 0..Len(order) : Placed = Before(k + 1)
  BY DEF GroupInv
<1>2. k = Len(order)
  BY <1>0, <1>1, GroupedCounts
<1>3. GraphTypes' /\ EdgesMirror'
  BY <1>0 DEF GraphTypes, Where, EdgesMirror, edges, search, sorting, grouping
<1>4. SearchInv' /\ SortInv'
  BY <1>0, SearchStays, OrderStays DEF SearchInv, SearchPhases
<1>5. UNCHANGED <<depends_on, order, repo_order, repo_agents>>
  BY <1>0 DEF edges, sorting, grouping
<1>6. (\E n \in 0..Len(order) : Placed = Before(n + 1) /\ (at = "grouped" => n = Len(order)))'
  <2>1. Placed' = Placed /\ \A i : Before(i)' = Before(i)
    BY <1>5 DEF Placed, InRepo, Before
  <2>2. \A i : i = k + 1 => Before(i)' = Placed'
    BY <1>1, <2>1
  <2> QED
    BY <1>2, <1>5, <2>2
<1>7. GroupInv'
  BY <1>0, <1>5, <1>6 DEF GroupInv, InRepo
<1> QED
  BY <1>3, <1>4, <1>7

----------------------------------------------------------------------------
(* The theorems *)

\* A step that changes nothing.
LEMMA GraphStutter ==
  ASSUME GraphInv, UNCHANGED vars
  PROVE  GraphInv'
<1> USE DEF GraphInv, vars, edges, search, sorting, grouping
<1>1. GraphTypes' /\ EdgesMirror'
  BY DEF GraphTypes, EdgesMirror
<1>2. SearchInv'
  BY DEF SearchInv, StackIsPath, FinishedIsAcyclic, SearchPhases, Finished, Cyclic
<1>3. SortInv'
  <2>1. Emitted' = Emitted /\ \A i : Before(i)' = Before(i)
    BY DEF Emitted, Before
  <2>2. /\ MayFollow(Emitted)' = MayFollow(Emitted)
        /\ \A i : MayFollow(Before(i))' = MayFollow(Before(i))
    BY <2>1 DEF MayFollow
  <2>3. \A i : Least(MayFollow(Before(i)))' = Least(MayFollow(Before(i)))
    BY <2>2 DEF Least
  <2> QED
    BY <2>1, <2>2, <2>3 DEF SortInv
<1>4. GroupInv'
  <2>1. Placed' = Placed /\ \A i : Before(i)' = Before(i)
    BY DEF Placed, InRepo, Before
  <2>2. (\E n \in 0..Len(order) : Placed = Before(n + 1) /\ (at = "grouped" => n = Len(order)))'
    BY <2>1 DEF GroupInv
  <2> QED
    BY <2>2 DEF GroupInv, InRepo
<1> QED
  BY <1>1, <1>2, <1>3, <1>4

\* The invariant holds from the first prompt to the last group.
LEMMA GraphInvariant == Spec => []GraphInv
<1>1. GraphInv /\ [Next]_vars => GraphInv'
  BY ReadStep, ValidateStep, RootStep, LookStep, FinishStep, CountEdgesStep, EmitStep,
     OrderedStep, GroupStep, AllGroupedStep, GraphStutter DEF Next
<1> QED
  BY GraphInit, <1>1, PTL DEF Spec

\* Every variable is of its type, and the two edge lists mirror each other.
THEOREM TypeCorrect == Spec => []TypeOK
<1>1. GraphInv => TypeOK
  BY DEF GraphInv, GraphTypes, EdgesMirror, SearchInv, StackIsPath, SortInv, Where, TypeOK
<1> QED
  BY GraphInvariant, <1>1, PTL

\* The search refuses a session only if some agents wait for one another in a
\* circle, lets pass only those in which none do, and the sort, which would
\* find out what the search had missed, never does.
THEOREM SearchIsRight == Spec => []CycleVerdict
<1>1. GraphInv => CycleVerdict
  BY DEF GraphInv, SearchInv, SearchPhases, FinishedIsAcyclic, SortInv, Cyclic, CycleVerdict
<1> QED
  BY GraphInvariant, <1>1, PTL

\* The order is the least of the topological orders of the session's agents.
THEOREM SortIsLeast == Spec => []OrderIsLeast
<1>1. GraphInv => OrderIsLeast
  BY DEF GraphInv, SortInv, Before, MayFollow, Emitted, OrderIsLeast
<1> QED
  BY GraphInvariant, <1>1, PTL

\* When a repository has its turn, all that its first agent depends on is in
\* repositories that had theirs, and every agent is in one group, once.
THEOREM FirstsAreServed == Spec => []FirstAgentsAreServed
<1>1. GraphInv => FirstAgentsAreServed
  <2> SUFFICES ASSUME GraphInv, at = "grouped",
                      NEW r \in Repos, repo_agents[r] # <<>>, NEW d \in depends_on[repo_agents[r][1]]
               PROVE  Turn(RepoOf(d)) < Turn(r)
    BY DEF GraphInv, GroupInv, FirstAgentsAreServed
  <2>1. PICK t \in 1..Len(repo_order) : repo_order[t] = r
    BY DEF GraphInv, GroupInv
  <2>2. PICK u \in 1..(t - 1) : d \in InRepo(repo_order[u])
    BY <2>1 DEF GraphInv, GroupInv
  <2>3. Len(repo_order) \in Nat /\ u \in 1..Len(repo_order) /\ repo_order[u] \in Repos
    <3>1. repo_order \in Seq(Repos)
      BY DEF GraphInv, GraphTypes
    <3>2. Len(repo_order) \in Nat /\ u \in 1..Len(repo_order)
      BY <3>1
    <3> QED
      BY <3>1, <3>2, ElementOfSeq
  <2>4. RepoOf(d) = repo_order[u]
    <3> DEFINE Holds(s) == \E i \in 1..Len(repo_agents[s]) : repo_agents[s][i] = d
    <3>1. Holds(repo_order[u])
      BY <2>2 DEF InRepo
    <3>2. \A s \in Repos : Holds(s) => s = repo_order[u]
      <4>1. \A s, v \in Repos : \A i \in 1..Len(repo_agents[s]), j \in 1..Len(repo_agents[v]) :
              repo_agents[s][i] = repo_agents[v][j] => s = v
        BY DEF GraphInv, GroupInv
      <4>2. QED
        BY <2>3, <3>1, <4>1
    <3>3. RepoOf(d) = CHOOSE s \in Repos : Holds(s)
      BY DEF RepoOf
    <3> HIDE DEF Holds
    <3> QED
      BY <2>3, <3>1, <3>2, <3>3
  <2>5. \A s, v \in 1..Len(repo_order) : repo_order[s] = repo_order[v] => s = v
    BY DEF GraphInv, GroupInv
  <2>6. Turn(repo_order[u]) = u /\ Turn(r) = t
    BY <2>1, <2>3, <2>5 DEF Turn
  <2> QED
    BY <2>3, <2>4, <2>6
<1> QED
  BY GraphInvariant, <1>1, PTL

=============================================================================
