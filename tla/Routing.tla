------------------------------ MODULE Routing ------------------------------
(***************************************************************************)
(* Which repository an agent's files go to: the conductor's wizard, the    *)
(* sidecar repo_paths.json and the manifest at the staging base, --resume  *)
(* (conductor/cli.py, conductor/session.py), the router                    *)
(* (conductor/router.py), and the grouping, copying and enqueueing of      *)
(* atomic_commit_multi_repo() (conductor/commit.py).                       *)
(*                                                                         *)
(* All conductors share one staging base, whatever they work on: the       *)
(* manifest and the sidecar are those of whoever wrote them last.  The     *)
(* sidecar is written before the manifest, and only by a session that      *)
(* names a repository.  Agents are numbered in the graph's topological     *)
(* order; how they get done is the matter of ReleaseLoop and Proofing, and *)
(* what becomes of an entry that of CommitQueue.                           *)
(***************************************************************************)
EXTENDS Naturals, FiniteSetsExt

CONSTANTS
  Conductors,   \* processes
  Team,         \* the agents of a session, 1..n
  Paths,        \* the repositories, by their resolved paths
  Names,        \* what the operator may call one, "default" among them
  NameOf,       \* the name _get_repo_name() derives from a path
  Roots,        \* the target repositories that are entered first
  MaxSessions, MaxNamed, MaxKills \* bounds: wizards, repositories named in each, and
                \* conductors that are stopped

Default == "default"

ASSUME RoutingAssumption ==
  /\ IsFiniteSet(Team) /\ Team = 1..Cardinality(Team)
  /\ Paths # {}  \* a conductor has a target repository
  /\ NameOf \in [Paths -> Names] /\ Roots \subseteq Paths /\ Default \in Names
  /\ MaxSessions \in Nat /\ MaxNamed \in Nat /\ MaxKills \in Nat

VARIABLES
  at,        \* where each conductor stands
  session,   \* its ConductorSession
  answered,  \* the agents whose repository the wizard has asked for; 0 is all of them
  router,    \* its RepoRouter: the path of each registered name
  manifest,  \* session.json
  sidecar,   \* repo_paths.json, and whose it is
  staging,   \* sessions that have been distributed and not yet torn down
  entries,   \* the queue entries that were made
  begun,     \* wizards so far
  kills,
  \* history
  typed,     \* the repository the operator has entered for each agent of a session
  clashed,   \* sessions in which one name was to mean two repositories
  foreign    \* sessions that were routed by a sidecar that is not theirs

conductor   == <<at, session, answered, router>>
disk        == <<manifest, sidecar, staging>>
history     == <<typed, clashed, foreign>>
routingVars == <<conductor, disk, entries, begun, kills, history>>

----------------------------------------------------------------------------
NoPaths == [n \in {} |-> n]
NoSession == [id |-> 0]
New(id, root) ==
  [id |-> id, root |-> root, repo |-> [a \in Team |-> Default], paths |-> NoPaths]

MultiRepo(s) == \E a \in Team : s.repo[a] # Default

RoutingInit ==
  /\ at = [c \in Conductors |-> "off"] /\ session = [c \in Conductors |-> NoSession]
  /\ answered = [c \in Conductors |-> {}] /\ router = [c \in Conductors |-> NoPaths]
  /\ manifest = NoSession /\ sidecar = [id |-> 0, paths |-> NoPaths]
  /\ staging = {} /\ entries = {} /\ begun = 0 /\ kills = 0
  /\ typed = [i \in 1..MaxSessions |-> [a \in Team |-> CHOOSE p \in Paths : TRUE]]
  /\ clashed = {} /\ foreign = {}

Goto(c, place) == at' = [at EXCEPT ![c] = place]
Leave(c) ==
  /\ Goto(c, "off") /\ session' = [session EXCEPT ![c] = NoSession]
  /\ answered' = [answered EXCEPT ![c] = {}] /\ router' = [router EXCEPT ![c] = NoPaths]

----------------------------------------------------------------------------
(* The wizard *)

Begin(c, root) ==
  /\ at[c] = "off" /\ begun < MaxSessions
  /\ begun' = begun + 1
  /\ session' = [session EXCEPT ![c] = New(begun', root)]
  /\ typed' = [typed EXCEPT ![begun'] = [a \in Team |-> root]]
  /\ Goto(c, "wizard")
  /\ UNCHANGED <<answered, router, disk, entries, kills, clashed, foreign>>

\* What a name means in a session; "default" is the target repository.
Meaning(s) == [n \in DOMAIN s.paths \cup {Default} |-> IF n = Default THEN s.root ELSE s.paths[n]]

\* Mutant of With: each repository begins the map anew.
WithOnly(paths, name, path) == [n \in {name} |-> path]

With(paths, name, path) ==
  [n \in (DOMAIN paths) \cup {name} |-> IF n \in DOMAIN paths THEN paths[n] ELSE path]

\* _resolve_repo(): the operator enters a path, which is known by the name derived
\* from it, or a name and, if it is new, a path; the first path of a name stays.
Resolve(c, who, name, path) ==
  LET s     == session[c]
      asked == IF who = 0 THEN Team ELSE {who}
  IN /\ session' = [session EXCEPT
          ![c].repo  = [a \in Team |-> IF a \in asked THEN name ELSE @[a]],
          ![c].paths = With(@, name, path)]
     /\ answered' = [answered EXCEPT ![c] = @ \cup {who}]
     /\ typed' = [typed EXCEPT ![s.id] = [a \in Team |-> IF a \in asked THEN path ELSE @[a]]]
     /\ clashed' = IF name \in DOMAIN Meaning(s) /\ Meaning(s)[name] # path
                   THEN clashed \cup {s.id} ELSE clashed

EnterPath(c, who, path) == Resolve(c, who, NameOf[path], path)

EnterName(c, who, name, path) ==
  /\ name \in DOMAIN session[c].paths => path = session[c].paths[name]
  /\ Resolve(c, who, name, path)

\* The default of all agents is asked for first, and each agent at most once.
Ask(c, who) ==
  /\ at[c] = "wizard" /\ Cardinality(answered[c]) < MaxNamed
  /\ IF who = 0 THEN answered[c] = {} ELSE who \notin answered[c]
  /\ \E path \in Paths : EnterPath(c, who, path) \/ \E name \in Names : EnterName(c, who, name, path)
  /\ UNCHANGED <<at, router, disk, entries, begun, kills, foreign>>

\* The operator confirms.  save_repo_paths() does nothing when no path was entered;
\* write_text() empties the sidecar and then fills it, and an empty one is read as {}.
Confirm(c) ==
  /\ at[c] = "wizard"
  /\ LET s == session[c] IN
       IF s.paths = NoPaths THEN Goto(c, "prime") /\ UNCHANGED sidecar
       ELSE Goto(c, "save") /\ sidecar' = [id |-> s.id, paths |-> NoPaths]
  /\ UNCHANGED <<session, answered, router, manifest, staging, entries, begun, kills, history>>

FillSidecar(c) ==
  /\ at[c] = "save"
  /\ sidecar' = [id |-> session[c].id, paths |-> session[c].paths]
  /\ Goto(c, "prime")
  /\ UNCHANGED <<session, answered, router, manifest, staging, entries, begun, kills, history>>

Abort(c) ==
  /\ at[c] = "wizard"
  /\ Leave(c)
  /\ UNCHANGED <<disk, entries, begun, kills, history>>

----------------------------------------------------------------------------
(* run_session() *)

\* distribute(), build_dag() and save_manifest().
Distribute(c) ==
  /\ at[c] = "prime"
  /\ staging' = staging \cup {session[c].id}
  /\ manifest' = session[c]
  /\ Goto(c, "route")
  /\ UNCHANGED <<session, answered, router, sidecar, entries, begun, kills, history>>

\* resume_session() and from_manifest(): the paths are not in the manifest.
ResumeSession(c) ==
  /\ at[c] = "off" /\ manifest # NoSession /\ manifest.id \in staging
  /\ session' = [session EXCEPT ![c] = [manifest EXCEPT !.paths = NoPaths]]
  /\ Goto(c, "route")
  /\ UNCHANGED <<answered, router, disk, entries, begun, kills, history>>

\* build_router(): the default repository, and the configured ones agents name.
Registered(s, paths) ==
  LET named == {s.repo[a] : a \in Team} \cap DOMAIN paths
  IN [n \in named \cup {Default} |-> IF n = Default THEN s.root ELSE paths[n]]

Route(c) ==
  /\ at[c] = "route"
  /\ LET s == session[c] IN
       IF MultiRepo(s)
       THEN /\ router' = [router EXCEPT ![c] = Registered(s, sidecar.paths)]
            /\ foreign' = IF sidecar.id # s.id THEN foreign \cup {s.id} ELSE foreign
       ELSE UNCHANGED <<router, foreign>>
  /\ Goto(c, "agents")
  /\ UNCHANGED <<session, answered, disk, entries, begun, kills, typed, clashed>>

\* get_repo_for_agent(): an agent without a configured path is on the default one.
PathOf(c, a) ==
  LET name == session[c].repo[a]
  IN router[c][IF name \in DOMAIN router[c] THEN name ELSE Default]

\* Mutant of CopyRoot: the files go where the conductor was invoked.
CopyRootInvoked(c, name) == session[c].root

\* Where the commit copies the files of a repository's agents.
CopyRoot(c, name) ==
  IF name \in DOMAIN router[c] THEN router[c][name] ELSE session[c].root

\* atomic_commit_multi_repo() makes an entry for each name, on the route of its
\* first agent; atomic_commit() makes one.
Entries(c) ==
  LET s == session[c]
      group(name) == {a \in Team : s.repo[a] = name}
  IN IF MultiRepo(s)
     THEN {[id |-> s.id, repo |-> name, agents |-> group(name), copied |-> CopyRoot(c, name),
            path |-> PathOf(c, Min(group(name)))] : name \in {s.repo[a] : a \in Team}}
     ELSE {[id |-> s.id, repo |-> Default, agents |-> Team, copied |-> s.root, path |-> s.root]}

\* update_state(): run_dependency_aware() rewrites the manifest whenever an agent
\* becomes ready, is launched, done or blocked, whoever has written it since.
UpdateState(c) ==
  /\ at[c] = "agents"
  /\ manifest' = session[c]
  /\ UNCHANGED <<conductor, sidecar, staging, entries, begun, kills, history>>

\* The agents get done, and their files are committed if they are still staged.
Commit(c) ==
  /\ at[c] = "agents"
  /\ entries' = IF session[c].id \in staging THEN entries \cup Entries(c) ELSE entries
  /\ staging' = staging \ {session[c].id}
  /\ Leave(c)
  /\ UNCHANGED <<manifest, sidecar, begun, kills, history>>

\* The operator stops the conductor, or it gives up waiting.
StopConductor(c) ==
  /\ at[c] \in {"save", "prime", "route", "agents"} /\ kills < MaxKills
  /\ kills' = kills + 1
  /\ Leave(c)
  /\ UNCHANGED <<disk, entries, begun, history>>

RoutingNext ==
  \E c \in Conductors :
    \/ \E root \in Roots : Begin(c, root)
    \/ \E who \in {0} \cup Team : Ask(c, who)
    \/ Confirm(c) \/ FillSidecar(c) \/ Abort(c) \/ Distribute(c) \/ ResumeSession(c)
    \/ Route(c) \/ UpdateState(c) \/ Commit(c) \/ StopConductor(c)

RoutingSpec == RoutingInit /\ [][RoutingNext]_routingVars

----------------------------------------------------------------------------
(* Properties *)

Known == UNION {[ns -> Paths] : ns \in SUBSET Names}
Session ==
  {NoSession} \cup
  [id : 1..MaxSessions, root : Roots, repo : [Team -> Names], paths : Known]

\* Every variable is of its type.
RoutingTypeOK ==
  /\ at \in [Conductors -> {"off", "wizard", "save", "prime", "route", "agents"}]
  /\ session \in [Conductors -> Session] /\ manifest \in Session
  /\ answered \in [Conductors -> SUBSET ({0} \cup Team)]
  /\ router \in [Conductors -> Known]
  /\ sidecar \in [id : 0..MaxSessions, paths : Known] /\ staging \subseteq 1..MaxSessions
  /\ entries \subseteq
       [id : 1..MaxSessions, repo : Names, agents : SUBSET Team, copied : Paths, path : Paths]
  /\ begun \in 0..MaxSessions /\ kills \in 0..MaxKills
  /\ typed \in [1..MaxSessions -> [Team -> Paths]]
  /\ clashed \subseteq 1..MaxSessions /\ foreign \subseteq 1..MaxSessions

\* An agent's files are committed to the repository the operator entered for it,
\* however sessions overlap and are resumed, unless one name was to mean two
\* repositories or another wizard has rewritten the sidecar in between; what is on
\* the default repository is not even touched by that.
RoutedAsTyped ==
  \A e \in entries : \A a \in e.agents :
    e.path # typed[e.id][a] => e.id \in clashed \/ (e.id \in foreign /\ e.repo # Default)

\* The worktree files are copied to is that of the entry that commits them, though
\* the one is looked up by the name and the other by the agent.
CopiedWhereQueued == \A e \in entries : e.copied = e.path

\* "Each repo receives exactly ONE queue entry."  It does not hold, and no run
\* checks it: a repository may go by two names, or be a name's fallback.
OneEntryPerRepository ==
  \A e, f \in entries : e.id = f.id /\ e.path = f.path => e = f

\* "Repo assignments [...] are all reused as-is" by --resume.  It does not hold,
\* and no run checks it: the paths are not in the manifest.
ResumedAsTyped ==
  \A e \in entries : \A a \in e.agents : e.path # typed[e.id][a] => e.id \in clashed
=============================================================================
