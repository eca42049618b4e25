----------------------------- MODULE PeerCheck -----------------------------
(***************************************************************************)
(* PeerChecker (memory/peer_checker.py): when does an agent's declared     *)
(* schema conflict with what its peers have in live/?                      *)
(*                                                                         *)
(* An entry is what an agent says of one module: the symbols it exposes    *)
(* and consumes, each with a signature, and its assumptions, each a topic  *)
(* and whether it is claimed or denied.  A schema holds entries, in one of *)
(* three shapes: under "modules", as one bare entry, or as a mapping of    *)
(* modules to entries; the check reads all three alike.  live/ is a        *)
(* function from <<agent, module>> to entries.  Agents and modules are     *)
(* numbered in the order of their names, in which the files are read.      *)
(***************************************************************************)
EXTENDS Integers

CONSTANT NoSig   \* the empty signature, which matches every other

Shapes == {"modules", "entry", "mapping"}

\* _iter_module_entries(): the entries of a schema, whatever its shape.
Entries(schema) == {schema.entries[m] : m \in DOMAIN schema.entries}
View(live, a)   == {live[k] : k \in {k \in DOMAIN live : k[1] = a}}
Peers(live, a)  == {k[1] : k \in DOMAIN live} \ {a}

Symbols(E)      == {e[1] : e \in UNION {x.exposes : x \in E}}
Consumed(E)     == UNION {x.consumes : x \in E}
Assumptions(E)  == UNION {x.assumes : x \in E}

\* _check_collisions(): both expose a symbol.
Collide(E, F) == Symbols(E) \cap Symbols(F) # {}

\* _check_assumption_clashes(): one assumes what the other denies.
Clash(E, F) ==
  \E p \in Assumptions(E), q \in Assumptions(F) : p[1] = q[1] /\ p[2] # q[2]

Providers(live, a, s) == {p \in Peers(live, a) : s \in Symbols(View(live, p))}

\* An agent's signatures of a symbol, were there several: the last file's.
Signature(live, p, s) ==
  CHOOSE g \in {e[2] : e \in UNION {x.exposes : x \in View(live, p)}} :
    \E m \in {k[2] : k \in DOMAIN live} :
      /\ <<p, m>> \in DOMAIN live /\ <<s, g>> \in live[<<p, m>>].exposes
      /\ \A n \in {k[2] : k \in DOMAIN live} :
           n > m /\ <<p, n>> \in DOMAIN live => s \notin Symbols({live[<<p, n>>]})

\* _check_interface_mismatches(): no peer exposes a consumed symbol, or the
\* first that does has another signature.
Mismatched(live, a, c) ==
  LET providers == Providers(live, a, c[1])
      first     == CHOOSE p \in providers : \A q \in providers : p <= q
      actual    == Signature(live, first, c[1])
  IN providers # {} => NoSig \notin {c[2], actual} /\ c[2] # actual

\* check(): what conflicts E, which a declares, has with a's peers.
Conflicts(live, a, E) ==
  {<<"COLLISION", p>> : p \in {p \in Peers(live, a) : Collide(E, View(live, p))}}
  \cup {<<"ASSUMPTION_CLASH", p>> : p \in {p \in Peers(live, a) : Clash(E, View(live, p))}}
  \cup {<<"INTERFACE_MISMATCH", c>> : c \in {c \in Consumed(E) : Mismatched(live, a, c)}}

=============================================================================
