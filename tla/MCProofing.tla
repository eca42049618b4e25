----------------------------- MODULE MCProofing -----------------------------
(* Instances of Proofing for TLC. *)
EXTENDS Proofing, TLC

CONSTANTS x, y, s1, s2, heap

Entry(exposes, consumes, assumes) ==
  [exposes |-> exposes, consumes |-> consumes, assumes |-> assumes]

Empty == Entry({}, {}, {})

Schema(shape, entries) == [shape |-> shape, entries |-> entries]
Modules(entries)       == Schema("modules", entries)

Templates(n) == [a \in 1..n |-> Modules(a :> Empty)]

(* Four agents: 1 has the module_key of 4 and is dropped, 2 stages nothing;
   3 is proofed first, then 4, then 2.  3 may declare a bare entry, 4 a
   mapping of modules. *)
FourTemplates == Templates(4)
FourKeys == <<2, 3, 1, 2>>
FourVersions ==
  << {Modules(1 :> Empty)},
     {Modules(2 :> Empty), Modules(2 :> Entry({}, {<<x, NoSig>>}, {}))},
     {Modules(3 :> Empty), Modules(3 :> Entry({<<x, s1>>}, {}, {})),
      Modules(3 :> Entry({}, {}, {<<heap, TRUE>>})),
      Schema("entry", 3 :> Entry({<<x, s1>>}, {}, {}))},
     {Modules(4 :> Empty), Modules(4 :> Entry({<<x, s2>>}, {}, {<<heap, FALSE>>})),
      Schema("mapping", 4 :> Entry({}, {<<x, s2>>}, {}))} >>

(* Two agents: the first may move its work from one module to another. *)
TwoTemplates == Templates(2)
TwoKeys == <<1, 2>>
TwoVersions ==
  << {Modules(1 :> Empty), Modules(1 :> Entry({<<x, s1>>}, {<<y, s1>>}, {})), Modules(3 :> Empty)},
     {Modules(2 :> Empty), Modules(2 :> Entry({}, {<<x, s1>>}, {}))} >>

=============================================================================
