---------------------------- MODULE Reachability ----------------------------
(***************************************************************************)
(* `scan --reachability=static` for Rust: each crate's fragment of the call *)
(* graph (crates/reach-driver), their merge (crates/reach/src/merge.rs) and *)
(* the verdict on an advisory's function (crates/reach/src/lib.rs), against *)
(* what the program can run.                                                *)
(*                                                                          *)
(* A program is a set of functions, each in a crate, and facts about them:  *)
(*   calls f g      f names g in a call          takes f g    f makes g a   *)
(*   drops f g      a value f drops has the           function pointer      *)
(*                  destructor g                 pointer f    f calls one   *)
(*   implements g   g implements the method      dispatch f   f calls it on *)
(*   coerces f g    f makes a trait object of         a trait object        *)
(*                  g's receiver                 foreign f    f calls FFI   *)
(*   constant f g   so does a constant f uses    exported g   FFI may call g*)
(*   generic g      g is compiled where it is instantiated                  *)
(* A fact about one function has it twice.                                  *)
(*                                                                          *)
(* Abstracted: one trait with one method, one fn-pointer signature, and one *)
(* monomorphization of a generic function; labels, paths and node numbers.  *)
(***************************************************************************)
EXTENDS Cases

Has(p, kind, f, g) == [kind |-> kind, from |-> f, to |-> g] \in p.facts
Is(p, kind, f) == Has(p, kind, f, f)

\* Nothing names main, and what foreign code can call by name is not generic.
WellFormed(p) ==
    /\ p.main \in p.functions
    /\ ~Is(p, "generic", p.main)
    /\ \A f \in p.functions : Is(p, "exported", f) => ~Is(p, "generic", f)
    /\ \A fact \in p.facts : fact.to = p.main => fact.from = p.main

\* What a program starts with: main, or for a library being audited all it makes public.
Entries(p) ==
    IF p.lib THEN {f \in p.functions : p.crate[f] = p.primary /\ f \in p.public} ELSE {p.main}

(***************************************************************************)
(* What the program can run (Rust's semantics).                             *)
(***************************************************************************)
\* With the functions of S run, the body of f runs g.
Runs(p, S, f, g) ==
    \/ Has(p, "calls", f, g)
    \/ Has(p, "drops", f, g)
    \/ Is(p, "pointer", f) /\ \E h \in S : Has(p, "takes", h, g)
    \/ /\ Is(p, "dispatch", f) /\ Is(p, "implements", g)
       /\ \E h \in S : Has(p, "coerces", h, g) \/ Has(p, "constant", h, g)
    \/ Is(p, "foreign", f) /\ (Is(p, "exported", g) \/ \E h \in S : Has(p, "takes", h, g))

RunClosed(p, S) ==
    /\ Entries(p) \subseteq S
    /\ \A f \in S, g \in p.functions : Runs(p, S, f, g) => g \in S
CanRun(p, g) == \A S \in SUBSET p.functions : RunClosed(p, S) => g \in S

(***************************************************************************)
(* The fragments (reach-driver): the instances compiled in a crate are its  *)
(* own functions that are not generic, and the generic ones they use.       *)
(***************************************************************************)
Uses(p, f, g) ==
    \E kind \in {"calls", "drops", "takes", "coerces", "constant"} : Has(p, kind, f, g)
InstanceClosed(p, c, S) ==
    /\ \A f \in p.functions : p.crate[f] = c /\ ~Is(p, "generic", f) => f \in S
    /\ \A f \in S, g \in p.functions : Is(p, "generic", g) /\ Uses(p, f, g) => g \in S
Instances(p) ==
    [c \in p.scanned |->
       {f \in p.functions : \A S \in SUBSET p.functions : InstanceClosed(p, c, S) => f \in S}]

\* The address-taken set of a fragment, and what opaque code could call back.
Taken(p, own, c) == {g \in p.functions : \E f \in own[c] : Has(p, "takes", f, g)}
Escaped(p, own, c) == Taken(p, own, c) \cup {g \in own[c] : Is(p, "exported", g)}
\* The call sites that go to the opaque sentinel: FFI, and a pointer that nothing matches.
OpaqueSite(p, own, c, f) ==
    Is(p, "foreign", f) \/ (Is(p, "pointer", f) /\ Taken(p, own, c) = {})
\* The nodes: every instance and whatever one of them names.
Nodes(p, own) ==
    {g \in p.functions : \E c \in p.scanned :
       g \in own[c] \/ \E f \in own[c] : Has(p, "calls", f, g) \/ Has(p, "takes", f, g)}

(***************************************************************************)
(* The merge: dispatch resolved against every fragment's impls unless the   *)
(* receiver was provably never made a trait object (keep_impl), and opaque  *)
(* code wired to what escapes from any crate.                               *)
(***************************************************************************)
\* A scanned instance makes a trait object of g's receiver, or one comes from a constant it uses.
Coerced(p, own, g) ==
    \E c \in p.scanned : \E f \in own[c] :
       Has(p, "coerces", f, g) \/ \E h \in p.functions : Has(p, "constant", f, h)
KeepImpl(p, own, g) == p.crate[g] \notin p.scanned \/ Coerced(p, own, g)

\* An edge of fragment c, or one the merge adds for a call site in it.
Edge(p, own, c, f, g) ==
    \/ Has(p, "calls", f, g)
    \/ Is(p, "pointer", f) /\ g \in Taken(p, own, c)
    \/ /\ Is(p, "dispatch", f) /\ Is(p, "implements", g) /\ KeepImpl(p, own, g)
       /\ \E d \in p.scanned : g \in own[d]
OpaqueEdgeWithin(p, own, c, f, g) == OpaqueSite(p, own, c, f) /\ g \in Escaped(p, own, c)
OpaqueEdge(p, own, c, f, g) ==
    OpaqueSite(p, own, c, f) /\ \E d \in p.scanned : g \in Escaped(p, own, d)

(***************************************************************************)
(* The verdict: one search over the edges it can name, one across opaque    *)
(* code as well.                                                            *)
(***************************************************************************)
Roots(p, own) == {f \in Entries(p) : \E c \in p.scanned : f \in own[c]}
SearchClosed(p, own, opaque, S) ==
    /\ Roots(p, own) \subseteq S
    /\ \A c \in p.scanned : \A f \in S \cap own[c], g \in p.functions :
         Edge(p, own, c, f, g) \/ (opaque /\ OpaqueEdge(p, own, c, f, g)) => g \in S
Reached(p, own, opaque, g) ==
    \A S \in SUBSET p.functions : SearchClosed(p, own, opaque, S) => g \in S

\* A generic function that a scanned crate exports and nothing instantiates is never called.
NeverInstantiated(p, g) ==
    /\ Is(p, "generic", g) /\ g \in p.public
    /\ p.crate[g] \in p.scanned
    /\ ~(p.lib /\ p.crate[g] = p.primary)

Verdict(p, own, g) ==
    IF g \in Nodes(p, own)
    THEN IF Reached(p, own, FALSE, g) THEN "Reachable"
         ELSE IF Reached(p, own, TRUE, g) THEN "Unknown" ELSE "NotReachable"
    ELSE IF NeverInstantiated(p, g) THEN "NotReachable" ELSE "Unknown"

(***************************************************************************)
(* Soundness.                                                               *)
(***************************************************************************)
\* What the analysis takes for granted: no destructor runs anything that matters; every crate
\* with a function was compiled under the driver; a fragment that calls a pointer and takes any
\* address takes all the addresses there are; and a library's public functions are not generic.
Covered(p, own) ==
    /\ \A f, g \in p.functions : ~Has(p, "drops", f, g)
    /\ \A f \in p.functions : p.crate[f] \in p.scanned
    /\ \A c \in p.scanned : (\E f \in own[c] : Is(p, "pointer", f)) /\ Taken(p, own, c) # {} =>
         \A d \in p.scanned : Taken(p, own, d) \subseteq Taken(p, own, c)
    /\ \A f \in Entries(p) : ~Is(p, "generic", f)

Sound(p, own) == Verdict(p, own, p.sink) = "NotReachable" => ~CanRun(p, p.sink)

\* lib.rs: "Sound: no path from any root to this sink": within what the analysis takes for
\* granted, a function it calls NotReachable is one the program cannot run, whichever crate
\* calls, makes a pointer or a trait object, or hands a function to foreign code.
CoveredVerdictIsSound ==
    case.of = "reachability" =>
        LET own == Instances(case.program)
        IN  Covered(case.program, own) => Sound(case.program, own)
=============================================================================
