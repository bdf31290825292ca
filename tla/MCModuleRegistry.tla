-------------------------- MODULE MCModuleRegistry --------------------------
(* Three modules with every dependency graph between them, any of them      *)
(* broken or shipped disabled, and one override.                            *)
EXTENDS ModuleRegistry

MCOrder == <<2, 1, 1>>

Lists(m) == LET o == Modules \ {m} IN {<<>>} \cup {<<a>> : a \in o} \cup
                {<<p[1], p[2]>> : p \in {q \in o \X o : q[1] # q[2]}}

\* The third module may claim the path of the first, with a slash or without.
Prefix(m) == {<<m, FALSE>>} \cup (IF m = N THEN {<<1, FALSE>>, <<1, TRUE>>} ELSE {})

MCManifests ==
    [m \in 1..N |->
        {[enabled |-> e, broken |-> b, deps |-> d, absent |-> a, path |-> p[1], slash |-> p[2]] :
            e \in BOOLEAN, b \in {FALSE, m = 2}, d \in Lists(m), a \in {FALSE, m = 3},
            p \in Prefix(m)}]

MCOverrides ==
    LET none == [m \in Modules |-> "none"]
    IN {none} \cup {[none EXCEPT ![m] = s] : m \in Modules, s \in {"on", "off"}}
=============================================================================
