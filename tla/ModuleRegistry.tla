--------------------------- MODULE ModuleRegistry ---------------------------
(***************************************************************************)
(* The module registry at application start: load_modules                  *)
(* (utils/module_loader.py) discovers and validates the manifests, resolves *)
(* dependencies, applies the operator's overrides, resolves again and      *)
(* mounts (app/services/module_system/registry.py, contract.py).           *)
(*                                                                         *)
(* Modules are 1..N in the order of their directory names, in which they   *)
(* are discovered and resolved.  What a manifest says is chosen at the     *)
(* start; its many checks are one fact, whether it has an error.           *)
(***************************************************************************)
EXTENDS Integers, FiniteSets, Sequences, SequencesExt

CONSTANTS
    N,          \* number of module directories
    Order,      \* routes.order of each module
    Manifests,  \* the manifests a module may carry
    Overrides   \* what AMS_ENABLED_MODULES and AMS_DISABLED_MODULES may say

Modules == 1..N

\* enabled; broken: a check of its own fails; deps: the modules it depends on,
\* in the order it names them; absent: it also depends on one not installed;
\* path and slash: its url_prefix, written with a trailing slash or without.
ASSUME ManifestsAssumption ==
    \A m \in Modules : \A f \in Manifests[m] :
        /\ {f.enabled, f.broken, f.absent, f.slash} \subseteq BOOLEAN
        /\ f.deps \in Seq(Modules)
ASSUME OverridesAssumption == Overrides \subseteq [Modules -> {"none", "on", "off"}]

VARIABLES
    manifest,  \* what each module's manifest says
    override,  \* the operator's choice
    enabled,   \* spec.enabled
    status,    \* spec.status
    problems,  \* kinds of the errors in spec.problems
    owner,     \* prefix_owners: the module that claimed each path
    phase,     \* where load_modules stands
    next,      \* the module it visits next
    queue,     \* modules still to be mounted, in the order of the waves
    mounted    \* modules whose blueprints are registered, in that order

vars == <<manifest, override, enabled, status, problems, owner, phase, next, queue, mounted>>
spec == <<enabled, status, problems>>

Needs(m) == ToSet(manifest[m].deps)
Paths == UNION {{f.path : f \in Manifests[m]} : m \in Modules}
Unowned == 0

Init ==
    /\ manifest \in {g \in [Modules -> UNION {Manifests[m] : m \in Modules}] :
                         \A m \in Modules : g[m] \in Manifests[m]}
    /\ override \in Overrides
    /\ enabled = [m \in Modules |-> TRUE]
    /\ status = [m \in Modules |-> "NONE"]
    /\ problems = [m \in Modules |-> {}]
    /\ owner = [p \in Paths |-> Unowned]
    /\ phase = "discover" /\ next = 1
    /\ queue = <<>> /\ mounted = <<>>

\* The loop goes on with the module after m, or the next phase begins.
Advance(m, then) ==
    /\ next' = IF m = N THEN 1 ELSE m + 1
    /\ phase' = IF m = N THEN then ELSE phase

------------------------------------------------------------------------------
\* The prefix, as written, is the path another module has claimed: the claims
\* are kept without a trailing slash.
Conflicts(m) == ~manifest[m].slash /\ owner[manifest[m].path] \notin {Unowned, m}

\* discover: validate_manifest, then the claim, whatever the outcome was.
Discover(m) ==
    /\ phase = "discover" /\ next = m
    /\ LET errors == (IF manifest[m].broken THEN {"manifest"} ELSE {})
                     \cup (IF Conflicts(m) THEN {"prefix"} ELSE {})
       IN /\ problems' = [problems EXCEPT ![m] = errors]
          /\ enabled' = [enabled EXCEPT ![m] = manifest[m].enabled]
          /\ status' = [status EXCEPT ![m] = CASE ~manifest[m].enabled -> "DISABLED"
                                               [] manifest[m].enabled /\ errors = {} -> "VALID"
                                               [] OTHER -> "DISCOVERED"]
    /\ owner' = [owner EXCEPT ![manifest[m].path] = IF @ = Unowned THEN m ELSE @]
    /\ Advance(m, "resolve")
    /\ UNCHANGED <<manifest, override, queue, mounted>>

\* visit of _find_cycles: depth first along the declared order; a module that is
\* finished is not entered again, also from a module on a path back to it.
RECURSIVE Visit(_, _)
Visit(S, m) ==
    IF m \in S.done THEN S
    ELSE IF m \in ToSet(S.path)
    THEN [S EXCEPT !.found = @ \cup {S.path[i] : i \in SelectInSeq(S.path, LAMBDA n : n = m)..Len(S.path)}]
    ELSE LET below == FoldLeft(Visit, [S EXCEPT !.path = Append(@, m)], manifest[m].deps)
         IN [below EXCEPT !.path = Front(@), !.done = @ \cup {m}]

\* _find_cycles over all modules, the disabled ones included.
FoundCycles ==
    FoldLeft(Visit, [path |-> <<>>, done |-> {}, found |-> {}],
             [m \in Modules |-> m]).found

\* The dependencies that stop a module, as they stand when it is visited.
Blocked(m) == {d \in Needs(m) : status[d] \in {"FAILED_VALIDATION", "DISABLED"}}

\* _resolve_dependencies visits one module; errors of an earlier pass are kept.
Resolve(m) ==
    /\ phase \in {"resolve", "again"} /\ next = m
    /\ IF ~enabled[m]
       THEN status' = [status EXCEPT ![m] = "DISABLED"] /\ UNCHANGED problems
       ELSE LET new == (IF manifest[m].absent THEN {"missing"} ELSE {})
                       \cup (IF Blocked(m) # {} THEN {"blocked"} ELSE {})
                       \cup (IF m \in FoundCycles THEN {"cycle"} ELSE {})
            IN /\ problems' = [problems EXCEPT ![m] = @ \cup new]
               /\ status' = [status EXCEPT ![m] =
                               CASE new # {} -> "MISSING_DEPENDENCY"
                                 [] new = {} /\ problems[m] # {} -> "FAILED_VALIDATION"
                                 [] OTHER -> "VALID"]
    /\ Advance(m, IF phase = "resolve" THEN "override" ELSE "plan")
    /\ UNCHANGED <<manifest, override, enabled, owner, queue, mounted>>

\* The operator's overrides; a module switched on keeps its status until it is
\* visited again.
Override ==
    /\ phase = "override"
    /\ enabled' = [m \in Modules |-> IF override[m] = "none" THEN enabled[m] ELSE override[m] = "on"]
    /\ status' = [m \in Modules |->
                    IF override[m] = "off" /\ enabled[m] THEN "DISABLED" ELSE status[m]]
    /\ phase' = "again" /\ next' = 1
    /\ UNCHANGED <<manifest, override, problems, owner, queue, mounted>>

------------------------------------------------------------------------------
\* Mounting order inside a wave.
Earlier(m, n) == Order[m] < Order[n] \/ (Order[m] = Order[n] /\ m < n)

\* Faulty variant: one wave.
OneWave(R) == SetToSortSeq(R, Earlier)

\* _topological_waves: who waits for nobody that remains; when everyone waits,
\* all that remain, by name.
RECURSIVE Waves(_)
Waves(R) ==
    LET wave == {m \in R : Needs(m) \cap R = {}}
    IN CASE R = {} -> <<>>
         [] R # {} /\ wave = {} -> SetToSortSeq(R, <)
         [] OTHER -> SetToSortSeq(wave, Earlier) \o Waves(R \ wave)

\* register: the modules that are valid now are queued.
Plan ==
    /\ phase = "plan"
    /\ queue' = Waves({m \in Modules : status[m] = "VALID"})
    /\ phase' = "mount"
    /\ UNCHANGED <<manifest, override, spec, owner, next, mounted>>

Refuse(m, as, why) ==
    /\ status' = [status EXCEPT ![m] = as]
    /\ problems' = [problems EXCEPT ![m] = @ \cup {why}]
    /\ UNCHANGED owner

\* The import or the blueprint fails; or a declared endpoint is missing, which
\* is noticed when the blueprint is registered already: its routes stay.
MountFails(m) ==
    \/ Refuse(m, "FAILED_VALIDATION", "import") /\ UNCHANGED mounted
    \/ /\ owner[manifest[m].path] \in {Unowned, m}
       /\ Refuse(m, "FAILED_VALIDATION", "endpoint") /\ mounted' = Append(mounted, m)

Registers(m) ==
    /\ status' = [status EXCEPT ![m] = "REGISTERED"]
    /\ owner' = [owner EXCEPT ![manifest[m].path] = m]
    /\ mounted' = Append(mounted, m)
    /\ UNCHANGED problems

\* Faulty variant: the claims are not looked at again.
MountUnclaimed(m) ==
    /\ phase = "mount" /\ queue # <<>> /\ m = Head(queue)
    /\ queue' = Tail(queue)
    /\ MountFails(m) \/ Registers(m)
    /\ UNCHANGED <<manifest, override, enabled, phase, next>>

\* _mount of the next module: it fails, its path is another's, or its routes
\* are registered.
Mount(m) ==
    /\ phase = "mount" /\ queue # <<>> /\ m = Head(queue)
    /\ queue' = Tail(queue)
    /\ \/ MountFails(m)
       \/ /\ owner[manifest[m].path] \notin {Unowned, m}
          /\ Refuse(m, "ROUTE_CONFLICT", "mount") /\ UNCHANGED mounted
       \/ owner[manifest[m].path] \in {Unowned, m} /\ Registers(m)
    /\ UNCHANGED <<manifest, override, enabled, phase, next>>

Ready ==
    /\ phase = "mount" /\ queue = <<>>
    /\ phase' = "served"
    /\ UNCHANGED <<manifest, override, spec, owner, next, queue, mounted>>

Next ==
    \/ \E m \in Modules : Discover(m) \/ Resolve(m) \/ Mount(m)
    \/ Override \/ Plan \/ Ready

Spec == Init /\ [][Next]_vars

------------------------------------------------------------------------------
Mounted == ToSet(mounted)

\* The modules m needs, directly or through others.
Closure(S) == S \cup UNION {Needs(m) : m \in S}
AllNeeds(m) == LET step[i \in 0..N] == IF i = 0 THEN Needs(m) ELSE Closure(step[i - 1]) IN step[N]
OnCycle(m) == m \in AllNeeds(m)

\* A module is mounted after every module it needs, unless both lie on one cycle, and
\* without one only if that one was itself waiting for a dependency (its status is not
\* among those that block, registry.py:332, although docs/MODULE_CONTRACT.md:210 has "no
\* activation with unresolved dependencies") or was refused at its own mounting, after
\* the queue was made.  One that is switched off or broken is never needed by a mounted
\* module, and each cycle is broken: at least one member stays out (registry.py:682-725).
DependenciesFirst ==
    phase = "served" =>
        /\ \A i \in DOMAIN mounted : \A d \in Needs(mounted[i]) :
              \/ \E j \in 1..(i - 1) : mounted[j] = d
              \/ d \in Mounted /\ mounted[i] \in AllNeeds(d)
              \/ d \notin Mounted /\ problems[d] \cap {"missing", "blocked", "cycle", "import", "mount"} # {}
        /\ \A m \in Mounted : ~manifest[m].absent
        /\ \A m \in Modules : OnCycle(m) => ~(AllNeeds(m) \subseteq Mounted)

\* A module is well if nothing it declares or needs is wrong.
Well(m) ==
    \A d \in AllNeeds(m) \cup {m} :
        /\ enabled[d] /\ ~manifest[d].broken /\ ~manifest[d].absent /\ ~OnCycle(d)
        /\ \A e \in Modules \ {d} : manifest[e].path # manifest[d].path

\* Nothing is silently skipped (registry.py:16): when the start is over, every
\* module is mounted, switched off, or has an error on record; and one that is
\* well is mounted unless its import failed, or it needs one that was shipped
\* disabled and that the operator switched on: the error noted in the first pass
\* stays, so that the dependents of a module rolled out with AMS_ENABLED_MODULES
\* stay out (registry.py:364, module_loader.py:31-34).  No path is served twice.
NothingSkipped ==
    phase = "served" =>
        /\ \A m \in Modules :
              \/ m \in Mounted /\ status[m] = "REGISTERED"
              \/ ~enabled[m] /\ status[m] = "DISABLED"
              \/ problems[m] # {}
        /\ \A m \in Modules : Well(m) =>
              \/ m \in Mounted \/ "import" \in problems[m]
              \/ \E d \in AllNeeds(m) : ~manifest[d].enabled
        /\ \A m, n \in Mounted : manifest[m].path = manifest[n].path => m = n

\* What is served was mounted in order, and what is not has its reason
\* (registry.py:16 and 332).
RegistrySound == DependenciesFirst /\ NothingSkipped
=============================================================================
