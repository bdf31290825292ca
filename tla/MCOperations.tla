--------------------------- MODULE MCOperations ---------------------------
(* The operator's tools: import jobs, merging archives, deployments, wipes.   *)
(* In these models they share no state: a behaviour uses one.                 *)
EXTENDS ImportJobs, DataRestore, GitDeploy, DataWipe

\* Archives of other databases: with a client of the same id and another name and a
\* payment that names none, with both ids taken and a payment under an old name, and with a
\* payment of no client whose name a client of each database may have.  Drivers of two
\* names, one of which the database may give to another.
OtherArchives ==
    {[Empty EXCEPT !.client = (1 :> "b"), !.payment = Paper(3, Blank), !.driver = (1 :> "a") @@ (2 :> "b")],
     [Empty EXCEPT !.client = (2 :> "a") @@ (1 :> "b"), !.payment = Paper(2, "c")],
     [Empty EXCEPT !.client = (2 :> "a"), !.payment = Paper(3, "a")]}

\* The last row waits behind the second, or is committed when the second was skipped.
Rows == <<"blank", "plain", "row">>

\* The boxes of the settings page.
Boxes ==
    {Datasets[n][1] : n \in DOMAIN Datasets} \ {"entry", "accounts_domain_wipe"}

\* One box, all of them, or accounts with what they need.
OneOrAll ==
    {{t} : t \in Boxes} \cup {Boxes, {"accounts", "pending_bills"}, {"accounts", "invoices"}}

VARIABLE tool    \* the one this behaviour exercises

OpsInit ==
    /\ JobsInit /\ DeployInit /\ RestoreInit
    /\ tool \in {"jobs", "deploy", "merge", "wipe"}
    /\ tool # "merge" => base = Empty /\ archive = Empty
    /\ IF tool = "wipe" THEN WipeInit
       ELSE store = {} /\ wipe = IdleWipe("none") /\ baseline = {} /\ wipes = 0

OpsNext ==
    /\ tool' = tool
    /\ \/ tool = "jobs" /\ JobsNext /\ UNCHANGED <<deployVars, restoreVars, wipeVars>>
       \/ tool = "deploy" /\ DeployNext /\ UNCHANGED <<jobsVars, restoreVars, wipeVars>>
       \/ tool = "merge" /\ RestoreNext /\ UNCHANGED <<jobsVars, deployVars, wipeVars>>
       \/ tool = "wipe" /\ WipeNext /\ UNCHANGED <<jobsVars, deployVars, restoreVars>>

opsVars == <<jobsVars, deployVars, restoreVars, wipeVars, tool>>

OpsSpec == OpsInit /\ [][OpsNext]_opsVars

\* An import is followed until its second excused event (a start without the file comes
\* with what removed it), a deployment until another one overlaps it.
Followed ==
    /\ Cardinality(past \ {"blind"}) <= 1
    /\ "overlap" \notin happened

\* Requests that import, and deployers, are alike.
Alike == Permutations(Importers) \cup Permutations(Runners)
=============================================================================
