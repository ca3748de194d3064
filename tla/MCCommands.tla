------------------------------ MODULE MCCommands ------------------------------
(***************************************************************************)
(* The commands that share files with others, for TLC: a behaviour is one  *)
(* of the runs of an eval suite or of the instances of a storage root, as  *)
(* `part` says.                                                            *)
(***************************************************************************)
EXTENDS EvalGate, StorageInstances, TLC

VARIABLES part

MCInstances == 1 .. 3
MCHome == [s \in Servers |-> s]
MCSize == [i \in MCInstances |-> i]
MCConfig(instance, maxInstances, bytes, cleanup) ==
  [instance |-> instance, maxInstances |-> maxInstances, bytes |-> bytes, cleanup |-> cleanup]

\* A pruning by number and by bytes, a sweep of what is not in use, and a
\* start that cleans.
MCRequests ==
  {PruneRequest(MCConfig(3, 0, 2, FALSE), {1}, {}), PruneRequest(MCConfig(2, 1, 0, FALSE), {}, {3}),
   StartRequest(MCConfig(1, 2, 0, TRUE))}

MCSymmetry == Permutations(Runs) \cup Permutations(Commands)

MCInit ==
  /\ part \in {"gate", "instances"} /\ EvalInit /\ InstancesInit
  /\ dirs = IF part = "gate" THEN {} ELSE Instances
  /\ part = "instances" => \A r \in reports : r.passed = Cases

GateOnly == part = "gate" /\ UNCHANGED <<part, instanceVars>>
RootOnly == part = "instances" /\ UNCHANGED <<part, evalVars>>

MCNext ==
  \/ GateOnly /\ Edit
  \/ \E r \in Runs :
       \/ GateOnly /\ Load(r)
       \/ GateOnly /\ Evaluate(r)
       \/ GateOnly /\ WriteRow(r)
       \/ GateOnly /\ WriteNewline(r)
       \/ GateOnly /\ ReadForRetention(r)
       \/ GateOnly /\ Truncate(r)
       \/ GateOnly /\ Rewrite(r)
       \/ GateOnly /\ Crash(r)
  \/ \E s \in Servers :
       \/ RootOnly /\ MakeInstance(s)
       \/ RootOnly /\ LockInstance(s)
       \/ RootOnly /\ StopServer(s)
  \/ \E c \in Commands :
       \/ RootOnly /\ \E plans \in Requests : Begin(c, plans)
       \/ RootOnly /\ TakePlan(c)
       \/ RootOnly /\ \E i \in Instances : ScanEntry(c, i)
       \/ RootOnly /\ ChooseVictims(c)
       \/ RootOnly /\ RemoveVictim(c)
       \/ RootOnly /\ EndCommand(c)
MCSpec == MCInit /\ [][MCNext]_<<part, evalVars, instanceVars>>

\* What the commands remove of the instances of a root (prune_storage_instances,
\* cleanup_storage_dir): never one that was served before the command began, and,
\* when nothing disturbs them, exactly what their limits ask for.
InstancesKept == ServedAreSpared /\ PruningIsExact
===============================================================================
