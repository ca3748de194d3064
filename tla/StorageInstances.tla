--------------------------- MODULE StorageInstances ---------------------------
(***************************************************************************)
(* The instance directories below one storage root: servers that make and  *)
(* lock their own (src/src/manifest/loader.rs), and commands that remove   *)
(* those of others: `storage prune`, `storage cleanup` and the preparation *)
(* of a start (src/src/cli/mod.rs, src/src/cli/storage_cmd.rs,             *)
(* src/src/utils/storage.rs). A command is a list of plans: a cleanup of   *)
(* one instance, or a pruning that keeps some number and some bytes. A     *)
(* directory is removed in one step here.                                  *)
(***************************************************************************)
EXTENDS Integers, Sequences, FiniteSets, FiniteSetsExt

CONSTANTS
  Instances,   \* names of instances, numbers that order them
  Servers,
  Home,        \* the instance of each server
  Size,        \* the bytes of each instance
  Commands,
  Requests,    \* what a command may be asked to do: lists of plans
  MaxTouches   \* bound on the changes of modification times

Plans ==
  [kind : {"prune"}, keep : Nat \cup {-1}, bytes : Nat, exclude : SUBSET Instances] \cup [kind : {"cleanup"}, instance : Instances]

ASSUME InstancesAssumption ==
  /\ IsFiniteSet(Instances) /\ Instances \subseteq Int
  /\ Home \in [Servers -> Instances] /\ Size \in [Instances -> Nat]
  /\ Requests \subseteq Seq(Plans)

VARIABLES
  dirs,        \* the instances that exist
  lockFiles,   \* those with a lock file
  stamp, now,  \* modification times, and the last one given
  server,      \* "off", "made" or "serving", for each server
  locks,       \* the servers whose lock is on the directory that exists
  cmd,         \* the state of each command
  witness,     \* for each command, the servers that served when it began and do since
  alone        \* the commands during which nothing else happened

instanceVars == <<dirs, lockFiles, stamp, now, server, locks, cmd, witness, alone>>

Idle == [phase |-> "idle", plans |-> <<>>, todo |-> {}, found |-> {}, victims |-> <<>>, before |-> {}, request |-> <<>>]

InstancesInit ==
  /\ dirs \in SUBSET Instances /\ lockFiles = dirs
  /\ stamp = [i \in Instances |-> 0] /\ now = 0
  /\ server = [s \in Servers |-> "off"] /\ locks = {}
  /\ cmd = [c \in Commands |-> Idle] /\ witness = [c \in Commands |-> {}] /\ alone = {}

Touch(i) == now' = now + 1 /\ stamp' = [stamp EXCEPT ![i] = now + 1]
Undisturbed(c) == alone' = alone \cap {c}

-----------------------------------------------------------------------------
(* Servers.                                                                *)

\* The loader's prepare_storage: create_dir_all.
MakeInstance(s) ==
  /\ server[s] = "off"
  /\ server' = [server EXCEPT ![s] = "made"]
  /\ IF Home[s] \in dirs THEN UNCHANGED <<dirs, stamp, now>>
     ELSE now < MaxTouches /\ dirs' = dirs \cup {Home[s]} /\ Touch(Home[s])
  /\ alone' = {}
  /\ UNCHANGED <<lockFiles, locks, cmd, witness>>

\* acquire_in_use_lock on the instance; without the directory the load fails.
LockInstance(s) ==
  /\ server[s] = "made"
  /\ IF Home[s] \notin dirs
     THEN server' = [server EXCEPT ![s] = "off"] /\ UNCHANGED <<lockFiles, locks, stamp, now>>
     ELSE /\ server' = [server EXCEPT ![s] = "serving"]
          /\ locks' = locks \cup {s} /\ lockFiles' = lockFiles \cup {Home[s]}
          /\ IF Home[s] \in lockFiles THEN UNCHANGED <<stamp, now>> ELSE now < MaxTouches /\ Touch(Home[s])
  /\ alone' = {}
  /\ UNCHANGED <<dirs, cmd, witness>>

\* The process ends, or crashes; its locks are gone with it.
StopServer(s) ==
  /\ server[s] # "off"
  /\ server' = [server EXCEPT ![s] = "off"]
  /\ locks' = locks \ {s}
  /\ witness' = [c \in Commands |-> witness[c] \ {s}]
  /\ alone' = {}
  /\ UNCHANGED <<dirs, lockFiles, stamp, now, cmd>>

-----------------------------------------------------------------------------
(* Commands.                                                               *)

\* resolve_max_keep; no limit is -1.
ResolveMaxKeep(asked, maxInstances) ==
  IF asked # {} THEN CHOOSE k \in asked : TRUE
  ELSE IF maxInstances > 0 THEN maxInstances - 1
  ELSE -1

PrunePlan(keep, bytes, exclude) == [kind |-> "prune", keep |-> keep, bytes |-> bytes, exclude |-> exclude]
CleanupPlan(instance) == [kind |-> "cleanup", instance |-> instance]

\* prune_storage and cleanup_storage of the commands.
PruneRequest(config, keep, bytes) ==
  <<PrunePlan(ResolveMaxKeep(keep, config.maxInstances), IF bytes = {} THEN config.bytes ELSE CHOOSE b \in bytes : TRUE, {config.instance})>>
CleanupRequest(config) == <<CleanupPlan(config.instance)>>

\* prepare_storage of the command line, and of the loader after it.
StartRequest(config) ==
  (IF config.cleanup THEN <<CleanupPlan(config.instance)>> ELSE <<>>)
  \o (IF config.maxInstances = 0 THEN <<>>
      ELSE <<PrunePlan(config.maxInstances - 1, config.bytes, IF config.cleanup THEN {} ELSE {config.instance}),
             PrunePlan(config.maxInstances, config.bytes, {config.instance})>>)

\* Mutant: what is being loaded is in use, not what is served.
InUseByLoads(i) == \E s \in Servers : Home[s] = i /\ server[s] = "made"

\* dir_in_use.
InUse(i) == \E s \in locks : Home[s] = i
\* The loop below asks it once for every directory.

\* build_storage_config_from_base, and list_instance_ids before a prune.
Begin(c, plans) ==
  /\ cmd[c].phase = "idle"
  /\ cmd' = [cmd EXCEPT ![c] = [Idle EXCEPT !.phase = "plan", !.plans = plans, !.request = plans, !.before = dirs]]
  /\ witness' = [witness EXCEPT ![c] = locks]
  /\ alone' = {c}
  /\ UNCHANGED <<dirs, lockFiles, stamp, now, server, locks>>

\* The next plan: cleanup_storage_dir checks its instance; a pruning lists
\* the root.
TakePlan(c) ==
  LET s == cmd[c]
      plan == Head(s.plans)
  IN  /\ s.phase = "plan"
      /\ cmd' = [cmd EXCEPT ![c] =
           IF s.plans = <<>> THEN [s EXCEPT !.phase = "done"]
           ELSE IF plan.kind = "cleanup" /\ (plan.instance \notin dirs \/ InUse(plan.instance)) THEN [s EXCEPT !.plans = Tail(s.plans)]
           ELSE IF plan.kind = "cleanup" THEN [s EXCEPT !.phase = "remove", !.victims = <<plan.instance>>]
           ELSE [s EXCEPT !.phase = "scan", !.todo = dirs, !.found = {}]]
      /\ Undisturbed(c)
      /\ UNCHANGED <<dirs, lockFiles, stamp, now, server, locks, witness>>

Older(x, y) == x.stamp < y.stamp \/ (x.stamp = y.stamp /\ x.instance < y.instance)

\* The bytes of some instances.
BytesOf(set) == FoldSet(LAMBDA i, t : t + Size[i], 0, set)

\* The loop of prune_dirs: the oldest go until the number and the bytes fit.
\* Nothing is kept at least here (min_keep is 0). The caller removes them one
\* by one, the oldest first.
PruneVictims(found, plan) ==
  LET oldest(n) == {x \in found : Cardinality({y \in found : Older(y, x)}) < n}
      enough(n) == LET kept == {x.instance : x \in found \ oldest(n)}
                   IN  (plan.keep = -1 \/ Cardinality(kept) <= plan.keep) /\ (plan.bytes = 0 \/ BytesOf(kept) <= plan.bytes \/ kept = {})
  IN  oldest(Min({n \in 0 .. Cardinality(found) : enough(n)}))

\* One directory of the listing: prune_all_stale_instances removes it at once
\* when it is free, prune_dirs keeps it for the end.
ScanEntry(c, i) ==
  LET s == cmd[c]
      plan == Head(s.plans)
      rest == s.todo \ {i}
      entry == [instance |-> i, stamp |-> stamp[i]]
      free == i \in dirs /\ i \notin plan.exclude /\ ~InUse(i)
  IN  /\ s.phase = "scan" /\ i \in s.todo
      /\ cmd' = [cmd EXCEPT ![c] =
           IF ~free THEN [s EXCEPT !.todo = rest]
           ELSE IF plan.keep = 0 THEN [s EXCEPT !.todo = rest, !.phase = "remove", !.victims = <<i>>]
           ELSE [s EXCEPT !.todo = rest, !.found = s.found \cup {entry}]]
      /\ Undisturbed(c)
      /\ UNCHANGED <<dirs, lockFiles, stamp, now, server, locks, witness>>

\* The end of the listing.
ChooseVictims(c) ==
  LET victims == PruneVictims(cmd[c].found, Head(cmd[c].plans))
      rank(x) == Cardinality({y \in victims : Older(y, x)}) + 1
  IN  /\ cmd[c].phase = "scan" /\ cmd[c].todo = {}
      /\ cmd' = [cmd EXCEPT ![c].phase = "remove",
                            ![c].victims = [n \in 1 .. Cardinality(victims) |-> (CHOOSE x \in victims : rank(x) = n).instance]]
      /\ Undisturbed(c)
      /\ UNCHANGED <<dirs, lockFiles, stamp, now, server, locks, witness>>

\* remove_dir_all of the next victim; one that is gone fails the command. A
\* sweep goes on with its listing.
RemoveVictim(c) ==
  LET i == Head(cmd[c].victims)
      swept == cmd[c].todo # {}
  IN  /\ cmd[c].phase = "remove"
      /\ IF cmd[c].victims = <<>>
         THEN /\ cmd' = [cmd EXCEPT ![c].phase = IF swept THEN "scan" ELSE "plan", ![c].plans = IF swept THEN @ ELSE Tail(@)]
              /\ UNCHANGED <<dirs, lockFiles, locks>>
         ELSE IF i \in dirs
         THEN /\ dirs' = dirs \ {i} /\ lockFiles' = lockFiles \ {i}
              /\ locks' = {s \in locks : Home[s] # i}
              /\ cmd' = [cmd EXCEPT ![c].victims = Tail(@)]
         ELSE cmd' = [cmd EXCEPT ![c].phase = "failed"] /\ UNCHANGED <<dirs, lockFiles, locks>>
      /\ witness' = [d \in Commands |-> witness[d] \cap locks']
      /\ Undisturbed(c)
      /\ UNCHANGED <<stamp, now, server>>

\* The process of a command ends.
EndCommand(c) ==
  /\ cmd[c].phase \in {"done", "failed"}
  /\ cmd' = [cmd EXCEPT ![c] = Idle]
  /\ witness' = [witness EXCEPT ![c] = {}]
  /\ alone' = {}
  /\ UNCHANGED <<dirs, lockFiles, stamp, now, server, locks>>

InstancesNext ==
  \/ \E s \in Servers : MakeInstance(s) \/ LockInstance(s) \/ StopServer(s)
  \/ \E c \in Commands :
       \/ \E plans \in Requests : Begin(c, plans)
       \/ TakePlan(c) \/ (\E i \in Instances : ScanEntry(c, i)) \/ ChooseVictims(c) \/ RemoveVictim(c) \/ EndCommand(c)

InstancesSpec == InstancesInit /\ [][InstancesNext]_instanceVars

-----------------------------------------------------------------------------
\* The instance of a server that was up before a command began is never one
\* that the command is about to remove, whatever starts, stops or is removed
\* meanwhile. (One that was locked after the command had looked at it may be.)
ServedAreSpared == \A c \in Commands : \A s \in witness[c] : \A n \in DOMAIN cmd[c].victims : cmd[c].victims[n] # Home[s]

\* A single pruning that nothing disturbed removes what the limits ask for
\* and no more: what it is told to keep stays, the free ones that are left fit
\* the number and the bytes, they are the newest, and with one more of those
\* that are gone they would not fit.
PruningIsExact ==
  \A c \in {c \in alone : cmd[c].phase = "done" /\ Len(cmd[c].request) = 1} :
    LET plan == cmd[c].request[1]
        gone == cmd[c].before \ dirs
        free == {i \in dirs : i \notin plan.exclude /\ ~InUse(i)}
        fits(set) == (plan.keep = -1 \/ Cardinality(set) <= plan.keep) /\ (plan.bytes = 0 \/ set = {} \/ BytesOf(set) <= plan.bytes)
        older(i, j) == stamp[i] < stamp[j] \/ (stamp[i] = stamp[j] /\ i < j)
    IN  plan.kind = "prune" =>
          /\ gone \cap plan.exclude = {} /\ fits(free)
          /\ \A i \in gone, j \in free : older(i, j)
          /\ \A i \in gone : (\A j \in gone \ {i} : older(j, i)) => ~fits(free \cup {i})
===============================================================================
