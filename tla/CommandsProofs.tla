--------------------------- MODULE CommandsProofs ---------------------------
(***************************************************************************)
(* Theorems about StorageInstances, what commands may remove, for every    *)
(* number of servers, commands and instances and every list of plans; and  *)
(* about EvalGate, what the gate of a suite answers, for every number of   *)
(* runs, cases and versions.                                               *)
(***************************************************************************)
EXTENDS MCCommands, FiniteSetTheorems, WellFoundedInduction, TLAPS

\* An entry of a listing.
Entries == [instance : Instances, stamp : Nat]

\* `before` and `request` are what a command remembers for PruningIsExact.
CommandStates ==
  [phase : {"idle", "plan", "scan", "remove", "done", "failed"}, plans : Seq(Plans), todo : SUBSET Instances,
   found : SUBSET Entries, victims : Seq(Instances), before : SUBSET Instances, request : Seq(Plans)]

InstanceTypes ==
  /\ dirs \subseteq Instances /\ stamp \in [Instances -> Nat] /\ now \in Nat /\ locks \subseteq Servers
  /\ cmd \in [Commands -> CommandStates] /\ witness \in [Commands -> SUBSET Servers]

\* A command that lists or removes has a plan, and its listing is finite.
Listed(s) ==
  /\ s.phase \in {"scan", "remove"} => s.plans # <<>>
  /\ IsFiniteSet(s.found) /\ s.found \subseteq Entries

\* Nothing of the instances of W is in a listing, nor among what is to go.
Spares(s, W) ==
  /\ \A r \in W : \A x \in s.found : x.instance # Home[r]
  /\ \A r \in W : \A n \in DOMAIN s.victims : s.victims[n] # Home[r]

\* A server that was up when a command began, and is since, has its lock.
InstancesInv ==
  /\ InstanceTypes
  /\ \A c \in Commands : witness[c] \subseteq locks /\ Listed(cmd[c]) /\ Spares(cmd[c], witness[c])

-----------------------------------------------------------------------------
(* The order of a listing.                                                 *)

\* By time and then by name, a listing is ordered strictly and in one line.
LEMMA OlderOrders ==
  ASSUME NEW x \in Entries, NEW y \in Entries, NEW z \in Entries
  PROVE  /\ ~Older(x, x) /\ (Older(x, y) /\ Older(y, z) => Older(x, z))
         /\ x # y => Older(x, y) \/ Older(y, x)
<1>0. \A i \in Instances : i \in Int
  BY InstancesAssumption
<1>1. /\ x.stamp \in Int /\ y.stamp \in Int /\ z.stamp \in Int
      /\ x.instance \in Int /\ y.instance \in Int /\ z.instance \in Int
  BY <1>0 DEF Entries
<1>2. ~Older(x, x) /\ (Older(x, y) /\ Older(y, z) => Older(x, z))
  BY <1>1 DEF Older
<1>3. x # y => x.stamp # y.stamp \/ x.instance # y.instance
  BY DEF Entries
<1>4. x # y => Older(x, y) \/ Older(y, x)
  BY <1>1, <1>3 DEF Older
<1> QED
  BY <1>2, <1>4

\* The older of two entries of a listing has fewer older ones.
Below(V, x) == {y \in V : Older(y, x)}

LEMMA FewerOlder ==
  ASSUME NEW V \in SUBSET Entries, IsFiniteSet(V)
  PROVE  /\ \A x \in V : Cardinality(Below(V, x)) \in Nat /\ Cardinality(Below(V, x)) < Cardinality(V)
         /\ \A x, y \in V : Older(x, y) => Cardinality(Below(V, x)) < Cardinality(Below(V, y))
<1>0. Cardinality(V) \in Nat
  BY FS_CardinalityType
<1>1. ASSUME NEW x \in V
      PROVE  IsFiniteSet(Below(V, x)) /\ Cardinality(Below(V, x)) \in Nat /\ Cardinality(Below(V, x)) < Cardinality(V)
  <2>1. Below(V, x) \in SUBSET V /\ x \notin Below(V, x)
    BY OlderOrders DEF Below
  <2>2. Below(V, x) # V
    BY <2>1
  <2> QED
    BY <1>0, <2>1, <2>2, FS_Subset, FS_CardinalityType
<1>2. ASSUME NEW x \in V, NEW y \in V, Older(x, y) PROVE Cardinality(Below(V, x)) < Cardinality(Below(V, y))
  <2>1. Below(V, x) \in SUBSET Below(V, y)
    BY <1>2, OlderOrders DEF Below
  <2>2. x \in Below(V, y) /\ x \notin Below(V, x)
    BY <1>2, OlderOrders DEF Below
  <2>3. Below(V, x) # Below(V, y)
    BY <2>2
  <2> QED
    BY <1>1, <2>1, <2>3, FS_Subset
<1> QED
  BY <1>1, <1>2

\* So each place of it, from the oldest on, has its entry: the numbers of older
\* ones are all different and there are as many as places.
LEMMA EveryPlaceTaken ==
  ASSUME NEW V, IsFiniteSet(V), V \subseteq Entries, NEW n \in 1 .. Cardinality(V)
  PROVE  \E x \in V : Cardinality({y \in V : Older(y, x)}) + 1 = n
<1> DEFINE below(x) == {y \in V : Older(y, x)}
           rank == [x \in V |-> Cardinality(below(x)) + 1]
           m == Cardinality(V)
<1>0. m \in Nat
  BY FS_CardinalityType
<1>1. ASSUME NEW x \in V PROVE Cardinality(below(x)) \in Nat /\ Cardinality(below(x)) < m
  BY FewerOlder DEF Below
<1>2. ASSUME NEW x \in V, NEW y \in V, Older(x, y) PROVE Cardinality(below(x)) < Cardinality(below(y))
  BY <1>2, FewerOlder DEF Below
<1>3. rank \in [V -> 1 .. m]
  <2> HIDE DEF below, m
  <2> QED
    BY <1>0, <1>1 DEF m
<1>4. ASSUME NEW x \in V, NEW y \in V, rank[x] = rank[y] PROVE x = y
  <2>1. Cardinality(below(x)) = Cardinality(below(y))
    <3> HIDE DEF below
    <3> QED
      BY <1>1, <1>4
  <2>2. ~Older(x, y) /\ ~Older(y, x)
    <3> HIDE DEF below
    <3> QED
      BY <1>1, <1>2, <2>1
  <2> QED
    BY <2>2, OlderOrders
<1>5. rank \in Injection(V, 1 .. m)
  <2> HIDE DEF rank
  <2> QED
    BY <1>3, <1>4 DEF Injection, IsInjective
<1>6. IsFiniteSet(1 .. m) /\ Cardinality(1 .. m) = m
  BY <1>0, FS_Interval
<1>7. rank \in Surjection(V, 1 .. m)
  <2> HIDE DEF rank, m
  <2> QED
    BY <1>5, <1>6, FS_Injection DEF m
<1>8. PICK x \in V : rank[x] = n
  BY <1>7 DEF Surjection
<1> QED
  BY <1>8

\* What a pruning removes is of its listing.
LEMMA VictimsListed ==
  ASSUME NEW found, NEW plan
  PROVE  PruneVictims(found, plan) \subseteq found
BY DEF PruneVictims

\* The instances of some entries, and whether they fit the limits of a plan.
Names(K) == {x.instance : x \in K}
Fits(set, plan) ==
  /\ plan.keep = -1 \/ Cardinality(set) <= plan.keep
  /\ plan.bytes = 0 \/ set = {} \/ BytesOf(set) <= plan.bytes

LEMMA LeastExists ==
  ASSUME NEW S \in SUBSET Nat, S # {}
  PROVE  Min(S) \in S /\ \A y \in S : Min(S) <= y
<1>1. PICK x \in S : \A y \in S : ~(<<y, x>> \in OpToRel(<, Nat))
  BY NatLessThanWellFounded, WFMin, Zenon
<1>2. \A y \in S : x <= y
  <2>1. \A y \in S : y \in Nat /\ x \in Nat
    OBVIOUS
  <2>2. \A y \in S : ~(y < x)
    BY <1>1, <2>1 DEF OpToRel
  <2> QED
    BY <2>1, <2>2
<1>3. Min(S) = CHOOSE z \in S : \A y \in S : z <= y
  BY DEF Min
<1> QED
  BY <1>2, <1>3

\* What a pruning takes from its listing: what it leaves fits, everything it
\* takes is older than what it leaves, and with the last of what it takes the
\* rest would not fit.
LEMMA VictimsExact ==
  ASSUME NEW found \in SUBSET Entries, IsFiniteSet(found), NEW plan, plan.keep \in Nat \cup {-1}
  PROVE  LET V == PruneVictims(found, plan)
         IN  /\ Fits(Names(found \ V), plan)
             /\ \A x \in V : \A y \in found \ V : Older(x, y)
             /\ \A x \in V : (\A y \in V \ {x} : Older(y, x)) => ~Fits(Names((found \ V) \cup {x}), plan)
<1> DEFINE below(x) == {y \in found : Older(y, x)}
           oldest(n) == {x \in found : Cardinality(below(x)) < n}
           N == {n \in 0 .. Cardinality(found) : Fits(Names(found \ oldest(n)), plan)}
           m == Min(N)
           V == PruneVictims(found, plan)
<1>1. V = oldest(m)
  BY DEF PruneVictims, Fits, Names
<1>2. Cardinality(found) \in Nat
  BY FS_CardinalityType
<1>3. ASSUME NEW x \in found PROVE Cardinality(below(x)) \in Nat /\ Cardinality(below(x)) < Cardinality(found)
  BY FewerOlder DEF Below
<1>4. ASSUME NEW x \in found, NEW y \in found, Older(x, y) PROVE Cardinality(below(x)) < Cardinality(below(y))
  BY <1>4, FewerOlder DEF Below
<1> HIDE DEF below
<1>5. Cardinality(found) \in N
  <2>1. oldest(Cardinality(found)) = found
    BY <1>3
  <2>2. Names(found \ oldest(Cardinality(found))) = {}
    BY <2>1 DEF Names
  <2>3. Cardinality({}) = 0
    BY FS_EmptySet
  <2>4. Fits({}, plan)
    BY <2>3 DEF Fits
  <2> QED
    BY <1>2, <2>2, <2>4
<1>6. m \in N /\ m \in Nat /\ \A n \in N : m <= n
  <2>1. N \in SUBSET Nat /\ N # {}
    BY <1>2, <1>5
  <2> HIDE DEF N
  <2> QED
    BY <2>1, LeastExists
<1>7. Fits(Names(found \ V), plan)
  BY <1>1, <1>6
<1>8. ASSUME NEW x \in V, NEW y \in found \ V PROVE Older(x, y)
  <2>1. x \in found /\ Cardinality(below(x)) < m /\ ~(Cardinality(below(y)) < m)
    BY <1>1
  <2>2. ~Older(y, x)
    BY <1>3, <1>4, <1>6, <2>1
  <2> QED
    BY <2>1, <2>2, OlderOrders
<1>9. ASSUME NEW x \in V, \A y \in V \ {x} : Older(y, x), Fits(Names((found \ V) \cup {x}), plan) PROVE FALSE
  <2>1. x \in found /\ V \subseteq found /\ Cardinality(below(x)) < m /\ Cardinality(below(x)) \in Nat
    BY <1>1, <1>3
  <2>2. m - 1 \in 0 .. Cardinality(found) /\ m - 1 < m
    BY <1>2, <1>6, <2>1
  <2>3. ASSUME NEW y \in V \ {x} PROVE y \in oldest(m - 1)
    BY <1>3, <1>4, <1>6, <1>9, <2>1, <2>3
  <2>4. oldest(m - 1) \subseteq V
    <3> SUFFICES ASSUME NEW y \in oldest(m - 1) PROVE y \in V
      OBVIOUS
    <3>1. y \in found /\ Cardinality(below(y)) < m - 1
      OBVIOUS
    <3>2. Cardinality(below(y)) < m
      BY <1>3, <1>6, <3>1
    <3> HIDE DEF m
    <3> QED
      BY <1>1, <3>1, <3>2
  <2>5. oldest(m - 1) = V \/ oldest(m - 1) = V \ {x}
    BY <2>3, <2>4
  <2>6. found \ oldest(m - 1) = found \ V \/ found \ oldest(m - 1) = (found \ V) \cup {x}
    BY <2>1, <2>5
  <2>7. m - 1 \in N
    BY <1>7, <1>9, <2>2, <2>6
  <2>8. m <= m - 1
    BY <1>6, <2>7
  <2> HIDE DEF m
  <2> QED
    BY <1>6, <2>8
<1> QED
  BY <1>7, <1>8, <1>9

\* The order in which a pruning removes them.
OldestFirst(V) ==
  [n \in 1 .. Cardinality(V) |-> (CHOOSE x \in V : Cardinality({y \in V : Older(y, x)}) + 1 = n).instance]

\* In one line, oldest first, each is the instance of an entry.
LEMMA VictimsInLine ==
  ASSUME NEW V, IsFiniteSet(V), V \subseteq Entries
  PROVE  /\ OldestFirst(V) \in Seq(Instances)
         /\ \A n \in DOMAIN OldestFirst(V) : \E x \in V : OldestFirst(V)[n] = x.instance
<1> DEFINE line == OldestFirst(V)
<1>1. ASSUME NEW n \in 1 .. Cardinality(V) PROVE \E x \in V : line[n] = x.instance
  <2> DEFINE at(x) == Cardinality({y \in V : Older(y, x)}) + 1
  <2>1. \E x \in V : at(x) = n
    BY EveryPlaceTaken
  <2>2. line[n] = (CHOOSE x \in V : at(x) = n).instance
    BY DEF OldestFirst
  <2> HIDE DEF at
  <2> QED
    BY <2>1, <2>2
<1>2. Cardinality(V) \in Nat
  BY FS_CardinalityType
<1>3. DOMAIN line = 1 .. Cardinality(V) /\ line \in [1 .. Cardinality(V) -> Instances]
  <2>1. \A n \in 1 .. Cardinality(V) : line[n] \in Instances
    BY <1>1 DEF Entries
  <2> QED
    BY <2>1 DEF OldestFirst
<1>4. \A k \in Nat : \A f \in [1 .. k -> Instances] : f \in Seq(Instances)
  OBVIOUS
<1>5. line \in Seq(Instances)
  BY <1>2, <1>3, <1>4
<1> QED
  BY <1>1, <1>3, <1>5

\* No two have the same place, so all of them are in line.
LEMMA AllInLine ==
  ASSUME NEW V, IsFiniteSet(V), V \subseteq Entries
  PROVE  Names(V) = {OldestFirst(V)[n] : n \in DOMAIN OldestFirst(V)}
<1> DEFINE below(x) == {y \in V : Older(y, x)}
           at(x) == Cardinality(below(x)) + 1
           line == OldestFirst(V)
<1>0. Cardinality(V) \in Nat
  BY FS_CardinalityType
<1>1. ASSUME NEW x \in V PROVE Cardinality(below(x)) \in Nat /\ Cardinality(below(x)) < Cardinality(V)
  BY FewerOlder DEF Below
<1>2. ASSUME NEW x \in V, NEW y \in V, Older(x, y) PROVE Cardinality(below(x)) < Cardinality(below(y))
  BY <1>2, FewerOlder DEF Below
<1>3. \A n \in 1 .. Cardinality(V) : line[n] = (CHOOSE x \in V : at(x) = n).instance
  BY DEF OldestFirst
<1> HIDE DEF below
<1>4. ASSUME NEW x \in V, NEW y \in V, at(x) = at(y) PROVE x = y
  <2>1. Cardinality(below(x)) = Cardinality(below(y))
    BY <1>1, <1>4
  <2>2. ~Older(x, y) /\ ~Older(y, x)
    BY <1>1, <1>2, <2>1
  <2> QED
    BY <2>2, OlderOrders
<1>5. ASSUME NEW x \in V PROVE \E n \in DOMAIN line : line[n] = x.instance
  <2>1. at(x) \in 1 .. Cardinality(V)
    BY <1>0, <1>1
  <2>2. PICK n : n = at(x)
    OBVIOUS
  <2>3. (CHOOSE z \in V : at(z) = n) = x
    <3> HIDE DEF at
    <3> QED
      BY <1>4, <2>2
  <2>4. n \in DOMAIN line
    BY <2>1, <2>2 DEF OldestFirst
  <2>5. line[n] = x.instance
    BY <1>3, <2>1, <2>2, <2>3
  <2> QED
    BY <2>4, <2>5
<1>6. \A n \in DOMAIN line : \E x \in V : line[n] = x.instance
  BY VictimsInLine
<1> QED
  BY <1>5, <1>6 DEF Names

-----------------------------------------------------------------------------
(* The steps.                                                              *)

\* A step of a server: no command learns of it, and it ends no lock that a
\* command still counts on.
LEMMA ServerStep ==
  ASSUME InstancesInv, cmd' = cmd, dirs' \subseteq Instances, stamp' \in [Instances -> Nat], now' \in Nat,
         locks' \subseteq Servers, witness' \in [Commands -> SUBSET Servers],
         \A c \in Commands : witness'[c] \subseteq witness[c] \cap locks'
  PROVE  InstancesInv'
<1>1. InstanceTypes'
  BY DEF InstancesInv, InstanceTypes
<1>2. ASSUME NEW c \in Commands PROVE (witness[c] \subseteq locks /\ Listed(cmd[c]) /\ Spares(cmd[c], witness[c]))'
  BY DEF InstancesInv, Listed, Spares
<1> QED
  BY <1>1, <1>2 DEF InstancesInv

\* A step of one command.
LEMMA CommandStep ==
  ASSUME InstancesInv, NEW c \in Commands, NEW s \in CommandStates, cmd' = [cmd EXCEPT ![c] = s],
         dirs' \subseteq Instances, UNCHANGED <<stamp, now>>, locks' \subseteq Servers,
         witness' \in [Commands -> SUBSET Servers],
         \A d \in Commands : witness'[d] \subseteq locks' /\ (d # c => witness'[d] \subseteq witness[d]),
         Listed(s), Spares(s, witness'[c])
  PROVE  InstancesInv'
<1>1. InstanceTypes'
  BY DEF InstancesInv, InstanceTypes
<1>2. cmd'[c] = s /\ \A d \in Commands \ {c} : cmd'[d] = cmd[d]
  BY DEF InstancesInv, InstanceTypes
<1>3. ASSUME NEW d \in Commands PROVE Listed(cmd'[d]) /\ Spares(cmd'[d], witness'[d])
  BY <1>2 DEF InstancesInv, Spares
<1>4. ASSUME NEW d \in Commands PROVE (witness[d] \subseteq locks /\ Listed(cmd[d]) /\ Spares(cmd[d], witness[d]))'
  BY <1>3 DEF Listed, Spares
<1> QED
  BY <1>1, <1>4 DEF InstancesInv

\* Every step of a server or of a command keeps what was served before the
\* command began out of its listings and its victims.
LEMMA InstancesStep == InstancesInv /\ [InstancesNext]_instanceVars => InstancesInv'
<1> SUFFICES ASSUME InstancesInv, [InstancesNext]_instanceVars PROVE InstancesInv'
  OBVIOUS
<1>0. InstanceTypes
  BY DEF InstancesInv
<1>c. ASSUME NEW c \in Commands
      PROVE  /\ cmd[c] \in CommandStates /\ Listed(cmd[c]) /\ Spares(cmd[c], witness[c])
             /\ witness[c] \in SUBSET Servers /\ witness[c] \subseteq locks
  BY <1>0 DEF InstancesInv, InstanceTypes
<1>h. \A s \in Servers : Home[s] \in Instances
  BY InstancesAssumption
<1>t. ASSUME NEW i \in Instances, Touch(i) PROVE stamp' \in [Instances -> Nat] /\ now' \in Nat
  BY <1>0, <1>t DEF Touch, InstanceTypes
<1>1. ASSUME NEW s \in Servers, MakeInstance(s) PROVE InstancesInv'
  <2>1. stamp' \in [Instances -> Nat] /\ now' \in Nat /\ dirs' \subseteq Instances
    BY <1>0, <1>1, <1>h, <1>t DEF MakeInstance, InstanceTypes
  <2> QED
    BY <1>0, <1>1, <1>c, <2>1, ServerStep DEF MakeInstance, InstanceTypes
<1>2. ASSUME NEW s \in Servers, LockInstance(s) PROVE InstancesInv'
  <2>1. stamp' \in [Instances -> Nat] /\ now' \in Nat
    BY <1>0, <1>2, <1>h, <1>t DEF LockInstance, InstanceTypes
  <2>2. locks \subseteq locks' /\ locks' \subseteq Servers
    BY <1>0, <1>2 DEF LockInstance, InstanceTypes
  <2> QED
    BY <1>0, <1>2, <1>c, <2>1, <2>2, ServerStep DEF LockInstance, InstanceTypes
<1>3. ASSUME NEW s \in Servers, StopServer(s) PROVE InstancesInv'
  <2>1. witness' \in [Commands -> SUBSET Servers] /\ \A c \in Commands : witness'[c] = witness[c] \ {s}
    BY <1>0, <1>3 DEF StopServer, InstanceTypes
  <2>2. locks' = locks \ {s}
    BY <1>3 DEF StopServer
  <2> QED
    BY <1>0, <1>3, <1>c, <2>1, <2>2, ServerStep DEF StopServer, InstanceTypes
\* A step of a command that removes nothing and leaves the witnesses alone.
<1>a. ASSUME NEW c \in Commands, NEW s \in CommandStates, cmd' = [cmd EXCEPT ![c] = s],
             UNCHANGED <<dirs, stamp, now, locks, witness>>, Listed(s), Spares(s, witness[c])
      PROVE  InstancesInv'
  BY <1>0, <1>a, <1>c, CommandStep DEF InstanceTypes
<1>i. /\ Idle \in CommandStates /\ Listed(Idle) /\ \A W : Spares(Idle, W)
  <2>1. IsFiniteSet({})
    BY FS_EmptySet
  <2> QED
    BY <2>1 DEF Idle, CommandStates, Listed, Spares
<1>4. ASSUME NEW c \in Commands, NEW plans \in Requests, Begin(c, plans) PROVE InstancesInv'
  <2> DEFINE s == [Idle EXCEPT !.phase = "plan", !.plans = plans, !.request = plans, !.before = dirs]
  <2>1. plans \in Seq(Plans)
    BY InstancesAssumption
  <2>2. s \in CommandStates /\ Listed(s) /\ Spares(s, locks)
    BY <1>0, <1>i, <2>1 DEF CommandStates, Listed, Spares, Idle, InstanceTypes
  <2>3. cmd' = [cmd EXCEPT ![c] = s] /\ witness' = [witness EXCEPT ![c] = locks]
    BY <1>4 DEF Begin
  <2> HIDE DEF s
  <2>4. witness' \in [Commands -> SUBSET Servers] /\ witness'[c] = locks /\ \A d \in Commands \ {c} : witness'[d] = witness[d]
    BY <1>0, <2>3 DEF InstanceTypes
  <2>5. UNCHANGED <<dirs, stamp, now, locks>>
    BY <1>4 DEF Begin
  <2> QED
    BY <1>0, <1>c, <2>2, <2>3, <2>4, <2>5, CommandStep DEF InstanceTypes
<1>5. ASSUME NEW c \in Commands, TakePlan(c) PROVE InstancesInv'
  <2> DEFINE plan == Head(cmd[c].plans)
  <2>0. UNCHANGED <<dirs, stamp, now, locks, witness>> /\ cmd[c].phase = "plan"
    BY <1>5 DEF TakePlan
  <2>1. CASE cmd[c].plans = <<>> /\ cmd' = [cmd EXCEPT ![c] = [cmd[c] EXCEPT !.phase = "done"]]
    <3>1. [cmd[c] EXCEPT !.phase = "done"] \in CommandStates
      BY <1>c DEF CommandStates
    <3>2. Listed([cmd[c] EXCEPT !.phase = "done"]) /\ Spares([cmd[c] EXCEPT !.phase = "done"], witness[c])
      BY <1>c DEF CommandStates, Listed, Spares
    <3> QED
      BY <1>0, <1>a, <2>0, <2>1, <3>1, <3>2 DEF InstanceTypes
  <2>2. CASE cmd[c].plans # <<>> /\ cmd' = [cmd EXCEPT ![c] = [cmd[c] EXCEPT !.plans = Tail(cmd[c].plans)]]
    <3> DEFINE s == [cmd[c] EXCEPT !.plans = Tail(cmd[c].plans)]
    <3>1. Tail(cmd[c].plans) \in Seq(Plans)
      BY <1>c, <2>2 DEF CommandStates
    <3>2. s \in CommandStates
      BY <1>c, <3>1 DEF CommandStates
    <3>3. Listed(s) /\ Spares(s, witness[c])
      BY <1>c, <2>0 DEF CommandStates, Listed, Spares
    <3>4. cmd' = [cmd EXCEPT ![c] = s]
      BY <2>2, Zenon
    <3> HIDE DEF s
    <3> QED
      BY <1>a, <2>0, <3>2, <3>3, <3>4
  <2>3. CASE /\ cmd[c].plans # <<>> /\ plan.kind = "cleanup" /\ plan.instance \in dirs /\ ~InUse(plan.instance)
             /\ cmd' = [cmd EXCEPT ![c] = [cmd[c] EXCEPT !.phase = "remove", !.victims = <<plan.instance>>]]
    <3> DEFINE s == [cmd[c] EXCEPT !.phase = "remove", !.victims = <<plan.instance>>]
    <3>1. plan.instance \in Instances /\ \A r \in locks : plan.instance # Home[r]
      BY <1>0, <2>3 DEF InstanceTypes, InUse
    <3> HIDE DEF plan
    <3>v. <<plan.instance>> \in Seq(Instances)
      BY <3>1
    <3>2. s \in CommandStates /\ s.victims = <<plan.instance>> /\ s.found = cmd[c].found /\ s.plans = cmd[c].plans
      BY <1>c, <3>v DEF CommandStates
    <3>3. cmd' = [cmd EXCEPT ![c] = s]
      BY <2>3, Zenon
    <3> HIDE DEF s
    <3>4. Listed(s) /\ Spares(s, witness[c])
      BY <1>c, <2>3, <3>1, <3>2 DEF Listed, Spares
    <3> QED
      BY <1>a, <2>0, <3>2, <3>3, <3>4
  <2>4. CASE cmd[c].plans # <<>> /\ cmd' = [cmd EXCEPT ![c] = [cmd[c] EXCEPT !.phase = "scan", !.todo = dirs, !.found = {}]]
    <3> DEFINE s == [cmd[c] EXCEPT !.phase = "scan", !.todo = dirs, !.found = {}]
    <3>1. s \in CommandStates /\ s.victims = cmd[c].victims /\ s.found = {} /\ s.plans = cmd[c].plans
      BY <1>0, <1>c DEF CommandStates, InstanceTypes
    <3>2. cmd' = [cmd EXCEPT ![c] = s]
      BY <1>0, <2>4 DEF InstanceTypes
    <3>3. IsFiniteSet({})
      BY FS_EmptySet
    <3> HIDE DEF s
    <3>4. Listed(s) /\ Spares(s, witness[c])
      BY <1>c, <2>4, <3>1, <3>3 DEF Listed, Spares
    <3> QED
      BY <1>a, <2>0, <3>1, <3>2, <3>4
  <2> QED
    BY <1>5, <2>1, <2>2, <2>3, <2>4, Zenon DEF TakePlan
<1>6. ASSUME NEW c \in Commands, NEW i \in Instances, ScanEntry(c, i) PROVE InstancesInv'
  <2> DEFINE plan == Head(cmd[c].plans)
             free == i \in dirs /\ i \notin plan.exclude /\ ~InUse(i)
             rest == cmd[c].todo \ {i}
             new == [instance |-> i, stamp |-> stamp[i]]
             s == IF ~free THEN [cmd[c] EXCEPT !.todo = rest]
                  ELSE IF plan.keep = 0 THEN [cmd[c] EXCEPT !.todo = rest, !.phase = "remove", !.victims = <<i>>]
                  ELSE [cmd[c] EXCEPT !.todo = rest, !.found = cmd[c].found \cup {new}]
  <2>0. UNCHANGED <<dirs, stamp, now, locks, witness>> /\ cmd[c].phase = "scan"
    BY <1>6 DEF ScanEntry
  <2>1. cmd' = [cmd EXCEPT ![c] = s]
    BY <1>6, Zenon DEF ScanEntry
  <2>2. new \in Entries /\ new.instance = i
    BY <1>0, InstancesAssumption DEF Entries, InstanceTypes
  <2>3. free => \A r \in locks : i # Home[r]
    BY DEF InUse
  <2>4. IsFiniteSet(cmd[c].found \cup {new})
    BY <1>c, FS_AddElement DEF Listed
  <2> HIDE DEF new, free
  <2>v. <<i>> \in Seq(Instances)
    OBVIOUS
  <2>5. s \in CommandStates
    <3>1. [cmd[c] EXCEPT !.todo = rest] \in CommandStates
      BY <1>c DEF CommandStates
    <3>2. [cmd[c] EXCEPT !.todo = rest, !.phase = "remove", !.victims = <<i>>] \in CommandStates
      BY <1>c, <2>v DEF CommandStates
    <3>3. [cmd[c] EXCEPT !.todo = rest, !.found = cmd[c].found \cup {new}] \in CommandStates
      BY <1>c, <2>2 DEF CommandStates
    <3> QED
      BY <3>1, <3>2, <3>3 DEF new
  <2>6. /\ s.plans = cmd[c].plans
        /\ s.found = cmd[c].found \/ (free /\ s.found = cmd[c].found \cup {new})
        /\ s.victims = cmd[c].victims \/ (free /\ s.victims = <<i>>)
    BY <1>c DEF CommandStates, new
  <2> HIDE DEF s
  <2>7. Listed(s)
    BY <1>c, <2>0, <2>2, <2>4, <2>6 DEF Listed
  <2>8. Spares(s, witness[c])
    BY <1>c, <2>2, <2>3, <2>6 DEF Spares
  <2> QED
    BY <1>a, <2>0, <2>1, <2>5, <2>7, <2>8
<1>7. ASSUME NEW c \in Commands, ChooseVictims(c) PROVE InstancesInv'
  <2> DEFINE V == PruneVictims(cmd[c].found, Head(cmd[c].plans))
             line == OldestFirst(V)
             s == [cmd[c] EXCEPT !.phase = "remove", !.victims = line]
  <2>0. UNCHANGED <<dirs, stamp, now, locks, witness>> /\ cmd[c].phase = "scan"
    BY <1>7 DEF ChooseVictims
  <2>1. V \subseteq cmd[c].found
    BY VictimsListed
  <2>2. cmd' = [cmd EXCEPT ![c] = s]
    BY <1>0, <1>7 DEF ChooseVictims, InstanceTypes, OldestFirst
  <2>3. IsFiniteSet(V) /\ V \subseteq Entries
    BY <1>c, <2>1, FS_Subset DEF Listed
  <2> HIDE DEF V
  <2>4. line \in Seq(Instances) /\ \A n \in DOMAIN line : \E x \in V : line[n] = x.instance
    BY <2>3, VictimsInLine
  <2> HIDE DEF line
  <2>5. s \in CommandStates /\ s.victims = line /\ s.found = cmd[c].found /\ s.plans = cmd[c].plans
    BY <1>c, <2>4 DEF CommandStates
  <2> HIDE DEF s
  <2>6. Listed(s) /\ Spares(s, witness[c])
    BY <1>c, <2>0, <2>1, <2>4, <2>5 DEF Listed, Spares
  <2> QED
    BY <1>a, <2>0, <2>2, <2>5, <2>6
<1>8. ASSUME NEW c \in Commands, RemoveVictim(c) PROVE InstancesInv'
  <2> DEFINE i == Head(cmd[c].victims)
             swept == cmd[c].todo # {}
             none == [cmd[c] EXCEPT !.phase = IF swept THEN "scan" ELSE "plan", !.plans = IF swept THEN @ ELSE Tail(@)]
             fewer == [cmd[c] EXCEPT !.victims = Tail(@)]
             failed == [cmd[c] EXCEPT !.phase = "failed"]
  <2>0. UNCHANGED <<stamp, now>> /\ cmd[c].phase = "remove" /\ cmd[c].plans # <<>>
    BY <1>8, <1>c DEF RemoveVictim, Listed
  <2>1. /\ witness' \in [Commands -> SUBSET Servers] /\ locks' \subseteq Servers /\ dirs' \subseteq Instances
        /\ \A d \in Commands : witness'[d] = witness[d] \cap locks'
    BY <1>0, <1>8 DEF RemoveVictim, InstanceTypes
  <2>2. \/ cmd' = [cmd EXCEPT ![c] = none]
        \/ cmd[c].victims # <<>> /\ cmd' = [cmd EXCEPT ![c] = fewer]
        \/ cmd' = [cmd EXCEPT ![c] = failed]
    BY <1>0, <1>8 DEF RemoveVictim, InstanceTypes
  <2>3. Tail(cmd[c].plans) \in Seq(Plans)
    BY <1>c, <2>0 DEF CommandStates
  <2>4. none \in CommandStates /\ Listed(none) /\ Spares(none, witness[c])
    BY <1>c, <2>0, <2>3 DEF CommandStates, Listed, Spares
  <2>5. failed \in CommandStates /\ Listed(failed) /\ Spares(failed, witness[c])
    BY <1>c DEF CommandStates, Listed, Spares
  <2>6. ASSUME cmd[c].victims # <<>> PROVE fewer \in CommandStates /\ Listed(fewer) /\ Spares(fewer, witness[c])
    <3> DEFINE v == cmd[c].victims
    <3>1. v \in Seq(Instances) /\ v # <<>>
      BY <1>c, <2>6 DEF CommandStates
    <3> HIDE DEF v
    <3>2. Tail(v) \in Seq(Instances) /\ \A n \in DOMAIN Tail(v) : \E m \in DOMAIN v : Tail(v)[n] = v[m]
      <4>1. Tail(v) \in Seq(Instances) /\ DOMAIN v = 1 .. Len(v) /\ DOMAIN Tail(v) = 1 .. Len(v) - 1 /\ Len(v) \in Nat
        BY <3>1
      <4>2. \A n \in DOMAIN Tail(v) : n + 1 \in DOMAIN v /\ Tail(v)[n] = v[n + 1]
        BY <3>1, <4>1
      <4> QED
        BY <4>1, <4>2
    <3>3. fewer \in CommandStates /\ fewer.victims = Tail(v) /\ fewer.found = cmd[c].found /\ fewer.plans = cmd[c].plans
      BY <1>c, <3>2 DEF CommandStates, v
    <3> HIDE DEF fewer
    <3> QED
      BY <1>c, <2>0, <3>2, <3>3 DEF Listed, Spares, v
  <2>7. \A s : Spares(s, witness[c]) => Spares(s, witness'[c])
    BY <2>1 DEF Spares
  <2> HIDE DEF none, fewer, failed
  <2> QED
    BY <1>c, <2>0, <2>1, <2>2, <2>4, <2>5, <2>6, <2>7, CommandStep
<1>9. ASSUME NEW c \in Commands, EndCommand(c) PROVE InstancesInv'
  <2>1. witness' \in [Commands -> SUBSET Servers] /\ \A d \in Commands : witness'[d] \subseteq witness[d]
    BY <1>0, <1>9 DEF EndCommand, InstanceTypes
  <2>2. cmd' = [cmd EXCEPT ![c] = Idle] /\ UNCHANGED <<dirs, stamp, now, locks>>
    BY <1>9 DEF EndCommand
  <2> QED
    BY <1>0, <1>c, <1>i, <2>1, <2>2, CommandStep DEF InstanceTypes
<1>10. CASE UNCHANGED instanceVars
  BY <1>10 DEF instanceVars, InstancesInv, InstanceTypes, Listed, Spares
<1> QED
  BY <1>1, <1>2, <1>3, <1>4, <1>5, <1>6, <1>7, <1>8, <1>9, <1>10 DEF InstancesNext

-----------------------------------------------------------------------------
(* A pruning that nothing disturbs.                                        *)

\* What a pruning that nothing disturbs is to remove of the instances there were
\* when it began: all that are free, or those its limits take from their listing.
FreeBefore(c) == {i \in cmd[c].before : i \notin cmd[c].request[1].exclude /\ ~InUse(i)}
EntryOf(i) == [instance |-> i, stamp |-> stamp[i]]
Listing(set) == {EntryOf(i) : i \in set}
ToGo(c) ==
  IF cmd[c].request[1].keep = 0 THEN FreeBefore(c)
  ELSE Names(PruneVictims(Listing(FreeBefore(c)), cmd[c].request[1]))

\* How far it is: nothing else is gone, and what is to go and is there is still
\* to be listed, or listed, or in line.
OnlyPruning(c) == Len(cmd[c].request) = 1 /\ cmd[c].request[1].kind = "prune"
InLine(s) == {s.victims[n] : n \in DOMAIN s.victims}
OnTheWay(c) ==
  LET s == cmd[c]
      sweep == s.request[1].keep = 0
  IN  /\ dirs \subseteq s.before /\ s.before \ dirs \subseteq ToGo(c)
      /\ s.phase \in {"scan", "remove"} \/ (s.phase = "plan" /\ s.plans # <<>>) => s.plans = s.request
      /\ s.phase = "plan" /\ s.plans # <<>> => dirs = s.before
      /\ s.phase \in {"scan", "remove"} /\ sweep => s.found = {}
      /\ s.phase = "scan" /\ sweep => ToGo(c) \cap dirs \subseteq s.todo
      /\ s.phase = "scan" /\ ~sweep => dirs = s.before /\ s.found = Listing(FreeBefore(c) \ s.todo)
      /\ s.phase = "remove" => InLine(s) \subseteq ToGo(c) /\ ToGo(c) \cap dirs \subseteq s.todo \cup InLine(s)
      /\ s.phase = "remove" /\ ~sweep => s.todo = {}
      /\ (s.phase = "plan" /\ s.plans = <<>>) \/ s.phase = "done" => ToGo(c) \cap dirs = {}
PruningInv == alone \subseteq Commands /\ \A c \in alone : OnlyPruning(c) => OnTheWay(c)

LEMMA WayIsKept ==
  ASSUME NEW c \in Commands, cmd'[c].before = cmd[c].before, cmd'[c].request = cmd[c].request, UNCHANGED <<locks, stamp>>
  PROVE  FreeBefore(c)' = FreeBefore(c) /\ ToGo(c)' = ToGo(c) /\ \A set : Listing(set)' = Listing(set)
<1>1. FreeBefore(c)' = FreeBefore(c)
  BY DEF FreeBefore, InUse
<1>2. \A set : Listing(set)' = Listing(set)
  BY DEF Listing, EntryOf
<1> QED
  BY <1>1, <1>2 DEF ToGo

\* Only free ones are to go, and what stays of a listing are the names of the rest.
LEMMA ToGoIsFree ==
  ASSUME InstanceTypes, NEW c \in Commands
  PROVE  /\ FreeBefore(c) \subseteq Instances /\ ToGo(c) \subseteq FreeBefore(c)
         /\ Listing(FreeBefore(c)) \in SUBSET Entries /\ IsFiniteSet(Listing(FreeBefore(c)))
<1>1. FreeBefore(c) \subseteq Instances
  BY DEF FreeBefore, InstanceTypes, CommandStates
<1>2. Listing(FreeBefore(c)) \in SUBSET Entries
  BY <1>1 DEF Listing, EntryOf, Entries, InstanceTypes
<1>3. IsFiniteSet(FreeBefore(c))
  BY <1>1, InstancesAssumption, FS_Subset
<1>4. IsFiniteSet(Listing(FreeBefore(c)))
  <2> DEFINE S == FreeBefore(c)
             f == [i \in S |-> EntryOf(i)]
  <2>1. {EntryOf(i) : i \in S} = {f[i] : i \in S} /\ f \in [S -> {EntryOf(i) : i \in S}]
    OBVIOUS
  <2>2. f \in Surjection(S, {EntryOf(i) : i \in S})
    <3> HIDE DEF S
    <3> QED
      BY <2>1 DEF Surjection
  <2> QED
    BY <1>3, <2>2, FS_Surjection DEF Listing
<1>5. ToGo(c) \subseteq FreeBefore(c)
  <2>1. \A x \in Listing(FreeBefore(c)) : x.instance \in FreeBefore(c)
    BY DEF Listing, EntryOf
  <2>2. PruneVictims(Listing(FreeBefore(c)), cmd[c].request[1]) \subseteq Listing(FreeBefore(c))
    BY VictimsListed
  <2> QED
    BY <2>1, <2>2 DEF ToGo, Names
<1> QED
  BY <1>1, <1>2, <1>4, <1>5

\* A step of the command that leaves the instances and the locks alone.
LEMMA WayGoesOn ==
  ASSUME InstancesInv, NEW c \in Commands, OnTheWay(c), NEW s \in CommandStates, cmd' = [cmd EXCEPT ![c] = s],
         s.before = cmd[c].before, s.request = cmd[c].request, UNCHANGED <<locks, stamp>>,
         dirs' \subseteq cmd[c].before, cmd[c].before \ dirs' \subseteq ToGo(c),
         s.phase \in {"scan", "remove"} \/ (s.phase = "plan" /\ s.plans # <<>>) => s.plans = s.request,
         s.phase = "plan" => s.plans = <<>>,
         s.phase \in {"scan", "remove"} /\ s.request[1].keep = 0 => s.found = {},
         s.phase = "scan" /\ s.request[1].keep = 0 => ToGo(c) \cap dirs' \subseteq s.todo,
         s.phase = "scan" /\ s.request[1].keep # 0 => dirs' = s.before /\ s.found = Listing(FreeBefore(c) \ s.todo),
         s.phase = "remove" => InLine(s) \subseteq ToGo(c) /\ ToGo(c) \cap dirs' \subseteq s.todo \cup InLine(s),
         s.phase = "remove" /\ s.request[1].keep # 0 => s.todo = {},
         s.phase \in {"plan", "done"} => ToGo(c) \cap dirs' = {}
  PROVE  OnTheWay(c)'
<1>1. cmd'[c] = s
  BY DEF InstancesInv, InstanceTypes
<1>2. FreeBefore(c)' = FreeBefore(c) /\ ToGo(c)' = ToGo(c) /\ \A set : Listing(set)' = Listing(set)
  BY <1>1, WayIsKept
<1>3. Listing(FreeBefore(c) \ cmd[c].todo)' = Listing(FreeBefore(c) \ s.todo)
  <2>1. (FreeBefore(c) \ cmd[c].todo)' = FreeBefore(c) \ s.todo
    BY <1>1, <1>2
  <2> QED
    BY <1>2, <2>1 DEF Listing, EntryOf
<1>4. InLine(cmd[c])' = InLine(s)
  BY <1>1 DEF InLine
<1> QED
  BY <1>1, <1>2, <1>3, <1>4 DEF OnTheWay

LEMMA PruningStep == InstancesInv /\ PruningInv /\ [InstancesNext]_instanceVars => PruningInv'
<1> SUFFICES ASSUME InstancesInv, PruningInv, [InstancesNext]_instanceVars PROVE PruningInv'
  OBVIOUS
<1>0. InstanceTypes /\ alone \subseteq Commands /\ \A c \in Commands : cmd[c] \in CommandStates
  BY DEF InstancesInv, InstanceTypes, PruningInv
<1>1. ASSUME alone' = {} PROVE PruningInv'
  BY <1>1 DEF PruningInv
<1>2. ASSUME NEW c \in Commands, alone' \subseteq {c}, c \in alone' /\ OnlyPruning(c)' => OnTheWay(c)' PROVE PruningInv'
  BY <1>2 DEF PruningInv
\* The request of a command stays; while it is alone, it is on its way.
<1>3. ASSUME NEW c \in Commands, Undisturbed(c), NEW s \in CommandStates, cmd' = [cmd EXCEPT ![c] = s], s.request = cmd[c].request,
             c \in alone /\ OnlyPruning(c) /\ OnTheWay(c) => OnTheWay(c)'
      PROVE  PruningInv'
  <2>1. cmd'[c] = s
    BY <1>0, <1>3 DEF InstanceTypes
  <2>2. OnlyPruning(c)' <=> OnlyPruning(c)
    BY <1>3, <2>1 DEF OnlyPruning
  <2>3. alone' \subseteq {c} /\ alone' \subseteq alone
    BY <1>3 DEF Undisturbed
  <2> QED
    BY <1>2, <1>3, <2>2, <2>3 DEF PruningInv
<1>p. ASSUME NEW c \in Commands, OnlyPruning(c), OnTheWay(c), cmd[c].plans = cmd[c].request
      PROVE  /\ cmd[c].plans # <<>> /\ Tail(cmd[c].plans) = <<>> /\ Head(cmd[c].plans) = cmd[c].request[1]
             /\ cmd[c].request[1].kind # "cleanup"
  <2>1. cmd[c].plans \in Seq(Plans) /\ Len(cmd[c].plans) = 1 /\ cmd[c].request[1].kind = "prune"
    BY <1>0, <1>p DEF CommandStates, OnlyPruning
  <2>2. ASSUME NEW q \in Seq(Plans), Len(q) = 1 PROVE q # <<>> /\ Tail(q) = <<>> /\ Head(q) = q[1]
    <3>1. q # <<>>
      BY <2>2
    <3>2. Tail(q) \in Seq(Plans) /\ Len(Tail(q)) = 0 /\ Head(q) = q[1]
      BY <2>2, <3>1
    <3>3. \A t \in Seq(Plans) : Len(t) = 0 => t = <<>>
      OBVIOUS
    <3> QED
      BY <3>1, <3>2, <3>3
  <2> QED
    BY <1>p, <2>1, <2>2
<1>4. ASSUME NEW c \in Commands, NEW plans \in Requests, Begin(c, plans) PROVE PruningInv'
  <2> DEFINE s == [Idle EXCEPT !.phase = "plan", !.plans = plans, !.request = plans, !.before = dirs]
  <2>1. cmd'[c] = s /\ alone' = {c} /\ dirs' = dirs
    BY <1>0, <1>4 DEF Begin, InstanceTypes
  <2>2. s.phase = "plan" /\ s.plans = plans /\ s.request = plans /\ s.before = dirs
    BY DEF Idle
  <2> HIDE DEF s
  <2>3. OnlyPruning(c)' => plans # <<>>
    <3>1. Len(<<>>) # 1
      OBVIOUS
    <3>2. OnlyPruning(c)' => Len(plans) = 1
      BY <2>1, <2>2 DEF OnlyPruning
    <3> QED
      BY <3>1, <3>2
  <2>4. OnlyPruning(c)' => OnTheWay(c)'
    BY <2>1, <2>2, <2>3 DEF OnTheWay
  <2> QED
    BY <1>2, <2>1, <2>4
<1>5. ASSUME NEW c \in Commands, TakePlan(c) PROVE PruningInv'
  <2> DEFINE plan == Head(cmd[c].plans)
             s == IF cmd[c].plans = <<>> THEN [cmd[c] EXCEPT !.phase = "done"]
                  ELSE IF plan.kind = "cleanup" /\ (plan.instance \notin dirs \/ InUse(plan.instance)) THEN [cmd[c] EXCEPT !.plans = Tail(cmd[c].plans)]
                  ELSE IF plan.kind = "cleanup" THEN [cmd[c] EXCEPT !.phase = "remove", !.victims = <<plan.instance>>]
                  ELSE [cmd[c] EXCEPT !.phase = "scan", !.todo = dirs, !.found = {}]
  <2>1. cmd' = [cmd EXCEPT ![c] = s] /\ Undisturbed(c) /\ UNCHANGED <<dirs, stamp, locks>> /\ cmd[c].phase = "plan"
    BY <1>5, Zenon DEF TakePlan
  <2>2. s.request = cmd[c].request /\ s.before = cmd[c].before
    BY <1>0 DEF CommandStates
  <2>3. s \in CommandStates
    <3>1. InstancesInv'
      BY InstancesStep
    <3> HIDE DEF s
    <3>2. cmd'[c] = s
      BY <1>0, <2>1 DEF InstanceTypes
    <3> QED
      BY <3>1, <3>2 DEF InstancesInv, InstanceTypes
  <2>4. ASSUME c \in alone, OnlyPruning(c), OnTheWay(c) PROVE OnTheWay(c)'
    <3>1. CASE cmd[c].plans = <<>>
      <4>1. s.phase = "done"
        BY <1>0, <3>1 DEF CommandStates
      <4> HIDE DEF s
      <4> QED
        BY <2>1, <2>2, <2>3, <2>4, <3>1, <4>1, WayGoesOn DEF OnTheWay
    <3>2. CASE cmd[c].plans # <<>>
      <4>1. cmd[c].plans = cmd[c].request /\ dirs = cmd[c].before
        BY <2>1, <2>4, <3>2 DEF OnTheWay
      <4>2. plan.kind # "cleanup"
        BY <1>p, <2>4, <4>1
      <4>3. s.phase = "scan" /\ s.todo = dirs /\ s.found = {} /\ s.plans = cmd[c].plans
        BY <1>0, <3>2, <4>2 DEF CommandStates
      <4>4. Listing(FreeBefore(c) \ dirs) = {}
        BY <4>1 DEF Listing, FreeBefore
      <4> HIDE DEF s
      <4> QED
        BY <2>1, <2>2, <2>3, <2>4, <4>1, <4>3, <4>4, WayGoesOn DEF OnTheWay
    <3> QED
      BY <3>1, <3>2
  <2> HIDE DEF s
  <2> QED
    BY <1>3, <2>1, <2>2, <2>3, <2>4
<1>6. ASSUME NEW c \in Commands, NEW i \in Instances, ScanEntry(c, i) PROVE PruningInv'
  <2> DEFINE plan == Head(cmd[c].plans)
             free == i \in dirs /\ i \notin plan.exclude /\ ~InUse(i)
             rest == cmd[c].todo \ {i}
             new == [instance |-> i, stamp |-> stamp[i]]
             s == IF ~free THEN [cmd[c] EXCEPT !.todo = rest]
                  ELSE IF plan.keep = 0 THEN [cmd[c] EXCEPT !.todo = rest, !.phase = "remove", !.victims = <<i>>]
                  ELSE [cmd[c] EXCEPT !.todo = rest, !.found = cmd[c].found \cup {new}]
  <2>1. cmd' = [cmd EXCEPT ![c] = s] /\ Undisturbed(c) /\ UNCHANGED <<dirs, stamp, locks>> /\ cmd[c].phase = "scan" /\ i \in cmd[c].todo
    BY <1>6, Zenon DEF ScanEntry
  <2>2. s.request = cmd[c].request /\ s.before = cmd[c].before /\ s.plans = cmd[c].plans /\ s.todo = rest
    BY <1>0 DEF CommandStates
  <2>3. s \in CommandStates
    <3>1. InstancesInv'
      BY InstancesStep
    <3> HIDE DEF s
    <3>2. cmd'[c] = s
      BY <1>0, <2>1 DEF InstanceTypes
    <3> QED
      BY <3>1, <3>2 DEF InstancesInv, InstanceTypes
  <2>f. /\ ~free => s.phase = "scan" /\ s.found = cmd[c].found
        /\ free /\ plan.keep = 0 => s.phase = "remove" /\ s.found = cmd[c].found /\ s.victims = <<i>>
        /\ free /\ plan.keep # 0 => s.phase = "scan" /\ s.found = cmd[c].found \cup {new}
    BY <1>0, <2>1 DEF CommandStates
  <2> HIDE DEF s
  <2>4. ASSUME c \in alone, OnlyPruning(c), OnTheWay(c) PROVE OnTheWay(c)'
    <3>1. cmd[c].plans = cmd[c].request
      BY <2>1, <2>4 DEF OnTheWay
    <3>2. plan = cmd[c].request[1]
      BY <1>p, <2>4, <3>1
    <3> HIDE DEF plan
    <3>3. free => i \in FreeBefore(c)
      BY <2>4, <3>2 DEF OnTheWay, FreeBefore
    <3>4. i \in FreeBefore(c) /\ i \in dirs => free
      BY <3>2 DEF FreeBefore
    <3>5. CASE plan.keep = 0
      <4>1. s.found = {}
        BY <2>1, <2>4, <2>f, <3>2, <3>5 DEF OnTheWay
      <4>2. ToGo(c) = FreeBefore(c) /\ ToGo(c) \cap dirs \subseteq cmd[c].todo
        BY <2>1, <2>4, <3>2, <3>5 DEF OnTheWay, ToGo
      <4>3. ~free => ToGo(c) \cap dirs \subseteq rest
        BY <3>4, <4>2
      <4>4. free => InLine(s) = {i}
        BY <2>f, <3>5 DEF InLine
      <4>5. CASE ~free
        <5>1. s.phase = "scan"
          BY <2>f, <4>5
        <5> HIDE DEF free
        <5> QED
          BY <2>1, <2>2, <2>3, <2>4, <3>1, <3>2, <3>5, <4>1, <4>3, <4>5, <5>1, WayGoesOn DEF OnTheWay
      <4>6. CASE free
        <5>1. s.phase = "remove" /\ InLine(s) = {i} /\ i \in ToGo(c) /\ ToGo(c) \cap dirs \subseteq rest \cup {i}
          BY <2>f, <3>3, <3>5, <4>2, <4>4, <4>6
        <5> HIDE DEF free
        <5> QED
          <6>1. dirs' \subseteq cmd[c].before /\ cmd[c].before \ dirs' \subseteq ToGo(c)
            BY <2>1, <2>4 DEF OnTheWay
          <6> QED
            BY <2>1, <2>2, <2>3, <2>4, <3>1, <3>2, <3>5, <4>1, <5>1, <6>1, WayGoesOn
      <4> QED
        BY <4>5, <4>6
    <3>6. CASE plan.keep # 0
      <4>1. dirs = cmd[c].before /\ cmd[c].found = Listing(FreeBefore(c) \ cmd[c].todo)
        BY <2>1, <2>4, <3>2, <3>6 DEF OnTheWay
      <4>2. FreeBefore(c) \subseteq cmd[c].before
        BY DEF FreeBefore
      <4>3. ~free => FreeBefore(c) \ rest = FreeBefore(c) \ cmd[c].todo
        BY <3>4, <4>1, <4>2
      <4>4. free => FreeBefore(c) \ rest = (FreeBefore(c) \ cmd[c].todo) \cup {i}
        BY <3>3
      <4>5. \A S : Listing(S \cup {i}) = Listing(S) \cup {new}
        BY DEF Listing, EntryOf
      <4>6. s.phase = "scan" /\ s.found = Listing(FreeBefore(c) \ s.todo)
        BY <2>2, <2>f, <3>6, <4>1, <4>3, <4>4, <4>5
      <4> QED
        BY <2>1, <2>2, <2>3, <2>4, <3>1, <3>2, <3>6, <4>1, <4>6, WayGoesOn DEF OnTheWay
    <3> QED
      BY <3>5, <3>6
  <2> QED
    BY <1>3, <2>1, <2>2, <2>3, <2>4
<1>7. ASSUME NEW c \in Commands, ChooseVictims(c) PROVE PruningInv'
  <2> DEFINE V == PruneVictims(cmd[c].found, Head(cmd[c].plans))
             line == OldestFirst(V)
             s == [cmd[c] EXCEPT !.phase = "remove", !.victims = line]
  <2>1. cmd' = [cmd EXCEPT ![c] = s] /\ Undisturbed(c) /\ UNCHANGED <<dirs, stamp, locks>> /\ cmd[c].phase = "scan" /\ cmd[c].todo = {}
    BY <1>0, <1>7 DEF ChooseVictims, InstanceTypes, OldestFirst
  <2>2. /\ s.request = cmd[c].request /\ s.before = cmd[c].before /\ s.plans = cmd[c].plans /\ s.todo = {}
        /\ s.found = cmd[c].found /\ s.phase = "remove" /\ s.victims = line
    BY <1>0, <2>1 DEF CommandStates
  <2>3. s \in CommandStates
    <3>1. InstancesInv'
      BY InstancesStep
    <3> HIDE DEF s
    <3>2. cmd'[c] = s
      BY <1>0, <2>1 DEF InstanceTypes
    <3> QED
      BY <3>1, <3>2 DEF InstancesInv, InstanceTypes
  <2>4. V \subseteq cmd[c].found
    BY VictimsListed
  <2>5. IsFiniteSet(V) /\ V \subseteq Entries
    BY <2>4, FS_Subset DEF InstancesInv, Listed
  <2>6. InLine(s) = Names(V)
    <3> HIDE DEF V, s
    <3> QED
      BY <2>2, <2>5, AllInLine DEF InLine
  <2> HIDE DEF s
  <2>7. ASSUME c \in alone, OnlyPruning(c), OnTheWay(c) PROVE OnTheWay(c)'
    <3>1. cmd[c].plans = cmd[c].request
      BY <2>1, <2>7 DEF OnTheWay
    <3>2. Head(cmd[c].plans) = cmd[c].request[1]
      BY <1>p, <2>7, <3>1
    <3>3. CASE cmd[c].request[1].keep = 0
      <4>1. cmd[c].found = {} /\ ToGo(c) \cap dirs \subseteq {}
        BY <2>1, <2>7, <3>3 DEF OnTheWay
      <4>2. InLine(s) = {}
        BY <2>4, <2>6, <4>1 DEF Names
      <4> QED
        BY <2>1, <2>2, <2>3, <2>7, <3>1, <3>3, <4>1, <4>2, WayGoesOn DEF OnTheWay
    <3>4. CASE cmd[c].request[1].keep # 0
      <4>1. FreeBefore(c) \ cmd[c].todo = FreeBefore(c)
        BY <2>1
      <4>2. cmd[c].found = Listing(FreeBefore(c))
        BY <2>1, <2>7, <3>4, <4>1 DEF OnTheWay
      <4>3. InLine(s) = ToGo(c)
        BY <2>6, <3>2, <3>4, <4>2 DEF ToGo
      <4> HIDE DEF V, line
      <4>4. /\ dirs' \subseteq cmd[c].before /\ cmd[c].before \ dirs' \subseteq ToGo(c)
            /\ InLine(s) \subseteq ToGo(c) /\ ToGo(c) \cap dirs' \subseteq s.todo \cup InLine(s)
        BY <2>1, <2>7, <4>3 DEF OnTheWay
      <4> QED
        BY <2>1, <2>2, <2>3, <2>7, <3>1, <3>4, <4>4, WayGoesOn
    <3> QED
      BY <3>3, <3>4
  <2> QED
    BY <1>3, <2>1, <2>2, <2>3, <2>7
<1>8. ASSUME NEW c \in Commands, RemoveVictim(c) PROVE PruningInv'
  <2> DEFINE i == Head(cmd[c].victims)
             swept == cmd[c].todo # {}
             none == [cmd[c] EXCEPT !.phase = IF swept THEN "scan" ELSE "plan", !.plans = IF swept THEN @ ELSE Tail(@)]
             fewer == [cmd[c] EXCEPT !.victims = Tail(@)]
             failed == [cmd[c] EXCEPT !.phase = "failed"]
  <2>0. UNCHANGED stamp /\ cmd[c].phase = "remove" /\ Undisturbed(c)
    BY <1>8 DEF RemoveVictim
  <2>1. \/ cmd[c].victims = <<>> /\ cmd' = [cmd EXCEPT ![c] = none] /\ UNCHANGED <<dirs, locks>>
        \/ /\ cmd[c].victims # <<>> /\ cmd' = [cmd EXCEPT ![c] = fewer]
           /\ dirs' = dirs \ {i} /\ locks' = {r \in locks : Home[r] # i} /\ i \in dirs
        \/ cmd' = [cmd EXCEPT ![c] = failed] /\ UNCHANGED <<dirs, locks>>
    BY <1>0, <1>8 DEF RemoveVictim, InstanceTypes
  <2>2. ASSUME NEW s, cmd' = [cmd EXCEPT ![c] = s] PROVE s \in CommandStates
    <3>1. InstancesInv'
      BY InstancesStep
    <3>2. cmd'[c] = s
      BY <1>0, <2>2 DEF InstanceTypes
    <3> QED
      BY <3>1, <3>2 DEF InstancesInv, InstanceTypes
  <2>3. CASE cmd[c].victims = <<>> /\ cmd' = [cmd EXCEPT ![c] = none] /\ UNCHANGED <<dirs, locks>>
    <3>1. /\ none.request = cmd[c].request /\ none.before = cmd[c].before /\ none.todo = cmd[c].todo /\ none.found = cmd[c].found
          /\ none.phase = (IF swept THEN "scan" ELSE "plan") /\ none.plans = IF swept THEN cmd[c].plans ELSE Tail(cmd[c].plans)
      BY <1>0 DEF CommandStates
    <3>2. none \in CommandStates
      <4> HIDE DEF none
      <4> QED
        BY <2>2, <2>3
    <3>3. ASSUME c \in alone, OnlyPruning(c), OnTheWay(c) PROVE OnTheWay(c)'
      <4>1. cmd[c].plans = cmd[c].request
        BY <2>0, <3>3 DEF OnTheWay
      <4>2. Tail(cmd[c].plans) = <<>>
        BY <1>p, <3>3, <4>1
      <4>3. InLine(cmd[c]) = {}
        BY <2>3 DEF InLine
      <4>4. ToGo(c) \cap dirs \subseteq cmd[c].todo /\ (swept => cmd[c].request[1].keep = 0)
        BY <2>0, <3>3, <4>3 DEF OnTheWay
      <4> HIDE DEF none
      <4>5. CASE swept
        BY <2>0, <2>3, <3>1, <3>2, <3>3, <4>1, <4>4, <4>5, WayGoesOn DEF OnTheWay
      <4>6. CASE ~swept
        <5>1. none.phase = "plan" /\ none.plans = <<>> /\ ToGo(c) \cap dirs' = {}
          BY <2>3, <3>1, <4>2, <4>4, <4>6
        <5>2. dirs' \subseteq cmd[c].before /\ cmd[c].before \ dirs' \subseteq ToGo(c)
          BY <2>3, <3>3 DEF OnTheWay
        <5> QED
          BY <2>0, <2>3, <3>1, <3>2, <3>3, <5>1, <5>2, WayGoesOn
      <4> QED
        BY <4>5, <4>6
    <3> HIDE DEF none
    <3> QED
      BY <1>3, <2>0, <2>3, <3>1, <3>2, <3>3
  <2>4. CASE /\ cmd[c].victims # <<>> /\ cmd' = [cmd EXCEPT ![c] = fewer]
             /\ dirs' = dirs \ {i} /\ locks' = {r \in locks : Home[r] # i} /\ i \in dirs
    <3>1. /\ fewer.request = cmd[c].request /\ fewer.before = cmd[c].before /\ fewer.todo = cmd[c].todo /\ fewer.found = cmd[c].found
          /\ fewer.phase = "remove" /\ fewer.plans = cmd[c].plans /\ fewer.victims = Tail(cmd[c].victims)
      BY <1>0, <2>0 DEF CommandStates
    <3>2. fewer \in CommandStates
      <4> HIDE DEF fewer
      <4> QED
        BY <2>2, <2>4
    <3>v. i \in InLine(cmd[c]) /\ InLine(fewer) \subseteq InLine(cmd[c]) /\ InLine(cmd[c]) \subseteq InLine(fewer) \cup {i}
      <4> DEFINE v == cmd[c].victims
      <4>1. v \in Seq(Instances) /\ v # <<>>
        BY <1>0, <2>4 DEF CommandStates
      <4> HIDE DEF v
      <4>2. Len(v) \in Nat /\ Len(v) >= 1 /\ DOMAIN v = 1 .. Len(v) /\ DOMAIN Tail(v) = 1 .. (Len(v) - 1) /\ Head(v) = v[1]
        BY <4>1
      <4>3. \A n \in 1 .. (Len(v) - 1) : Tail(v)[n] = v[n + 1] /\ n + 1 \in 1 .. Len(v)
        BY <4>1, <4>2
      <4>4. \A n \in 1 .. Len(v) : n = 1 \/ (n - 1 \in 1 .. (Len(v) - 1) /\ v[n] = Tail(v)[n - 1])
        BY <4>2, <4>3
      <4>5. {Tail(v)[n] : n \in DOMAIN Tail(v)} \subseteq {v[n] : n \in DOMAIN v}
        BY <4>2, <4>3
      <4>6. {v[n] : n \in DOMAIN v} \subseteq {Tail(v)[n] : n \in DOMAIN Tail(v)} \cup {v[1]}
        BY <4>2, <4>4
      <4>7. v[1] \in {v[n] : n \in DOMAIN v}
        BY <4>2
      <4> HIDE DEF fewer
      <4> QED
        BY <3>1, <4>2, <4>5, <4>6, <4>7 DEF InLine, v
    <3> HIDE DEF fewer
    <3>3. ASSUME c \in alone, OnlyPruning(c), OnTheWay(c) PROVE OnTheWay(c)'
      <4>1. /\ cmd[c].plans = cmd[c].request /\ InLine(cmd[c]) \subseteq ToGo(c)
            /\ ToGo(c) \cap dirs \subseteq cmd[c].todo \cup InLine(cmd[c]) /\ (cmd[c].request[1].keep # 0 => cmd[c].todo = {})
            /\ (cmd[c].request[1].keep = 0 => cmd[c].found = {}) /\ dirs \subseteq cmd[c].before /\ cmd[c].before \ dirs \subseteq ToGo(c)
        BY <2>0, <3>3 DEF OnTheWay
      <4> HIDE DEF i
      <4>2. i \in ToGo(c)
        BY <3>v, <4>1
      <4>3. ~InUse(i)
        BY <1>0, <4>2, ToGoIsFree DEF FreeBefore
      <4>4. locks' = locks
        BY <2>4, <4>3 DEF InUse
      <4>5. dirs' \subseteq cmd[c].before /\ cmd[c].before \ dirs' \subseteq ToGo(c)
        BY <2>4, <4>1, <4>2
      <4>6. InLine(fewer) \subseteq ToGo(c) /\ ToGo(c) \cap dirs' \subseteq fewer.todo \cup InLine(fewer)
        BY <2>4, <3>1, <3>v, <4>1
      <4> QED
        BY <2>0, <2>4, <3>1, <3>2, <3>3, <4>1, <4>4, <4>5, <4>6, WayGoesOn
    <3> QED
      BY <1>3, <2>0, <2>4, <3>1, <3>2, <3>3
  <2>5. CASE cmd' = [cmd EXCEPT ![c] = failed] /\ UNCHANGED <<dirs, locks>>
    <3>1. failed.request = cmd[c].request /\ failed.before = cmd[c].before /\ failed.phase = "failed"
      BY <1>0 DEF CommandStates
    <3> HIDE DEF failed
    <3>2. failed \in CommandStates
      BY <2>2, <2>5
    <3>3. ASSUME c \in alone, OnlyPruning(c), OnTheWay(c) PROVE OnTheWay(c)'
      BY <2>0, <2>5, <3>1, <3>2, <3>3, WayGoesOn DEF OnTheWay
    <3> QED
      BY <1>3, <2>0, <2>5, <3>1, <3>2, <3>3
  <2> QED
    BY <2>1, <2>3, <2>4, <2>5
<1>9. CASE UNCHANGED instanceVars
  <2>1. ASSUME NEW c \in alone PROVE OnlyPruning(c)' = OnlyPruning(c) /\ OnTheWay(c)' = OnTheWay(c)
    BY <1>9 DEF instanceVars, OnlyPruning, OnTheWay, ToGo, FreeBefore, InUse, Listing, EntryOf, InLine
  <2> QED
    BY <1>9, <2>1 DEF instanceVars, PruningInv
<1>10. CASE \/ \E s \in Servers : MakeInstance(s) \/ LockInstance(s) \/ StopServer(s)
            \/ \E c \in Commands : EndCommand(c)
  BY <1>1, <1>10 DEF MakeInstance, LockInstance, StopServer, EndCommand
<1> QED
  BY <1>4, <1>5, <1>6, <1>7, <1>8, <1>9, <1>10 DEF InstancesNext

\* At the end of its way a pruning has removed what PruningIsExact says.
LEMMA WayEndsExactly == InstancesInv /\ PruningInv => PruningIsExact
<1> SUFFICES ASSUME InstancesInv, PruningInv, NEW c \in alone, cmd[c].phase = "done", Len(cmd[c].request) = 1, cmd[c].request[1].kind = "prune"
             PROVE  LET plan == cmd[c].request[1]
                        gone == cmd[c].before \ dirs
                        free == {i \in dirs : i \notin plan.exclude /\ ~InUse(i)}
                        older(i, j) == stamp[i] < stamp[j] \/ (stamp[i] = stamp[j] /\ i < j)
                    IN  /\ gone \cap plan.exclude = {} /\ Fits(free, plan)
                        /\ \A i \in gone, j \in free : older(i, j)
                        /\ \A i \in gone : (\A j \in gone \ {i} : older(j, i)) => ~Fits(free \cup {i}, plan)
  BY DEF PruningIsExact, Fits
<1> DEFINE plan == cmd[c].request[1]
           gone == cmd[c].before \ dirs
           free == {i \in dirs : i \notin plan.exclude /\ ~InUse(i)}
           older(i, j) == stamp[i] < stamp[j] \/ (stamp[i] = stamp[j] /\ i < j)
<1>1. c \in Commands /\ InstanceTypes /\ cmd[c] \in CommandStates /\ OnTheWay(c)
  BY DEF InstancesInv, InstanceTypes, PruningInv, OnlyPruning
<1>2. plan.keep \in Nat \cup {-1}
  <2>1. cmd[c].request \in Seq(Plans)
    BY <1>1 DEF CommandStates
  <2>2. plan \in Plans
    BY <2>1
  <2> QED
    BY <2>2 DEF Plans
<1>3. /\ dirs \subseteq cmd[c].before /\ gone \subseteq ToGo(c) /\ ToGo(c) \cap dirs = {}
  BY <1>1 DEF OnTheWay
<1>4. /\ FreeBefore(c) \subseteq Instances /\ ToGo(c) \subseteq FreeBefore(c)
      /\ Listing(FreeBefore(c)) \in SUBSET Entries /\ IsFiniteSet(Listing(FreeBefore(c)))
  BY <1>1, ToGoIsFree
<1>5. gone = ToGo(c) /\ free = FreeBefore(c) \ ToGo(c)
  BY <1>3, <1>4 DEF FreeBefore
<1>6. gone \cap plan.exclude = {}
  BY <1>4, <1>5 DEF FreeBefore
<1> HIDE DEF plan, gone, free
<1>7. CASE plan.keep = 0
  <2>1. ToGo(c) = FreeBefore(c)
    BY <1>7 DEF ToGo, plan
  <2>2. free = {}
    BY <1>5, <2>1
  <2>3. Cardinality({}) = 0 /\ \A i : Cardinality({i}) = 1
    BY FS_EmptySet, FS_Singleton
  <2>4. Fits(free, plan) /\ \A i \in gone : ~Fits(free \cup {i}, plan)
    <3>1. Fits({}, plan)
      BY <1>7, <2>3 DEF Fits
    <3>2. ASSUME NEW i PROVE ~Fits({i}, plan)
      <4>1. Cardinality({i}) = 1
        BY <2>3
      <4> QED
        BY <1>7, <4>1 DEF Fits
    <3>3. \A i : {} \cup {i} = {i}
      OBVIOUS
    <3> QED
      BY <2>2, <3>1, <3>2, <3>3
  <2> QED
    BY <1>6, <2>2, <2>4 DEF plan, gone, free
<1>8. CASE plan.keep # 0
  <2> DEFINE found == Listing(FreeBefore(c))
             V == PruneVictims(found, plan)
  <2>1. /\ Fits(Names(found \ V), plan)
        /\ \A x \in V : \A y \in found \ V : Older(x, y)
        /\ \A x \in V : (\A y \in V \ {x} : Older(y, x)) => ~Fits(Names((found \ V) \cup {x}), plan)
    BY <1>2, <1>4, VictimsExact
  <2>2. gone = Names(V)
    BY <1>5, <1>8 DEF ToGo, plan
  <2>3. V \subseteq found
    BY VictimsListed
  <2> HIDE DEF V
  <2>4. \A x \in found : x = EntryOf(x.instance) /\ x.instance \in FreeBefore(c)
    BY DEF Listing, EntryOf
  <2>5. \A i \in FreeBefore(c) : EntryOf(i) \in found /\ EntryOf(i).instance = i
    BY DEF Listing, EntryOf
  <2> HIDE DEF found
  <2>6. \A i \in FreeBefore(c) : i \in gone <=> EntryOf(i) \in V
    BY <2>2, <2>3, <2>4, <2>5 DEF Names
  <2>7. Names(found \ V) = free
    BY <1>4, <1>5, <2>3, <2>4, <2>5, <2>6 DEF Names
  <2>8. \A i, j : Older(EntryOf(i), EntryOf(j)) <=> older(i, j)
    BY DEF Older, EntryOf
  <2>9. ASSUME NEW i \in gone, NEW j \in free PROVE older(i, j)
    <3>1. i \in FreeBefore(c) /\ j \in FreeBefore(c) /\ j \notin gone
      BY <1>4, <1>5
    <3>2. EntryOf(i) \in V /\ EntryOf(j) \in found \ V
      BY <2>5, <2>6, <3>1
    <3> HIDE DEF older
    <3> QED
      BY <2>1, <2>8, <3>2
  <2>10. ASSUME NEW i \in gone, \A j \in gone \ {i} : older(j, i) PROVE ~Fits(free \cup {i}, plan)
    <3>1. i \in FreeBefore(c) /\ EntryOf(i) \in V /\ EntryOf(i).instance = i
      BY <1>4, <1>5, <2>5, <2>6
    <3>2. ASSUME NEW y \in V \ {EntryOf(i)} PROVE Older(y, EntryOf(i))
      <4>1. y = EntryOf(y.instance) /\ y.instance \in FreeBefore(c)
        BY <2>3, <2>4
      <4>2. y.instance \in gone \ {i}
        BY <2>2, <4>1 DEF Names
      <4> HIDE DEF older
      <4> QED
        BY <2>8, <2>10, <4>1, <4>2
    <3>3. Names((found \ V) \cup {EntryOf(i)}) = Names(found \ V) \cup {i}
      BY <3>1 DEF Names
    <3> QED
      BY <2>1, <2>7, <3>1, <3>2, <3>3
  <2> HIDE DEF older
  <2>11. Fits(free, plan)
    BY <2>1, <2>7
  <2> QED
    BY <1>6, <2>9, <2>10, <2>11 DEF plan, gone, free, older
<1> QED
  BY <1>7, <1>8

-----------------------------------------------------------------------------
(* What the commands remove.                                               *)

LEMMA InstancesInitially == InstancesInit => InstancesInv /\ PruningInv
<1> SUFFICES ASSUME InstancesInit PROVE InstancesInv /\ PruningInv
  OBVIOUS
<1>1. IsFiniteSet({})
  BY FS_EmptySet
<1>2. Idle \in CommandStates /\ Listed(Idle) /\ Spares(Idle, {})
  BY <1>1 DEF Idle, CommandStates, Listed, Spares
<1>3. InstanceTypes
  BY <1>2 DEF InstancesInit, InstanceTypes
<1> QED
  BY <1>2, <1>3 DEF InstancesInit, InstancesInv, PruningInv

\* `storage prune`, `storage cleanup` and a start that prunes never remove the
\* instance of a server that was up before they began, for every number of
\* servers and commands at once and every list of plans: a listing takes up
\* only what no lock is on, and such a server's lock stays on its directory.
THEOREM ServedStay == InstancesSpec => []ServedAreSpared
<1>1. InstancesInv => ServedAreSpared
  BY DEF InstancesInv, Spares, ServedAreSpared
<1> QED
  BY <1>1, InstancesInitially, InstancesStep, PTL DEF InstancesSpec

\* And a single pruning that nothing disturbs (prune_storage_instances,
\* prune_dirs) removes exactly what its limits ask for, whatever the numbers,
\* sizes and times of the instances: the free ones that stay fit the number and
\* the bytes, they are the newest, and one more would not fit.
THEOREM InstancesCorrect == InstancesSpec => []InstancesKept
<1>1. InstancesInv /\ PruningInv => InstancesKept
  BY WayEndsExactly DEF InstancesInv, Spares, ServedAreSpared, InstancesKept
<1> QED
  BY <1>1, InstancesInitially, InstancesStep, PruningStep, PTL DEF InstancesSpec

-----------------------------------------------------------------------------
(* The gate of an eval suite.                                              *)

RunStates ==
  [pc : {"idle", "loaded", "row", "newline"}, version : Versions \cup {None}, cases : SUBSET Cases, passed : SUBSET Cases,
   id : Nat, rows : Seq(Rows), kept : {<<>>}, alone : BOOLEAN]

Reports == {p \in [id : Nat, version : Versions, cases : (SUBSET Cases) \ {{}}, passed : SUBSET Cases] : p.passed \subseteq p.cases}

\* The row x is one of the report p.
RowOf(x, p) ==
  /\ x.runId = p.id /\ x.version = p.version
  /\ x.case \in p.cases /\ (x.status = "pass" <=> x.case \in p.passed)
  /\ x.caseCount = Cardinality(p.cases) /\ x.suiteCaseCount = Cardinality(Cases) /\ x.assertionCount = Cardinality(p.cases)

\* The places of the rows of a run in the file, the cases they are of, and those
\* of the rows that it is still to write.
PlacesOf(f, id) == {i \in RowsOf(f) : f[i].runId = id}
WrittenCases(f, id) == {f[i].case : i \in PlacesOf(f, id)}
CasesLeft(rows) == {rows[n].case : n \in DOMAIN rows}

\* Each run has one stamp and one report, every row in the file is one of a
\* report, and no case of a run has two.
GateTypes ==
  /\ clock \in Nat \ {0} /\ suite \in Versions \cup {None}
  /\ run \in [Runs -> RunStates] /\ file \in Seq(Rows \cup {Newline})
ReportsInv ==
  /\ reports \subseteq Reports
  /\ \A p \in reports : p.id < clock
  /\ \A p, q \in reports : p.id = q.id => p = q
FileInv(f) ==
  /\ \A i \in RowsOf(f) : \E p \in reports : RowOf(f[i], p)
  /\ \A i, j \in RowsOf(f) : f[i].runId = f[j].runId /\ f[i].case = f[j].case => i = j

\* What a writing run has written and has left to write is what it found.
WriterInv(r) ==
  LET rows == run[r].rows
  IN  /\ Found(r) \in reports
      /\ \A n \in DOMAIN rows : RowOf(rows[n], Found(r))
      /\ \A n, m \in DOMAIN rows : rows[n].case = rows[m].case => n = m
      /\ CasesLeft(rows) \cap WrittenCases(file, run[r].id) = {}
      /\ run[r].cases \subseteq CasesLeft(rows) \cup WrittenCases(file, run[r].id)
      /\ run[r].alone => run[r].id = clock - 1
      /\ run[r].pc = "row" => rows # <<>>
RunsInv ==
  /\ \A r \in Runs : run[r].pc = "loaded" => run[r].version \in Versions /\ run[r].cases # {}
  /\ \A r \in Writing : WriterInv(r)
  /\ \A r, q \in Writing : run[r].id = run[q].id => r = q
LastInv ==
  last # None => /\ last \in reports /\ last.id = clock - 1 /\ Writing = {}
                 /\ last.cases \subseteq WrittenCases(file, last.id)
GateInv == GateTypes /\ ReportsInv /\ FileInv(file) /\ RunsInv /\ LastInv

\* A row more, or a newline.
LEMMA RowMore ==
  ASSUME NEW f \in Seq(Rows \cup {Newline}), NEW x \in Rows
  PROVE  LET g == Append(f, x)
         IN  /\ g \in Seq(Rows \cup {Newline}) /\ RowsOf(g) = RowsOf(f) \cup {Len(f) + 1} /\ Len(f) + 1 \notin RowsOf(f)
             /\ g[Len(f) + 1] = x /\ \A i \in RowsOf(f) : g[i] = f[i]
<1>1. x # Newline
  BY GateAssumption
<1> QED
  BY <1>1 DEF RowsOf

LEMMA NewlineMore ==
  ASSUME NEW f \in Seq(Rows \cup {Newline})
  PROVE  LET g == Append(f, Newline)
         IN  g \in Seq(Rows \cup {Newline}) /\ RowsOf(g) = RowsOf(f) /\ \A i \in RowsOf(f) : g[i] = f[i]
BY DEF RowsOf

LEMMA SameWritten ==
  ASSUME NEW f, NEW g, RowsOf(g) = RowsOf(f), \A i \in RowsOf(f) : g[i] = f[i]
  PROVE  \A id : PlacesOf(g, id) = PlacesOf(f, id) /\ WrittenCases(g, id) = WrittenCases(f, id)
<1>1. \A id : PlacesOf(g, id) = PlacesOf(f, id)
  BY DEF PlacesOf
<1> QED
  BY <1>1 DEF WrittenCases, PlacesOf

\* The rows of a run are one for each of its cases.
LEMMA CasesInOrder ==
  ASSUME NEW S \in SUBSET Cases
  PROVE  /\ SetToSeq(S) \in [1 .. Cardinality(S) -> S] /\ IsInjective(SetToSeq(S))
         /\ Cardinality(S) \in Nat /\ \A k \in S : \E n \in 1 .. Cardinality(S) : SetToSeq(S)[n] = k
<1> DEFINE m == Cardinality(S)
           Q == [1 .. m -> S]
<1>1. IsFiniteSet(S) /\ m \in Nat
  BY GateAssumption, FS_Subset, FS_CardinalityType
<1>2. \E f \in Q : IsInjective(f)
  <2>1. PICK n \in Nat : ExistsBijection(1 .. n, S)
    BY <1>1, FS_NatBijection
  <2>2. n = m
    BY <2>1, FS_CountingElements
  <2>3. PICK f \in Bijection(1 .. n, S) : TRUE
    BY <2>1 DEF ExistsBijection
  <2> QED
    BY <2>2, <2>3 DEF Bijection, Injection
<1>3. SetToSeq(S) \in Q /\ IsInjective(SetToSeq(S))
  <2> HIDE DEF Q
  <2>1. SetToSeq(S) = CHOOSE f \in Q : IsInjective(f)
    BY DEF SetToSeq, Q
  <2> QED
    BY <1>2, <2>1
<1> DEFINE f == SetToSeq(S)
<1> HIDE DEF f
<1>4. f \in Injection(1 .. m, S)
  BY <1>3 DEF f, Injection
<1>5. IsFiniteSet(1 .. m) /\ Cardinality(1 .. m) = m
  BY <1>1, FS_Interval
<1>6. f \in Surjection(1 .. m, S)
  <2> HIDE DEF m
  <2> QED
    BY <1>1, <1>4, <1>5, FS_Injection DEF m
<1>7. \A k \in S : \E n \in 1 .. m : f[n] = k
  BY <1>6 DEF Surjection
<1> QED
  BY <1>1, <1>3, <1>7 DEF f

OneRowEach(rows, p) ==
  /\ rows \in Seq(Rows) /\ Len(rows) = Cardinality(p.cases) /\ rows # <<>> /\ DOMAIN rows = 1 .. Cardinality(p.cases)
  /\ \A n \in DOMAIN rows : RowOf(rows[n], p)
  /\ \A n, m \in DOMAIN rows : rows[n].case = rows[m].case => n = m
  /\ CasesLeft(rows) = p.cases

LEMMA RowsOfRun ==
  ASSUME NEW version \in Versions, NEW S \in (SUBSET Cases) \ {{}}, NEW passed \in SUBSET S, NEW at \in Nat
  PROVE  OneRowEach(RowsFor(version, S, passed, at), Report(at, version, S, passed))
<1> DEFINE rows == RowsFor(version, S, passed, at)
           f == SetToSeq(S)
           k == Cardinality(S)
<1>1. f \in [1 .. k -> S] /\ IsInjective(f) /\ k \in Nat /\ \A c \in S : \E n \in 1 .. k : f[n] = c
  BY CasesInOrder
<1>2. Cardinality(Cases) \in Nat
  BY GateAssumption, FS_CardinalityType
<1>3. DOMAIN rows = 1 .. k
  BY <1>1 DEF RowsFor
<1>4. ASSUME NEW n \in 1 .. k
      PROVE  /\ rows[n] = [case |-> f[n], version |-> version, runId |-> at, status |-> IF f[n] \in passed THEN "pass" ELSE "fail",
                           caseCount |-> k, suiteCaseCount |-> Cardinality(Cases), assertionCount |-> k]
             /\ f[n] \in S
  BY <1>1 DEF RowsFor
<1> HIDE DEF k, f, rows
<1>5. ASSUME NEW n \in 1 .. k PROVE rows[n] \in Rows /\ rows[n].case = f[n] /\ RowOf(rows[n], Report(at, version, S, passed))
  <2> DEFINE x == rows[n]
             p == Report(at, version, S, passed)
  <2>1. x = [case |-> f[n], version |-> version, runId |-> at, status |-> IF f[n] \in passed THEN "pass" ELSE "fail",
             caseCount |-> k, suiteCaseCount |-> Cardinality(Cases), assertionCount |-> k] /\ f[n] \in S
    BY <1>4
  <2>2. p.id = at /\ p.version = version /\ p.cases = S /\ p.passed = passed
    BY DEF Report
  <2> HIDE DEF x, p
  <2>3. /\ x.case = f[n] /\ x.version = version /\ x.runId = at /\ x.caseCount = k /\ x.suiteCaseCount = Cardinality(Cases)
        /\ x.assertionCount = k /\ x.status = IF f[n] \in passed THEN "pass" ELSE "fail"
    BY <2>1
  <2>4. x \in Rows
    BY <1>1, <1>2, <2>1 DEF Rows
  <2>5. RowOf(x, p)
    BY <2>1, <2>2, <2>3 DEF RowOf, k
  <2> QED
    BY <2>3, <2>4, <2>5 DEF x, p
<1>6. rows \in Seq(Rows) /\ Len(rows) = k
  <2>1. rows = [n \in 1 .. k |-> rows[n]]
    <3>1. rows \in [1 .. k -> Rows]
      BY <1>3, <1>5 DEF rows, RowsFor
    <3> QED
      BY <3>1
  <2>2. \A n \in 1 .. k : rows[n] \in Rows
    BY <1>5
  <2> QED
    BY <1>1, <2>1, <2>2
<1>7. k # 0
  <2>1. IsFiniteSet(S)
    BY GateAssumption, FS_Subset
  <2> QED
    BY <2>1, FS_EmptySet DEF k
<1>8. \A n, m \in 1 .. k : rows[n].case = rows[m].case => n = m
  BY <1>1, <1>5 DEF IsInjective
<1>9. CasesLeft(rows) = S
  BY <1>1, <1>3, <1>4, <1>5 DEF CasesLeft
<1>10. rows # <<>>
  BY <1>6, <1>7
<1>11. Report(at, version, S, passed).cases = S
  BY DEF Report
<1> QED
  BY <1>3, <1>5, <1>6, <1>8, <1>9, <1>10, <1>11 DEF OneRowEach, rows, k

\* A writer that a step leaves alone stays as it is.
LEMMA OtherWriter ==
  ASSUME NEW q \in Runs, WriterInv(q),
         Found(q)' = Found(q), run'[q].rows = run[q].rows, run'[q].pc = run[q].pc,
         run'[q].cases = run[q].cases, run'[q].id = run[q].id,
         run'[q].alone => run[q].alone /\ clock' = clock,
         reports \subseteq reports', WrittenCases(file', run[q].id) = WrittenCases(file, run[q].id)
  PROVE  WriterInv(q)'
<1> DEFINE rows == run[q].rows
<1>1. (Found(q) \in reports)'
  BY DEF WriterInv
<1>2. (\A n \in DOMAIN rows : RowOf(rows[n], Found(q)))'
  BY DEF WriterInv
<1>3. (\A n, m \in DOMAIN rows : rows[n].case = rows[m].case => n = m)'
  BY DEF WriterInv
<1>4. (CasesLeft(rows) \cap WrittenCases(file, run[q].id) = {})' /\ (run[q].cases \subseteq CasesLeft(rows) \cup WrittenCases(file, run[q].id))'
  BY DEF WriterInv
<1>5. (run[q].alone => run[q].id = clock - 1)' /\ (run[q].pc = "row" => rows # <<>>)'
  BY DEF WriterInv
<1> QED
  BY <1>1, <1>2, <1>3, <1>4, <1>5 DEF WriterInv

LEMMA FreshState ==
  Fresh \in RunStates /\ Fresh.pc = "idle"
BY DEF Fresh, RunStates

\* A run that is done, or dies, while the others go on and the file is read as before.
LEMMA RunEnds ==
  ASSUME GateInv, NEW r \in Writing, run' = [run EXCEPT ![r] = Fresh], UNCHANGED <<suite, clock, reports>>,
         file' \in Seq(Rows \cup {Newline}), RowsOf(file') = RowsOf(file), \A i \in RowsOf(file) : file'[i] = file[i]
  PROVE  /\ GateTypes' /\ ReportsInv' /\ FileInv(file)' /\ RunsInv' /\ Writing' = Writing \ {r}
         /\ \A id : WrittenCases(file', id) = WrittenCases(file, id)
<1> USE DEF GateInv
<1>0. r \in Runs /\ \A q \in Writing : q \in Runs
  BY DEF Writing
<1>1. run'[r] = Fresh /\ run' \in [Runs -> RunStates] /\ \A q \in Runs \ {r} : run'[q] = run[q]
  BY <1>0, FreshState DEF GateTypes
<1>2. GateTypes'
  BY <1>1 DEF GateTypes
<1>3. ReportsInv'
  BY DEF ReportsInv
<1>4. FileInv(file)'
  BY DEF FileInv
<1>5. Writing' = Writing \ {r}
  BY <1>0, <1>1, FreshState DEF Writing
<1>6. \A id : WrittenCases(file', id) = WrittenCases(file, id)
  BY SameWritten
<1>7. ASSUME NEW q \in Writing \ {r} PROVE WriterInv(q)'
  <2>1. q \in Runs /\ run'[q] = run[q] /\ WriterInv(q)
    BY <1>0, <1>1, <1>7 DEF RunsInv
  <2>2. Found(q)' = Found(q)
    BY <2>1 DEF Found
  <2> QED
    BY <1>6, <2>1, <2>2, OtherWriter
<1>8. \A q, s \in Writing \ {r} : run'[q].id = run'[s].id => q = s
  BY <1>0, <1>1 DEF RunsInv
<1>9. \A q \in Runs : run'[q].pc = "loaded" => run'[q].version \in Versions /\ run'[q].cases # {}
  BY <1>1, FreshState DEF RunsInv
<1>10. RunsInv'
  BY <1>5, <1>7, <1>8, <1>9 DEF RunsInv
<1> QED
  BY <1>2, <1>3, <1>4, <1>5, <1>6, <1>10

LEMMA EvaluateStep ==
  ASSUME GateInv, NEW r \in Runs, Evaluate(r) PROVE GateInv'
<1> USE DEF GateInv
<1>0. GateTypes /\ run[r].pc = "loaded" /\ r \notin Writing /\ \A q \in Writing : q \in Runs /\ q # r
  BY DEF Evaluate, Writing
<1>1. PICK passed \in SUBSET run[r].cases :
        /\ run' = [q \in Runs |->
             IF q = r
               THEN [run[r] EXCEPT !.pc = "row", !.passed = passed, !.id = clock, !.alone = Writing = {},
                       !.rows = RowsFor(run[r].version, run[r].cases, passed, clock)]
               ELSE [run[q] EXCEPT !.alone = q \notin Writing]]
        /\ reports' = reports \cup {Report(clock, run[r].version, run[r].cases, passed)}
  BY Zenon DEF Evaluate
<1>2. clock' = clock + 1 /\ last' = None /\ UNCHANGED <<suite, file>>
  BY DEF Evaluate
<1> DEFINE version == run[r].version
           cases == run[r].cases
           rows == RowsFor(version, cases, passed, clock)
           p == Report(clock, version, cases, passed)
<1>3. version \in Versions /\ cases \in (SUBSET Cases) \ {{}} /\ clock \in Nat
  BY <1>0 DEF GateTypes, RunStates, RunsInv
<1>4. /\ rows \in Seq(Rows) /\ rows # <<>>
      /\ \A n \in DOMAIN rows : RowOf(rows[n], p)
      /\ \A n, m \in DOMAIN rows : rows[n].case = rows[m].case => n = m
      /\ CasesLeft(rows) = cases
  <2>1. passed \in SUBSET cases
    OBVIOUS
  <2> HIDE DEF version, cases
  <2>2. OneRowEach(rows, p)
    BY <1>3, <2>1, RowsOfRun
  <2>3. p.cases = cases
    BY DEF Report
  <2> QED
    BY <2>2, <2>3, Zenon DEF OneRowEach
<1>5. p \in Reports /\ p.id = clock
  BY <1>3 DEF Report, Reports
<1>6. ReportsInv'
  <2>1. \A q \in reports' : q.id < clock'
    <3>1. \A q \in reports : q.id < clock /\ q.id \in Nat
      BY DEF ReportsInv, Reports
    <3> HIDE DEF p
    <3>2. reports' = reports \cup {p}
      BY <1>1 DEF p
    <3>3. \A q \in reports : q.id < clock + 1
      BY <1>3, <3>1
    <3>4. p.id < clock + 1
      BY <1>3, <1>5
    <3> QED
      BY <1>2, <3>2, <3>3, <3>4
  <2>2. \A q, s \in reports' : q.id = s.id => q = s
    <3>1. \A q \in reports : q.id < clock /\ q.id \in Nat
      BY DEF ReportsInv, Reports
    <3>2. \A q \in reports : q.id # clock
      BY <1>3, <3>1
    <3> HIDE DEF p
    <3>3. reports' = reports \cup {p}
      BY <1>1 DEF p
    <3> QED
      BY <1>5, <3>2, <3>3 DEF ReportsInv
  <2>3. reports' \subseteq Reports
    BY <1>1, <1>5 DEF ReportsInv
  <2> QED
    BY <2>1, <2>2, <2>3 DEF ReportsInv
<1>7. FileInv(file)'
  BY <1>1, <1>2 DEF FileInv
<1> HIDE DEF rows
<1>8. /\ run'[r] \in RunStates /\ run'[r].pc = "row" /\ run'[r].passed = passed /\ run'[r].id = clock
      /\ run'[r].rows = rows /\ run'[r].version = version /\ run'[r].cases = cases
  <2>1. run'[r] = [run[r] EXCEPT !.pc = "row", !.passed = passed, !.id = clock, !.alone = Writing = {}, !.rows = rows]
    BY <1>1, Zenon DEF rows
  <2>2. (Writing = {}) \in BOOLEAN
    OBVIOUS
  <2>3. run[r] \in RunStates
    BY <1>0 DEF GateTypes
  <2> QED
    BY <1>3, <1>4, <2>1, <2>2, <2>3 DEF RunStates
<1>9. ASSUME NEW q \in Runs \ {r}
      PROVE  /\ run'[q] \in RunStates /\ run'[q].pc = run[q].pc /\ run'[q].passed = run[q].passed /\ run'[q].id = run[q].id
             /\ run'[q].rows = run[q].rows /\ run'[q].version = run[q].version /\ run'[q].cases = run[q].cases
             /\ run'[q].alone = (q \notin Writing)
  <2>1. run'[q] = [run[q] EXCEPT !.alone = q \notin Writing]
    BY <1>1, Zenon
  <2>2. (q \notin Writing) \in BOOLEAN
    OBVIOUS
  <2>3. run[q] \in RunStates
    BY <1>0 DEF GateTypes
  <2> QED
    BY <2>1, <2>2, <2>3 DEF RunStates
<1>10. GateTypes'
  <2>1. run' \in [Runs -> RunStates]
    <3>1. \A q \in Runs : run'[q] \in RunStates
      BY <1>8, <1>9
    <3>2. DOMAIN run' = Runs /\ run' = [q \in Runs |-> run'[q]]
      BY <1>1
    <3> QED
      BY <3>1, <3>2
  <2> QED
    BY <1>2, <2>1 DEF GateTypes
<1>11. Writing' = Writing \cup {r}
  BY <1>0, <1>8, <1>9 DEF Writing
<1>12. WrittenCases(file, clock) = {}
  <2>1. \A i \in RowsOf(file) : file[i].runId # clock
    BY <1>3 DEF FileInv, RowOf, ReportsInv, Reports
  <2> QED
    BY <2>1 DEF WrittenCases, PlacesOf
<1>13. WriterInv(r)'
  <2>1. Found(r)' = p
    BY <1>8 DEF Found, Report
  <2>2. p \in reports'
    BY <1>1
  <2> HIDE DEF p
  <2>3. (run[r].alone => run[r].id = clock - 1)'
    BY <1>2, <1>3, <1>8
  <2> QED
    BY <1>2, <1>4, <1>8, <1>12, <2>1, <2>2, <2>3 DEF WriterInv
<1>14. ASSUME NEW q \in Writing PROVE WriterInv(q)'
  <2>1. q \in Runs \ {r} /\ WriterInv(q)
    BY <1>0 DEF RunsInv
  <2>2. Found(q)' = Found(q)
    BY <1>9, <2>1 DEF Found
  <2>3. ~run'[q].alone
    BY <1>9, <2>1
  <2> QED
    BY <1>1, <1>2, <1>9, <2>1, <2>2, <2>3, OtherWriter
<1>15. ASSUME NEW q \in Writing PROVE run'[q].id = run[q].id /\ run[q].id # clock
  <2>1. q \in Runs \ {r} /\ Found(q) \in reports
    BY <1>0 DEF RunsInv, WriterInv
  <2>2. Found(q).id = run[q].id
    BY DEF Found, Report
  <2> QED
    BY <1>3, <1>9, <2>1, <2>2 DEF ReportsInv, Reports
<1>16. \A q, s \in Writing' : run'[q].id = run'[s].id => q = s
  BY <1>8, <1>11, <1>15 DEF RunsInv
<1>17. \A q \in Runs : run'[q].pc = "loaded" => run'[q].version \in Versions /\ run'[q].cases # {}
  BY <1>8, <1>9 DEF RunsInv
<1>18. RunsInv'
  BY <1>11, <1>13, <1>14, <1>16, <1>17 DEF RunsInv
<1> QED
  BY <1>2, <1>6, <1>7, <1>10, <1>18 DEF LastInv

LEMMA WriteRowStep ==
  ASSUME GateInv, NEW r \in Runs, WriteRow(r) PROVE GateInv'
<1> USE DEF GateInv
<1> DEFINE rows == run[r].rows
           x == Head(rows)
           id == run[r].id
<1>0. /\ GateTypes /\ run[r].pc = "row" /\ r \in Writing /\ UNCHANGED <<suite, clock, reports, last>> /\ file' = Append(file, x)
      /\ run' = [run EXCEPT ![r].pc = "newline", ![r].rows = Tail(@)]
      /\ \A q \in Writing : q \in Runs
  BY DEF WriteRow, Writing
<1>1. rows \in Seq(Rows) /\ rows # <<>> /\ WriterInv(r) /\ run[r] \in RunStates
  BY <1>0 DEF RunsInv, WriterInv, GateTypes, RunStates
<1>2. /\ run'[r] \in RunStates /\ run'[r].pc = "newline" /\ run'[r].rows = Tail(rows) /\ run'[r].id = id
      /\ run'[r].version = run[r].version /\ run'[r].cases = run[r].cases /\ run'[r].passed = run[r].passed /\ run'[r].alone = run[r].alone
  <2>1. Tail(rows) \in Seq(Rows)
    BY <1>1
  <2>2. run'[r] = [run[r] EXCEPT !.pc = "newline", !.rows = Tail(rows)]
    BY <1>0 DEF GateTypes
  <2> QED
    BY <1>1, <2>1, <2>2 DEF RunStates
<1>3. run' \in [Runs -> RunStates] /\ \A q \in Runs \ {r} : run'[q] = run[q]
  BY <1>0, <1>2 DEF GateTypes
<1> HIDE DEF rows
<1>4. /\ x \in Rows /\ Tail(rows) \in Seq(Rows) /\ Len(rows) \in Nat /\ DOMAIN rows = 1 .. Len(rows) /\ 1 \in DOMAIN rows
      /\ x = rows[1] /\ DOMAIN Tail(rows) = 1 .. (Len(rows) - 1)
      /\ \A n \in 1 .. (Len(rows) - 1) : Tail(rows)[n] = rows[n + 1] /\ n + 1 \in DOMAIN rows
  BY <1>1
<1>5. /\ Found(r) \in reports /\ RowOf(x, Found(r)) /\ x.case \in CasesLeft(rows)
      /\ CasesLeft(rows) \cap WrittenCases(file, id) = {} /\ run[r].cases \subseteq CasesLeft(rows) \cup WrittenCases(file, id)
      /\ \A n, m \in DOMAIN rows : rows[n].case = rows[m].case => n = m
      /\ \A n \in DOMAIN rows : RowOf(rows[n], Found(r))
  BY <1>1, <1>4 DEF WriterInv, CasesLeft, rows
<1>6. x.runId = id
  BY <1>5 DEF RowOf, Found, Report
<1> HIDE DEF x
<1>7. /\ file' \in Seq(Rows \cup {Newline}) /\ RowsOf(file') = RowsOf(file) \cup {Len(file) + 1} /\ Len(file) + 1 \notin RowsOf(file)
      /\ file'[Len(file) + 1] = x /\ \A i \in RowsOf(file) : file'[i] = file[i]
  <2>1. file \in Seq(Rows \cup {Newline}) /\ x \in Rows /\ file' = Append(file, x)
    BY <1>0, <1>4 DEF GateTypes
  <2> QED
    BY <2>1, RowMore
<1>8. WrittenCases(file', id) = WrittenCases(file, id) \cup {x.case}
  BY <1>6, <1>7 DEF WrittenCases, PlacesOf
<1>9. \A k : k # id => WrittenCases(file', k) = WrittenCases(file, k)
  BY <1>6, <1>7 DEF WrittenCases, PlacesOf
<1>10. CasesLeft(rows) = CasesLeft(Tail(rows)) \cup {x.case} /\ x.case \notin CasesLeft(Tail(rows))
  <2>1. \A n \in DOMAIN rows : n = 1 \/ (n - 1 \in 1 .. (Len(rows) - 1) /\ rows[n] = Tail(rows)[n - 1])
    BY <1>4
  <2>2. \A n \in DOMAIN Tail(rows) : Tail(rows)[n].case # x.case
    <3> TAKE n \in DOMAIN Tail(rows)
    <3>1. n + 1 \in DOMAIN rows /\ n + 1 # 1 /\ Tail(rows)[n] = rows[n + 1]
      BY <1>4
    <3> QED
      BY <1>4, <1>5, <3>1
  <2>3. \A n \in DOMAIN rows : rows[n].case \in CasesLeft(Tail(rows)) \cup {x.case}
    BY <1>4, <2>1 DEF CasesLeft
  <2>4. \A n \in DOMAIN Tail(rows) : Tail(rows)[n].case \in CasesLeft(rows)
    BY <1>4 DEF CasesLeft
  <2>5. x.case \notin CasesLeft(Tail(rows))
    BY <2>2 DEF CasesLeft
  <2> QED
    BY <1>5, <2>3, <2>4, <2>5 DEF CasesLeft
<1>11. ReportsInv' /\ GateTypes'
  BY <1>0, <1>3, <1>7 DEF ReportsInv, GateTypes
<1>12. FileInv(file)'
  <2>1. \A i \in RowsOf(file') : \E p \in reports : RowOf(file'[i], p)
    BY <1>5, <1>7 DEF FileInv
  <2>2. ASSUME NEW i \in RowsOf(file) PROVE ~(file[i].runId = x.runId /\ file[i].case = x.case)
    BY <1>5, <1>6 DEF WrittenCases, PlacesOf
  <2>3. \A i, j \in RowsOf(file') : file'[i].runId = file'[j].runId /\ file'[i].case = file'[j].case => i = j
    BY <1>7, <2>2 DEF FileInv
  <2> QED
    BY <1>0, <2>1, <2>3 DEF FileInv
<1>13. Writing' = Writing
  BY <1>0, <1>2, <1>3 DEF Writing
<1>14. WriterInv(r)'
  <2>1. Found(r)' = Found(r)
    BY <1>2 DEF Found
  <2>2. \A n \in DOMAIN Tail(rows) : RowOf(Tail(rows)[n], Found(r))
    BY <1>4, <1>5
  <2>3. \A n, m \in DOMAIN Tail(rows) : Tail(rows)[n].case = Tail(rows)[m].case => n = m
    <3> TAKE n, m \in DOMAIN Tail(rows)
    <3>1. n \in Int /\ m \in Int /\ n + 1 \in DOMAIN rows /\ m + 1 \in DOMAIN rows /\ Tail(rows)[n] = rows[n + 1] /\ Tail(rows)[m] = rows[m + 1]
      BY <1>4
    <3>2. rows[n + 1].case = rows[m + 1].case => n + 1 = m + 1
      BY <1>5, <3>1
    <3> QED
      BY <3>1, <3>2
  <2>4. CasesLeft(Tail(rows)) \cap WrittenCases(file', id) = {} /\ run[r].cases \subseteq CasesLeft(Tail(rows)) \cup WrittenCases(file', id)
    BY <1>5, <1>8, <1>10
  <2>5. run[r].alone => id = clock - 1
    BY <1>1 DEF WriterInv
  <2> QED
    BY <1>0, <1>2, <1>5, <2>1, <2>2, <2>3, <2>4, <2>5 DEF WriterInv
<1>15. ASSUME NEW q \in Writing \ {r} PROVE WriterInv(q)'
  <2>1. q \in Runs /\ run'[q] = run[q] /\ WriterInv(q) /\ run[q].id # id
    BY <1>0, <1>3 DEF RunsInv
  <2>2. Found(q)' = Found(q)
    BY <2>1 DEF Found
  <2> QED
    BY <1>0, <1>9, <2>1, <2>2, OtherWriter
<1>16. \A q, s \in Writing : run'[q].id = run'[s].id => q = s
  BY <1>0, <1>2, <1>3 DEF RunsInv
<1>17. \A q \in Runs : run'[q].pc = "loaded" => run'[q].version \in Versions /\ run'[q].cases # {}
  BY <1>2, <1>3 DEF RunsInv
<1>18. RunsInv'
  BY <1>13, <1>14, <1>15, <1>16, <1>17 DEF RunsInv
<1>19. LastInv'
  BY <1>0 DEF LastInv
<1> QED
  BY <1>11, <1>12, <1>18, <1>19

LEMMA WriteNewlineStep ==
  ASSUME GateInv, Retention = None, NEW r \in Runs, WriteNewline(r) PROVE GateInv'
<1> USE DEF GateInv
<1> DEFINE rows == run[r].rows
<1>0. /\ GateTypes /\ run[r].pc = "newline" /\ r \in Writing /\ UNCHANGED <<suite, clock, reports>> /\ file' = Append(file, Newline)
      /\ \A q \in Writing : q \in Runs
  BY DEF WriteNewline, Writing
<1>1. file' \in Seq(Rows \cup {Newline}) /\ RowsOf(file') = RowsOf(file) /\ \A i \in RowsOf(file) : file'[i] = file[i]
  <2>1. file \in Seq(Rows \cup {Newline})
    BY <1>0 DEF GateTypes
  <2> QED
    BY <1>0, <2>1, NewlineMore
<1>2. WriterInv(r) /\ run[r] \in RunStates
  BY <1>0 DEF RunsInv, GateTypes
<1>3. CASE rows = <<>>
  <2>1. run' = [run EXCEPT ![r] = Fresh] /\ Finished(r)
    BY <1>3 DEF WriteNewline
  <2>2. /\ GateTypes' /\ ReportsInv' /\ FileInv(file)' /\ RunsInv' /\ Writing' = Writing \ {r}
        /\ \A id : WrittenCases(file', id) = WrittenCases(file, id)
    BY <1>0, <1>1, <2>1, RunEnds
  <2>3. LastInv'
    <3>1. SUFFICES ASSUME last' # None PROVE LastInv'
      BY DEF LastInv
    <3>2. run[r].alone /\ Writing = {r} /\ last' = Found(r)
      BY <2>1, <3>1 DEF Finished
    <3>3. Found(r) \in reports /\ run[r].id = clock - 1 /\ run[r].cases \subseteq CasesLeft(rows) \cup WrittenCases(file, run[r].id)
      BY <1>2, <3>2 DEF WriterInv
    <3>4. CasesLeft(rows) = {}
      BY <1>3 DEF CasesLeft
    <3>5. Found(r).id = run[r].id /\ Found(r).cases = run[r].cases
      BY DEF Found, Report
    <3> HIDE DEF rows
    <3> QED
      BY <1>0, <2>2, <3>2, <3>3, <3>4, <3>5 DEF LastInv
  <2> QED
    BY <2>2, <2>3
<1>4. CASE rows # <<>>
  <2>1. run' = [run EXCEPT ![r].pc = "row"] /\ last' = last
    BY <1>4 DEF WriteNewline
  <2>2. run'[r] = [run[r] EXCEPT !.pc = "row"] /\ \A q \in Runs \ {r} : run'[q] = run[q]
    BY <1>0, <2>1 DEF GateTypes
  <2>3. /\ run'[r] \in RunStates /\ run'[r].pc = "row" /\ run'[r].rows = rows /\ run'[r].id = run[r].id
        /\ run'[r].version = run[r].version /\ run'[r].cases = run[r].cases /\ run'[r].passed = run[r].passed /\ run'[r].alone = run[r].alone
    BY <1>2, <2>2 DEF RunStates
  <2>4. run' \in [Runs -> RunStates]
    BY <1>0, <2>1, <2>3 DEF GateTypes
  <2>5. GateTypes' /\ ReportsInv'
    BY <1>0, <1>1, <2>4 DEF GateTypes, ReportsInv
  <2>6. FileInv(file)'
    BY <1>0, <1>1 DEF FileInv
  <2>7. Writing' = Writing
    BY <1>0, <2>2, <2>3 DEF Writing
  <2>8. \A id : WrittenCases(file', id) = WrittenCases(file, id)
    BY <1>1, SameWritten
  <2>9. WriterInv(r)'
    <3>1. Found(r)' = Found(r)
      BY <2>3 DEF Found
    <3> QED
      BY <1>0, <1>2, <1>4, <2>3, <2>8, <3>1 DEF WriterInv
  <2>10. ASSUME NEW q \in Writing \ {r} PROVE WriterInv(q)'
    <3>1. q \in Runs /\ run'[q] = run[q] /\ WriterInv(q)
      BY <1>0, <2>2 DEF RunsInv
    <3>2. Found(q)' = Found(q)
      BY <3>1 DEF Found
    <3> QED
      BY <1>0, <2>8, <3>1, <3>2, OtherWriter
  <2>11. \A q, s \in Writing : run'[q].id = run'[s].id => q = s
    <3>1. \A q \in Writing : run'[q].id = run[q].id
      BY <1>0, <2>2, <2>3
    <3> QED
      BY <3>1 DEF RunsInv
  <2>12. \A q \in Runs : run'[q].pc = "loaded" => run'[q].version \in Versions /\ run'[q].cases # {}
    BY <2>2, <2>3 DEF RunsInv
  <2>13. RunsInv'
    BY <2>7, <2>9, <2>10, <2>11, <2>12 DEF RunsInv
  <2>14. LastInv'
    BY <1>0, <2>1 DEF LastInv
  <2> QED
    BY <2>5, <2>6, <2>13, <2>14
<1> QED
  BY <1>3, <1>4

LEMMA LoadStep ==
  ASSUME GateInv, NEW r \in Runs, Load(r) PROVE GateInv'
<1> USE DEF GateInv
<1>0. /\ GateTypes /\ run[r].pc = "idle" /\ suite # None /\ UNCHANGED <<suite, clock, file, reports, last>>
      /\ r \notin Writing /\ \A q \in Writing : q \in Runs /\ q # r
  BY DEF Load, Writing
<1>1. PICK chosen \in Selections : run' = [run EXCEPT ![r].pc = "loaded", ![r].version = suite, ![r].cases = chosen]
  BY DEF Load
<1>2. chosen \subseteq Cases /\ chosen # {} /\ suite \in Versions
  BY <1>0, GateAssumption DEF GateTypes
<1>3. run'[r] = [run[r] EXCEPT !.pc = "loaded", !.version = suite, !.cases = chosen] /\ \A q \in Runs \ {r} : run'[q] = run[q]
  BY <1>0, <1>1 DEF GateTypes
<1>4. run[r] \in RunStates
  BY <1>0 DEF GateTypes
<1>5. run'[r] \in RunStates /\ run'[r].pc = "loaded" /\ run'[r].version = suite /\ run'[r].cases = chosen
  BY <1>2, <1>3, <1>4 DEF RunStates
<1>6. run' \in [Runs -> RunStates]
  BY <1>0, <1>1, <1>5 DEF GateTypes
<1>7. GateTypes' /\ ReportsInv' /\ FileInv(file)'
  BY <1>0, <1>6 DEF GateTypes, ReportsInv, FileInv
<1>8. Writing' = Writing
  BY <1>0, <1>3, <1>5 DEF Writing
<1>9. ASSUME NEW q \in Writing PROVE WriterInv(q)' /\ run'[q] = run[q]
  <2>1. q \in Runs /\ run'[q] = run[q] /\ WriterInv(q)
    BY <1>0, <1>3 DEF RunsInv
  <2>2. Found(q)' = Found(q)
    BY <2>1 DEF Found
  <2> QED
    BY <1>0, <2>1, <2>2, OtherWriter
<1>10. \A q \in Runs : run'[q].pc = "loaded" => run'[q].version \in Versions /\ run'[q].cases # {}
  BY <1>2, <1>3, <1>5 DEF RunsInv
<1>11. RunsInv'
  BY <1>8, <1>9, <1>10 DEF RunsInv
<1>12. LastInv'
  BY <1>0, <1>8 DEF LastInv
<1> QED
  BY <1>7, <1>11, <1>12

LEMMA CrashStep ==
  ASSUME GateInv, NEW r \in Runs, Crash(r) PROVE GateInv'
<1> USE DEF GateInv
<1>1. r \in Writing /\ run' = [run EXCEPT ![r] = Fresh] /\ UNCHANGED <<suite, clock, file, reports, last>>
  BY DEF Crash
<1>2. file' \in Seq(Rows \cup {Newline}) /\ RowsOf(file') = RowsOf(file) /\ \A i \in RowsOf(file) : file'[i] = file[i]
  BY <1>1 DEF GateTypes
<1>3. GateTypes' /\ ReportsInv' /\ FileInv(file)' /\ RunsInv'
  BY <1>1, <1>2, RunEnds
<1>4. last = None
  BY <1>1 DEF LastInv
<1> QED
  BY <1>1, <1>3, <1>4 DEF LastInv

\* Nothing of the eval runs changes what the gate relies on, as long as no run
\* cuts the file.
LEMMA GateStep ==
  ASSUME Retention = None PROVE GateInv /\ [EvalNext]_evalVars => GateInv'
<1> SUFFICES ASSUME GateInv, [EvalNext]_evalVars PROVE GateInv'
  OBVIOUS
<1>1. CASE Edit
  <2>1. suite' \in Versions \cup {None} /\ last' = None /\ UNCHANGED <<clock, file, run, reports>>
    BY <1>1 DEF Edit
  <2>2. Writing' = Writing
    BY <2>1 DEF Writing
  <2>3. ASSUME NEW q \in Writing PROVE WriterInv(q)'
    <3>1. q \in Runs /\ WriterInv(q)
      BY DEF GateInv, RunsInv, Writing
    <3>2. Found(q)' = Found(q)
      BY <2>1 DEF Found
    <3> QED
      BY <2>1, <3>1, <3>2, OtherWriter
  <2>4. RunsInv'
    BY <2>1, <2>2, <2>3 DEF GateInv, RunsInv
  <2>5. GateTypes' /\ ReportsInv' /\ FileInv(file)'
    BY <2>1 DEF GateInv, GateTypes, ReportsInv, FileInv
  <2> QED
    BY <2>1, <2>4, <2>5 DEF GateInv, LastInv
<1>2. ASSUME NEW r \in Runs, ReadForRetention(r) \/ Truncate(r) \/ Rewrite(r) PROVE FALSE
  <2>1. run[r].pc \in {"retain", "truncate", "rewrite"}
    BY <1>2, Zenon DEF ReadForRetention, Truncate, Rewrite
  <2>2. run[r] \in RunStates
    BY DEF GateInv, GateTypes
  <2> QED
    BY <2>1, <2>2 DEF RunStates
<1>3. CASE UNCHANGED evalVars
  <2>1. UNCHANGED <<suite, clock, file, run, reports, last>>
    BY <1>3 DEF evalVars
  <2>2. Writing' = Writing
    BY <2>1 DEF Writing
  <2>3. ASSUME NEW q \in Writing PROVE WriterInv(q)'
    <3>1. q \in Runs /\ WriterInv(q)
      BY DEF GateInv, RunsInv, Writing
    <3>2. Found(q)' = Found(q)
      BY <2>1 DEF Found
    <3> QED
      BY <2>1, <3>1, <3>2, OtherWriter
  <2>4. RunsInv'
    BY <2>1, <2>2, <2>3 DEF GateInv, RunsInv
  <2>5. GateTypes' /\ ReportsInv' /\ FileInv(file)'
    BY <2>1 DEF GateInv, GateTypes, ReportsInv, FileInv
  <2> QED
    BY <2>1, <2>2, <2>4, <2>5 DEF GateInv, LastInv
<1> QED
  BY <1>1, <1>2, <1>3, LoadStep, EvaluateStep, WriteRowStep, WriteNewlineStep, CrashStep, Zenon DEF EvalNext

LEMMA GateInitially == EvalInit => GateInv
<1> SUFFICES ASSUME EvalInit PROVE GateInv
  OBVIOUS
<1>1. PICK passed \in {{}, Cases} :
        /\ reports = {Report(0, suite, Cases, passed)}
        /\ file = [i \in 1 .. 2 * Cardinality(Cases) |->
                    IF i % 2 = 0 THEN Newline ELSE RowsFor(suite, Cases, passed, 0)[(i + 1) \div 2]]
  BY DEF EvalInit
<1> DEFINE n == Cardinality(Cases)
           p == Report(0, suite, Cases, passed)
           rows == RowsFor(suite, Cases, passed, 0)
<1>2. suite \in Versions /\ clock = 1 /\ run = [r \in Runs |-> Fresh] /\ last = None
  BY DEF EvalInit
<1>3. n \in Nat /\ Cases \in (SUBSET Cases) \ {{}} /\ passed \in SUBSET Cases
  BY GateAssumption, FS_CardinalityType
<1>4. OneRowEach(rows, p)
  BY <1>2, <1>3, RowsOfRun
<1>5. p.id = 0 /\ p.version = suite /\ p.cases = Cases /\ p.passed = passed
  BY DEF Report
<1>6. p \in Reports
  BY <1>2, <1>3 DEF Report, Reports
<1> HIDE DEF p, rows, n
<1>7. reports = {p} /\ file = [i \in 1 .. 2 * n |-> IF i % 2 = 0 THEN Newline ELSE rows[(i + 1) \div 2]]
  BY <1>1 DEF p, rows, n
<1>8. /\ \A k \in 1 .. n : rows[k] \in Rows /\ RowOf(rows[k], p)
      /\ \A k, m \in 1 .. n : rows[k].case = rows[m].case => k = m
  <2>1. DOMAIN rows = 1 .. n /\ rows \in Seq(Rows) /\ Len(rows) = n
    BY <1>4, <1>5 DEF OneRowEach, n
  <2> QED
    BY <1>4, <2>1 DEF OneRowEach
<1>9. \A i \in 1 .. 2 * n : i % 2 # 0 => (i + 1) \div 2 \in 1 .. n /\ i = 2 * ((i + 1) \div 2) - 1
  BY <1>3
<1>10. \A i \in 1 .. 2 * n : IF i % 2 = 0 THEN file[i] = Newline ELSE file[i] = rows[(i + 1) \div 2]
  BY <1>7
<1>11. file \in Seq(Rows \cup {Newline}) /\ DOMAIN file = 1 .. 2 * n
  <2>1. \A i \in 1 .. 2 * n : file[i] \in Rows \cup {Newline}
    <3> TAKE i \in 1 .. 2 * n
    <3>1. CASE i % 2 = 0
      BY <1>10, <3>1
    <3>2. CASE i % 2 # 0
      BY <1>8, <1>9, <1>10, <3>2
    <3> QED
      BY <3>1, <3>2
  <2>2. 2 * n \in Nat /\ file = [i \in 1 .. 2 * n |-> file[i]]
    BY <1>3, <1>7
  <2> QED
    BY <2>1, <2>2
<1>12. ASSUME NEW i \in RowsOf(file) PROVE i \in 1 .. 2 * n /\ i % 2 # 0 /\ file[i] = rows[(i + 1) \div 2] /\ RowOf(file[i], p)
  <2>1. i \in 1 .. 2 * n /\ file[i] # Newline
    BY <1>11 DEF RowsOf
  <2>2. i % 2 # 0 /\ file[i] = rows[(i + 1) \div 2]
    BY <1>10, <2>1
  <2> QED
    BY <1>8, <1>9, <2>1, <2>2
<1>13. FileInv(file)
  <2>1. ASSUME NEW i \in RowsOf(file), NEW j \in RowsOf(file), file[i].case = file[j].case PROVE i = j
    <3> DEFINE k == (i + 1) \div 2
               m == (j + 1) \div 2
    <3>1. k \in 1 .. n /\ m \in 1 .. n /\ i = 2 * k - 1 /\ j = 2 * m - 1 /\ file[i] = rows[k] /\ file[j] = rows[m]
      BY <1>9, <1>12
    <3> HIDE DEF k, m
    <3>2. k = m
      BY <1>8, <2>1, <3>1
    <3> QED
      BY <3>1, <3>2
  <2> QED
    BY <1>7, <1>12, <2>1 DEF FileInv
<1>14. \A r \in Runs : run[r] = Fresh
  BY <1>2
<1>15. GateTypes
  BY <1>2, <1>11, FreshState DEF GateTypes
<1>16. ReportsInv
  BY <1>2, <1>5, <1>6, <1>7 DEF ReportsInv
<1>17. Writing = {}
  BY <1>14, FreshState DEF Writing
<1>18. RunsInv
  BY <1>14, <1>17, FreshState DEF RunsInv
<1> QED
  BY <1>2, <1>13, <1>15, <1>16, <1>18 DEF GateInv, LastInv

\* The rows of the latest run are those of one report.
LEMMA LatestAreOneRun ==
  ASSUME GateInv, LatestRows(file) # {}
  PROVE  \E p \in reports : LatestRows(file) = PlacesOf(file, p.id)
<1> DEFINE rows == LatestRows(file)
<1>1. \A i \in RowsOf(file) : file[i].runId \in Nat
  BY DEF GateInv, FileInv, RowOf, ReportsInv, Reports
<1>2. PICK a \in rows : TRUE
  OBVIOUS
<1>3. a \in RowsOf(file) /\ \A j \in RowsOf(file) : file[j].runId <= file[a].runId
  BY DEF LatestRows
<1>4. PICK p \in reports : RowOf(file[a], p)
  BY <1>3 DEF GateInv, FileInv
<1>5. p.id = file[a].runId
  BY <1>4 DEF RowOf
<1>6. ASSUME NEW i \in RowsOf(file) PROVE i \in rows <=> file[i].runId = file[a].runId
  BY <1>1, <1>3 DEF LatestRows
<1>7. rows \subseteq RowsOf(file)
  BY DEF LatestRows
<1> HIDE DEF rows
<1>8. rows = PlacesOf(file, p.id)
  BY <1>5, <1>6, <1>7 DEF PlacesOf
<1> QED
  BY <1>8 DEF rows

\* What the rows of a report that are in the file count up to.
LEMMA CountedRows ==
  ASSUME GateInv, NEW p \in reports
  PROVE  LET rows == PlacesOf(file, p.id)
             pass == {i \in rows : file[i].status = "pass"}
         IN  /\ \A i \in rows : RowOf(file[i], p)
             /\ Cardinality(rows) \in Nat /\ Cardinality(pass) \in Nat
             /\ Cardinality(p.cases) \in Nat /\ Cardinality(p.passed) \in Nat
             /\ Cardinality(pass) <= Cardinality(p.passed)
             /\ p.cases \subseteq WrittenCases(file, p.id) =>
                  Cardinality(rows) = Cardinality(p.cases) /\ Cardinality(pass) = Cardinality(p.passed)
<1> DEFINE rows == PlacesOf(file, p.id)
           pass == {i \in rows : file[i].status = "pass"}
           all == p.cases \subseteq WrittenCases(file, p.id)
<1>1. p.cases \subseteq Cases /\ p.passed \subseteq p.cases /\ IsFiniteSet(p.cases) /\ IsFiniteSet(p.passed)
  <2>1. p.cases \in SUBSET Cases /\ p.passed \in SUBSET p.cases
    BY DEF GateInv, ReportsInv, Reports
  <2>2. IsFiniteSet(p.cases)
    BY <2>1, GateAssumption, FS_Subset
  <2> QED
    BY <2>1, <2>2, FS_Subset
<1>2. ASSUME NEW i \in rows PROVE i \in RowsOf(file) /\ file[i].runId = p.id /\ RowOf(file[i], p)
  <2>1. i \in RowsOf(file) /\ file[i].runId = p.id
    BY DEF PlacesOf
  <2>2. PICK q \in reports : RowOf(file[i], q)
    BY <2>1 DEF GateInv, FileInv
  <2>3. q = p
    BY <2>1, <2>2 DEF GateInv, ReportsInv, RowOf
  <2> QED
    BY <2>1, <2>2, <2>3
<1>3. \A i, j \in rows : file[i].case = file[j].case => i = j
  BY <1>2 DEF GateInv, FileInv
<1>4. \A i \in rows : file[i].case \in p.cases /\ (file[i].status = "pass" <=> file[i].case \in p.passed)
  BY <1>2 DEF RowOf
<1>5. all => \A c \in p.cases : \E i \in rows : file[i].case = c
  BY DEF WrittenCases
<1> HIDE DEF rows
<1> DEFINE f == [i \in rows |-> file[i].case]
           g == [i \in pass |-> file[i].case]
<1>6. f \in Injection(rows, p.cases)
  BY <1>3, <1>4 DEF Injection, IsInjective
<1>7. g \in Injection(pass, p.passed)
  <2>1. \A i \in pass : i \in rows /\ file[i].case \in p.passed
    BY <1>4
  <2> HIDE DEF pass
  <2> QED
    BY <1>3, <2>1 DEF Injection, IsInjective
<1>8. all => f \in Surjection(rows, p.cases)
  BY <1>4, <1>5 DEF Surjection
<1>9. all => g \in Surjection(pass, p.passed)
  <2> SUFFICES ASSUME all PROVE g \in Surjection(pass, p.passed)
    OBVIOUS
  <2>1. \A i \in pass : file[i].case \in p.passed
    BY <1>4
  <2>2. ASSUME NEW c \in p.passed PROVE \E i \in pass : file[i].case = c
    BY <1>1, <1>4, <1>5
  <2> HIDE DEF pass
  <2> QED
    BY <2>1, <2>2 DEF Surjection
<1> HIDE DEF f, g, pass, all
<1>10. IsFiniteSet(rows) /\ (all => Cardinality(rows) = Cardinality(p.cases))
  BY <1>1, <1>6, <1>8, FS_Injection
<1>11. IsFiniteSet(pass) /\ Cardinality(pass) <= Cardinality(p.passed) /\ (all => Cardinality(pass) = Cardinality(p.passed))
  BY <1>1, <1>7, <1>9, FS_Injection
<1>12. Cardinality(rows) \in Nat /\ Cardinality(pass) \in Nat /\ Cardinality(p.cases) \in Nat /\ Cardinality(p.passed) \in Nat
  BY <1>1, <1>10, <1>11, FS_CardinalityType
<1> QED
  BY <1>2, <1>10, <1>11, <1>12 DEF rows, pass, all

\* A rate is compared without dividing.
LEMMA SameRate ==
  ASSUME NEW a \in Nat, NEW b \in Nat, NEW n \in Nat, n # 0
  PROVE  a * n >= b * n <=> a >= b
OBVIOUS

\* The gate reads the first of the rows, whichever it is, as one of its run.
LEMMA GateReads ==
  ASSUME GateInv, NEW p \in reports, LatestRows(file) = PlacesOf(file, p.id), LatestRows(file) # {}
  PROVE  Incomplete(LatestRows(file)) <=>
           p.version # suite \/ Cardinality(p.cases) # Cardinality(Cases) \/ Cardinality(p.cases) # Cardinality(LatestRows(file))
<1> DEFINE rows == LatestRows(file)
           x == file[Min(rows)]
<1>1. rows \in SUBSET Nat
  <2>1. DOMAIN file \subseteq Nat
    BY DEF GateInv, GateTypes
  <2> QED
    BY <2>1 DEF LatestRows, RowsOf
<1>2. Min(rows) \in rows
  BY <1>1, LeastExists
<1>3. \A i \in PlacesOf(file, p.id) : RowOf(file[i], p)
  BY CountedRows
<1>4. RowOf(x, p)
  BY <1>2, <1>3
<1>5. Incomplete(rows) <=> x.version # suite \/ x.caseCount # x.suiteCaseCount \/ x.assertionCount # Cardinality(rows)
  BY DEF Incomplete
<1> HIDE DEF x, rows
<1>6. x.version = p.version /\ x.caseCount = Cardinality(p.cases) /\ x.suiteCaseCount = Cardinality(Cases) /\ x.assertionCount = Cardinality(p.cases)
  BY <1>4 DEF RowOf
<1> QED
  BY <1>5, <1>6 DEF rows

LEMMA WholeSuite ==
  ASSUME GateInv, NEW p \in reports
  PROVE  /\ Cardinality(Cases) \in Nat /\ Cardinality(Cases) # 0
         /\ Cardinality(p.cases) = Cardinality(Cases) <=> p.cases = Cases
<1>1. p.cases \in SUBSET Cases
  BY DEF GateInv, ReportsInv, Reports
<1> QED
  BY <1>1, GateAssumption, FS_CardinalityType, FS_EmptySet, FS_Subset

LEMMA AllowedWasEarned ==
  ASSUME GateInv PROVE AllowedMeansRun
<1> SUFFICES ASSUME Gate = "allowed"
             PROVE  \E p \in reports : p.version = suite /\ p.cases = Cases /\ Cardinality(p.passed) >= Threshold
  BY DEF AllowedMeansRun
<1> DEFINE rows == LatestRows(file)
           pass == {i \in rows : file[i].status = "pass"}
<1>1. rows # {} /\ ~Incomplete(rows) /\ Cardinality(pass) * Cardinality(Cases) >= Threshold * Cardinality(rows)
  BY DEF Gate
<1>2. PICK p \in reports : rows = PlacesOf(file, p.id)
  BY <1>1, LatestAreOneRun
<1>3. p.version = suite /\ Cardinality(p.cases) = Cardinality(Cases) /\ Cardinality(p.cases) = Cardinality(rows)
  BY <1>1, <1>2, GateReads
<1>4. p.cases = Cases /\ Cardinality(Cases) \in Nat /\ Cardinality(Cases) # 0
  BY <1>3, WholeSuite
<1>5. pass = {i \in PlacesOf(file, p.id) : file[i].status = "pass"}
  BY <1>2
<1>6. Cardinality(pass) \in Nat /\ Cardinality(p.passed) \in Nat /\ Cardinality(pass) <= Cardinality(p.passed)
  BY <1>5, CountedRows
<1> HIDE DEF rows, pass
<1>7. Cardinality(pass) >= Threshold
  BY <1>1, <1>3, <1>4, <1>6, SameRate, GateAssumption
<1>8. Cardinality(p.passed) >= Threshold
  BY <1>6, <1>7, GateAssumption
<1> QED
  BY <1>3, <1>4, <1>8

LEMMA LastDecides ==
  ASSUME GateInv, Retention = None PROVE LastRunDecides
<1> SUFFICES ASSUME last # None, last.version = suite, suite \notin Ungated, Readable(file)
             PROVE  Gate = IF last.cases = Cases /\ Cardinality(last.passed) >= Threshold THEN "allowed" ELSE "blocked"
  BY DEF LastRunDecides
<1> DEFINE rows == LatestRows(file)
           pass == {i \in rows : file[i].status = "pass"}
           n == Cardinality(Cases)
<1>1. last \in reports /\ last.id = clock - 1 /\ last.cases \subseteq WrittenCases(file, last.id) /\ clock \in Nat
  BY DEF GateInv, LastInv, GateTypes
<1>2. last.cases # {} /\ suite # None
  BY <1>1, GateAssumption DEF GateInv, ReportsInv, Reports
<1>3. rows = PlacesOf(file, last.id) /\ rows # {}
  <2>1. PlacesOf(file, last.id) # {}
    BY <1>1, <1>2 DEF WrittenCases
  <2>2. \A j \in RowsOf(file) : file[j].runId \in Nat /\ file[j].runId <= last.id
    <3>1. \A q \in reports : q.id \in Nat /\ q.id < clock
      BY DEF GateInv, ReportsInv, Reports
    <3>2. \A j \in RowsOf(file) : \E q \in reports : file[j].runId = q.id
      BY DEF GateInv, FileInv, RowOf
    <3>3. \A q \in reports : q.id \in Nat /\ q.id <= last.id
      BY <1>1, <3>1
    <3> QED
      BY <3>2, <3>3
  <2>3. \A i \in PlacesOf(file, last.id) : i \in RowsOf(file) /\ file[i].runId = last.id
    BY DEF PlacesOf
  <2>4. PlacesOf(file, last.id) \subseteq rows
    BY <2>2, <2>3 DEF LatestRows
  <2>5. rows # {}
    BY <2>1, <2>4
  <2>6. PICK p \in reports : rows = PlacesOf(file, p.id)
    BY <2>5, LatestAreOneRun
  <2>7. p.id = last.id
    BY <2>1, <2>3, <2>4, <2>6 DEF PlacesOf
  <2> QED
    BY <2>5, <2>6, <2>7
<1>4. pass = {i \in PlacesOf(file, last.id) : file[i].status = "pass"}
  BY <1>3
<1>5. Cardinality(rows) = Cardinality(last.cases) /\ Cardinality(pass) = Cardinality(last.passed) /\ Cardinality(last.passed) \in Nat
  BY <1>1, <1>3, <1>4, CountedRows
<1>6. Incomplete(rows) <=> Cardinality(last.cases) # n
  BY <1>1, <1>3, <1>5, GateReads
<1>7. (Cardinality(last.cases) = n <=> last.cases = Cases) /\ n \in Nat /\ n # 0
  BY <1>1, WholeSuite
<1>8. Gate = IF ~Incomplete(rows) /\ Cardinality(pass) * n >= Threshold * Cardinality(rows) THEN "allowed" ELSE "blocked"
  BY <1>2, <1>3 DEF Gate
<1> HIDE DEF rows, pass, n
<1>9. last.cases = Cases => (Cardinality(pass) * n >= Threshold * Cardinality(rows) <=> Cardinality(last.passed) >= Threshold)
  BY <1>5, <1>7, SameRate, GateAssumption
<1> QED
  BY <1>6, <1>7, <1>8, <1>9

\* What the gate answers (build_eval_gate_report) for every number of runs at
\* once, of cases, of versions of the suite and of crashes, when no run cuts
\* the file: it allows nothing that no run of the whole suite earned, and a run
\* that no other disturbed decides.
THEOREM GateCorrect ==
  ASSUME Retention = None PROVE EvalSpec => []GateSound
<1>1. EvalInit => GateInv
  BY GateInitially
<1>2. GateInv /\ [EvalNext]_evalVars => GateInv'
  BY GateStep
<1>3. GateInv => GateSound
  BY AllowedWasEarned, LastDecides DEF GateSound
<1> QED
  BY <1>1, <1>2, <1>3, PTL DEF EvalSpec

\* The same of the commands as they are checked together: what concerns the
\* gate and what concerns the root of the instances do not meet.
THEOREM CommandsCorrect ==
  ASSUME Retention = None PROVE MCSpec => [](GateSound /\ InstancesKept)
<1>1. MCInit => EvalInit /\ InstancesInit
  BY DEF MCInit
<1>2. [MCNext]_<<part, evalVars, instanceVars>> => [EvalNext]_evalVars /\ [InstancesNext]_instanceVars
  <2> SUFFICES ASSUME [MCNext]_<<part, evalVars, instanceVars>> PROVE [EvalNext]_evalVars /\ [InstancesNext]_instanceVars
    OBVIOUS
  <2>1. CASE GateOnly
    BY <2>1, Zenon DEF MCNext, GateOnly, RootOnly, EvalNext
  <2>2. CASE RootOnly
    BY <2>2, Zenon DEF MCNext, GateOnly, RootOnly, InstancesNext
  <2>3. CASE UNCHANGED <<part, evalVars, instanceVars>>
    BY <2>3
  <2> QED
    BY <2>1, <2>2, <2>3, Zenon DEF MCNext
<1>3. MCSpec => EvalSpec /\ InstancesSpec
  BY <1>1, <1>2, PTL DEF MCSpec, EvalSpec, InstancesSpec
<1> QED
  BY <1>3, GateCorrect, InstancesCorrect, PTL
=============================================================================
