----------------------------- MODULE ServerProofs -----------------------------
(***************************************************************************)
(* Theorems about the server: the limiter, the way of a tool call, the     *)
(* verification of hosted requests, the trace, the statements before they  *)
(* are executed and the pages of an answer, for any number of requests,    *)
(* keys, processes and rows, and inputs of any length.                     *)
(***************************************************************************)
EXTENDS MCServer, FiniteSetTheorems, SequenceTheorems, WellFoundedInduction, TLAPS

-----------------------------------------------------------------------------
(* The limiter.                                                            *)

\* Removing an entry from a line in which nobody stands twice takes that
\* request out, keeps the others and leaves nobody twice.
LEMMA RemoveFromLine ==
  ASSUME NEW S, NEW s \in Seq(S), IsInjective(s), NEW i \in DOMAIN s
  PROVE  /\ RemoveAt(s, i) \in Seq(S)
         /\ ToSet(RemoveAt(s, i)) = ToSet(s) \ {s[i]}
         /\ IsInjective(RemoveAt(s, i))
<1> DEFINE a == SubSeq(s, 1, i - 1)
           b == SubSeq(s, i + 1, Len(s))
<1>1. /\ Len(s) \in Nat /\ DOMAIN s = 1 .. Len(s) /\ i \in 1 .. Len(s)
      /\ \A j \in 1 .. Len(s) : s[j] \in S
  BY LenProperties, ElementOfSeq
<1>2. /\ a \in Seq(S) /\ Len(a) = i - 1
      /\ \A j \in 1 .. i - 1 : a[j] = s[j]
  BY <1>1, SubSeqProperties
<1>3. /\ b \in Seq(S) /\ Len(b) = Len(s) - i
      /\ \A j \in 1 .. Len(s) - i : b[j] = s[i + j]
  BY <1>1, SubSeqProperties
<1> DEFINE t == a \o b
<1> HIDE DEF a, b
<1>a. /\ t \in Seq(S) /\ Len(t) = Len(a) + Len(b)
      /\ \A j \in 1 .. Len(a) + Len(b) : t[j] = IF j <= Len(a) THEN a[j] ELSE b[j - Len(a)]
  BY <1>2, <1>3, ConcatProperties
<1>b. DOMAIN t = 1 .. Len(t)
  BY <1>a, LenProperties
<1>5. RemoveAt(s, i) = t
  BY DEF RemoveAt, a, b
<1> HIDE DEF t
<1>4. /\ t \in Seq(S) /\ DOMAIN t = 1 .. Len(s) - 1
      /\ \A j \in 1 .. Len(s) - 1 : t[j] = IF j < i THEN s[j] ELSE s[j + 1]
  <2>1. Len(a) + Len(b) = Len(s) - 1
    BY <1>1, <1>2, <1>3
  <2>2. ASSUME NEW j \in 1 .. Len(s) - 1
        PROVE  t[j] = IF j < i THEN s[j] ELSE s[j + 1]
    <3>1. CASE j < i
      BY <1>1, <1>2, <1>a, <2>1, <3>1
    <3>2. CASE ~(j < i)
      <4>0. j \in 1 .. Len(a) + Len(b) /\ ~(j <= Len(a)) /\ j - Len(a) \in 1 .. Len(s) - i
        BY <1>1, <1>2, <2>1, <3>2
      <4>1. t[j] = b[j - Len(a)] /\ j - Len(a) \in 1 .. Len(s) - i
        BY <1>a, <4>0
      <4>2. i + (j - Len(a)) = j + 1
        BY <1>1, <1>2
      <4> QED
        BY <1>3, <3>2, <4>1, <4>2
    <3> QED
      BY <3>1, <3>2
  <2> QED
    BY <1>a, <1>b, <2>1, <2>2
<1>6. \A j \in 1 .. Len(s) : j # i => \E k \in 1 .. Len(s) - 1 : t[k] = s[j]
  <2> TAKE j \in 1 .. Len(s)
  <2> HAVE j # i
  <2>1. CASE j < i
    BY <1>1, <1>4, <2>1
  <2>2. CASE j > i
    <3>1. j - 1 \in 1 .. Len(s) - 1 /\ t[j - 1] = s[j]
      BY <1>1, <1>4, <2>2
    <3> QED
      BY <3>1
  <2> QED
    BY <1>1, <2>1, <2>2
<1>7. \A j, k \in 1 .. Len(s) : s[j] = s[k] => j = k
  BY <1>1 DEF IsInjective
<1>8. ToSet(t) = ToSet(s) \ {s[i]}
  <2>1. ASSUME NEW j \in 1 .. Len(s) - 1
        PROVE  \E k \in 1 .. Len(s) : k # i /\ t[j] = s[k]
    BY <1>1, <1>4
  <2>2. ASSUME NEW x \in ToSet(t) PROVE x \in ToSet(s) \ {s[i]}
    <3>1. PICK j \in 1 .. Len(s) - 1 : x = t[j]
      BY <1>4 DEF ToSet
    <3>2. PICK k \in 1 .. Len(s) : k # i /\ t[j] = s[k]
      BY <2>1
    <3> QED
      BY <1>1, <1>7, <3>1, <3>2 DEF ToSet
  <2>3. ASSUME NEW x \in ToSet(s), x # s[i] PROVE x \in ToSet(t)
    <3>1. PICK j \in 1 .. Len(s) : x = s[j]
      BY <1>1 DEF ToSet
    <3>2. PICK k \in 1 .. Len(s) - 1 : t[k] = s[j]
      BY <1>6, <2>3, <3>1
    <3> QED
      BY <1>4, <3>1, <3>2 DEF ToSet
  <2> QED
    BY <2>2, <2>3
<1>9. IsInjective(t)
  BY <1>1, <1>4, <1>7 DEF IsInjective
<1> QED
  BY <1>4, <1>5, <1>8, <1>9

\* A request that is not in the line joins at its end.
LEMMA JoinLine ==
  ASSUME NEW S, NEW s \in Seq(S), IsInjective(s), NEW x \in S, x \notin ToSet(s)
  PROVE  ToSet(Append(s, x)) = ToSet(s) \cup {x} /\ IsInjective(Append(s, x))
<1>1. Len(s) \in Nat /\ DOMAIN s = 1 .. Len(s)
  BY LenProperties
<1>2. /\ Append(s, x) \in Seq(S) /\ Len(Append(s, x)) = Len(s) + 1
      /\ \A i \in 1 .. Len(s) : Append(s, x)[i] = s[i]
      /\ Append(s, x)[Len(s) + 1] = x
  BY AppendProperties
<1>3. DOMAIN Append(s, x) = 1 .. Len(s) + 1
  BY <1>2, LenProperties
<1> DEFINE t == Append(s, x)
<1> HIDE DEF t
<1>4. /\ DOMAIN t = 1 .. Len(s) + 1 /\ t[Len(s) + 1] = x
      /\ \A i \in 1 .. Len(s) : t[i] = s[i]
  BY <1>2, <1>3 DEF t
<1>5. ToSet(t) = ToSet(s) \cup {x}
  BY <1>1, <1>4 DEF ToSet
<1>6. IsInjective(t)
  BY <1>1, <1>4 DEF ToSet, IsInjective
<1> QED
  BY <1>5, <1>6 DEF t

\* The first of the line leaves it.
LEMMA LeaveLine ==
  ASSUME NEW S, NEW s \in Seq(S), s # <<>>, IsInjective(s)
  PROVE  /\ Head(s) \in S /\ Head(s) \in ToSet(s) /\ Tail(s) \in Seq(S)
         /\ ToSet(Tail(s)) = ToSet(s) \ {Head(s)} /\ IsInjective(Tail(s))
<1>1. Len(s) \in Nat \ {0} /\ DOMAIN s = 1 .. Len(s) /\ Head(s) = s[1]
  BY LenProperties, EmptySeq
<1>2. /\ Head(s) \in S /\ Tail(s) \in Seq(S) /\ Len(Tail(s)) = Len(s) - 1
      /\ \A i \in 1 .. Len(Tail(s)) : Tail(s)[i] = s[i + 1]
  BY HeadTailProperties
<1>3. DOMAIN Tail(s) = 1 .. Len(s) - 1
  BY <1>2, LenProperties
<1> DEFINE t == Tail(s)
<1> HIDE DEF t
<1>4. DOMAIN t = 1 .. Len(s) - 1 /\ \A i \in 1 .. Len(s) - 1 : t[i] = s[i + 1]
  BY <1>2, <1>3 DEF t
<1>5. ToSet(t) = ToSet(s) \ {s[1]}
  <2>1. \A i \in 2 .. Len(s) : i - 1 \in 1 .. Len(s) - 1 /\ t[i - 1] = s[i]
    BY <1>1, <1>4
  <2>2. \A i \in 1 .. Len(s) - 1 : i + 1 \in 1 .. Len(s) /\ t[i] = s[i + 1] /\ s[i + 1] # s[1]
    <3> TAKE i \in 1 .. Len(s) - 1
    <3>1. i + 1 \in 1 .. Len(s) /\ i + 1 # 1 /\ 1 \in 1 .. Len(s)
      BY <1>1
    <3> QED
      BY <1>1, <1>4, <3>1 DEF IsInjective
  <2>3. ASSUME NEW x \in ToSet(t) PROVE x \in ToSet(s) \ {s[1]}
    BY <1>1, <1>4, <2>2, <2>3 DEF ToSet
  <2>4. ASSUME NEW x \in ToSet(s), x # s[1] PROVE x \in ToSet(t)
    <3>1. PICK i \in 1 .. Len(s) : x = s[i]
      BY <1>1 DEF ToSet
    <3>2. i \in 2 .. Len(s)
      BY <1>1, <2>4, <3>1
    <3> QED
      BY <1>4, <2>1, <3>1, <3>2 DEF ToSet
  <2> QED
    BY <2>3, <2>4
<1>6. IsInjective(t)
  BY <1>1, <1>4 DEF IsInjective
<1> QED
  BY <1>1, <1>2, <1>5, <1>6 DEF t, ToSet

\* A request that changes its status joins one group and leaves the others.
LEMMA Moved ==
  ASSUME TypeOK, NEW r \in Requests, NEW s, Become(r, s), NEW x
  PROVE  With(x)' = IF x = s THEN With(x) \cup {r} ELSE With(x) \ {r}
BY DEF TypeOK, Become, With

\* The groups and the set of queue places are finite.
LEMMA GroupsFinite ==
  /\ \A x : IsFiniteSet(With(x)) /\ Cardinality(With(x)) \in Nat
  /\ IsFiniteSet(Placed) /\ Cardinality(Placed) \in Nat
<1>1. \A x : IsFiniteSet(With(x))
  BY FS_Subset, ConstantAssumption DEF With
<1>2. IsFiniteSet(Placed)
  BY FS_Subset, ConstantAssumption DEF Placed
<1> QED
  BY <1>1, <1>2, FS_CardinalityType

\* The invariant is inductive as it stands: the counts bound the permits, and
\* the line being the requests that wait makes the one a slot goes to a request
\* with a place.
LEMMA LimiterStep == LimiterSound /\ [Next]_vars => LimiterSound'
<1> SUFFICES ASSUME LimiterSound, [Next]_vars PROVE LimiterSound'
  OBVIOUS
<1>1. TypeOK /\ PermitsConserved /\ NoIdleSlot
  BY DEF LimiterSound
<1>2. ASSUME NEW r \in Requests, TakeSlot(r) PROVE LimiterSound'
  <2>1. With("running")' = With("running") \cup {r} /\ With("waiting")' = With("waiting") /\ Placed' = Placed
    BY <1>1, <1>2, Moved DEF TakeSlot, With, Placed
  <2>2. r \notin With("running")
    BY <1>2 DEF TakeSlot, With
  <2>3. Cardinality(With("running")') = Cardinality(With("running")) + 1
    BY <2>1, <2>2, GroupsFinite, FS_AddElement
  <2>4. TypeOK'
    BY <1>1, <1>2, ConstantAssumption DEF TypeOK, TakeSlot, Become
  <2>5. PermitsConserved'
    BY <1>1, <1>2, <2>1, <2>3, GroupsFinite, ConstantAssumption DEF TypeOK, TakeSlot, Become, PermitsConserved
  <2>6. NoIdleSlot'
    BY <1>1, <1>2, <2>1 DEF TypeOK, TakeSlot, NoIdleSlot
  <2> QED
    BY <2>4, <2>5, <2>6 DEF LimiterSound
<1>3. ASSUME NEW r \in Requests, MissSlot(r) \/ TurnAway(r) PROVE LimiterSound'
  <2>1. With("running")' = With("running") /\ With("waiting")' = With("waiting") /\ Placed' = Placed
    BY <1>1, <1>3, Moved DEF MissSlot, TurnAway, With, Placed
  <2>2. TypeOK'
    BY <1>1, <1>3 DEF TypeOK, MissSlot, TurnAway, Become
  <2>3. PermitsConserved'
    BY <1>1, <1>3, <2>1 DEF TypeOK, MissSlot, TurnAway, Become, PermitsConserved
  <2>4. NoIdleSlot'
    BY <1>1, <1>3, <2>1 DEF MissSlot, TurnAway, NoIdleSlot
  <2> QED
    BY <2>2, <2>3, <2>4 DEF LimiterSound
<1>4. ASSUME NEW r \in Requests, TakePlace(r) PROVE LimiterSound'
  <2>1. With("running")' = With("running") /\ With("waiting")' = With("waiting")
    BY <1>1, <1>4, Moved DEF TakePlace, With
  <2>2. Placed' = Placed \cup {r} /\ r \notin Placed
    BY <1>1, <1>4 DEF TypeOK, PermitsConserved, TakePlace, Placed
  <2>3. Cardinality(Placed') = Cardinality(Placed) + 1
    BY <2>2, GroupsFinite, FS_AddElement
  <2>4. TypeOK'
    BY <1>1, <1>4, ConstantAssumption DEF TypeOK, TakePlace, Become
  <2>5. PermitsConserved'
    <3>1. slots' + Cardinality(With("running")') = MaxSlots
      BY <1>1, <1>4, <2>1 DEF TakePlace, PermitsConserved
    <3>2. places' + Cardinality(Placed') = MaxQueue
      BY <1>1, <1>4, <2>3, GroupsFinite, ConstantAssumption DEF TypeOK, TakePlace, PermitsConserved
    <3>3. \A q \in Requests : status'[q] \in {"placed", "waiting"} => placed'[q]
      BY <1>1, <1>4 DEF TypeOK, TakePlace, Become, PermitsConserved
    <3>4. \A q \in Requests : placed'[q] => status'[q] \in {"placed", "waiting", "running", "ending"}
      BY <1>1, <1>4 DEF TypeOK, TakePlace, Become, PermitsConserved
    <3> QED
      BY <3>1, <3>2, <3>3, <3>4, Zenon DEF PermitsConserved
  <2>6. NoIdleSlot'
    BY <1>1, <1>4, <2>1 DEF TakePlace, NoIdleSlot
  <2> QED
    BY <2>4, <2>5, <2>6 DEF LimiterSound
<1>5. ASSUME NEW r \in Requests, AwaitSlot(r), slots > 0 PROVE LimiterSound'
  <2>1. With("running")' = With("running") \cup {r} /\ With("waiting")' = With("waiting") /\ Placed' = Placed
    BY <1>1, <1>5, Moved DEF AwaitSlot, With, Placed
  <2>2. r \notin With("running")
    BY <1>5 DEF AwaitSlot, With
  <2>3. Cardinality(With("running")') = Cardinality(With("running")) + 1
    BY <2>1, <2>2, GroupsFinite, FS_AddElement
  <2>4. TypeOK'
    BY <1>1, <1>5, ConstantAssumption DEF TypeOK, AwaitSlot, Become
  <2>5. PermitsConserved'
    <3>1. slots' + Cardinality(With("running")') = MaxSlots
      BY <1>1, <1>5, <2>3, GroupsFinite, ConstantAssumption DEF TypeOK, AwaitSlot, PermitsConserved
    <3>2. places' + Cardinality(Placed') = MaxQueue
      BY <1>1, <1>5, <2>1 DEF AwaitSlot, PermitsConserved
    <3>3. \A q \in Requests : status'[q] \in {"placed", "waiting"} => placed'[q]
      BY <1>1, <1>5 DEF TypeOK, AwaitSlot, Become, PermitsConserved
    <3>4. \A q \in Requests : placed'[q] => status'[q] \in {"placed", "waiting", "running", "ending"}
      BY <1>1, <1>5 DEF TypeOK, AwaitSlot, Become, PermitsConserved
    <3> QED
      BY <3>1, <3>2, <3>3, <3>4, Zenon DEF PermitsConserved
  <2>6. NoIdleSlot'
    BY <1>1, <1>5, <2>1 DEF TypeOK, AwaitSlot, NoIdleSlot
  <2> QED
    BY <2>4, <2>5, <2>6 DEF LimiterSound
<1>6. ASSUME NEW r \in Requests, AwaitSlot(r), ~(slots > 0) PROVE LimiterSound'
  <2>1. With("running")' = With("running") /\ With("waiting")' = With("waiting") \cup {r} /\ Placed' = Placed
    <3>1. Become(r, "waiting") /\ placed' = placed /\ status[r] = "placed"
      BY <1>6 DEF AwaitSlot
    <3>2. r \notin With("running")
      BY <3>1 DEF With
    <3> QED
      BY <1>1, <3>1, <3>2, Moved DEF Placed
  <2>2. r \notin ToSet(waiters)
    BY <1>1, <1>6 DEF AwaitSlot, NoIdleSlot, With
  <2>3. waiters' = Append(waiters, r)
    BY <1>6 DEF AwaitSlot
  <2>4. TypeOK'
    BY <1>1, <1>6, <2>3, AppendProperties DEF TypeOK, AwaitSlot, Become
  <2>5. PermitsConserved'
    BY <1>1, <1>6, <2>1 DEF TypeOK, AwaitSlot, Become, PermitsConserved
  <2>6. ToSet(waiters') = ToSet(waiters) \cup {r} /\ IsInjective(waiters')
    BY <1>1, <2>2, <2>3, JoinLine DEF TypeOK, NoIdleSlot
  <2>7. NoIdleSlot'
    BY <1>1, <1>6, <2>1, <2>6 DEF TypeOK, AwaitSlot, NoIdleSlot
  <2> QED
    BY <2>4, <2>5, <2>7 DEF LimiterSound
<1>7. ASSUME NEW r \in Requests, GiveUp(r) PROVE LimiterSound'
  <2>1. With("running")' = With("running") /\ With("waiting")' = With("waiting") \ {r}
    BY <1>1, <1>7, Moved DEF GiveUp, With
  <2>2. Placed' = Placed \ {r} /\ r \in Placed
    BY <1>1, <1>7 DEF TypeOK, PermitsConserved, GiveUp, Placed
  <2>3. Cardinality(Placed') = Cardinality(Placed) - 1
    BY <2>2, GroupsFinite, FS_RemoveElement
  <2>4. PICK i \in DOMAIN waiters : waiters[i] = r /\ waiters' = RemoveAt(waiters, i)
    BY <1>7 DEF GiveUp
  <2>5. waiters' \in Seq(Requests) /\ ToSet(waiters') = ToSet(waiters) \ {r} /\ IsInjective(waiters')
    BY <1>1, <2>4, RemoveFromLine DEF TypeOK, NoIdleSlot
  <2>6. places' \in 0 .. MaxQueue
    <3>1. Cardinality(Placed) # 0
      BY <2>2, GroupsFinite, FS_EmptySet
    <3> QED
      BY <1>1, <1>7, <3>1, GroupsFinite, ConstantAssumption DEF TypeOK, GiveUp, PermitsConserved
  <2>7. TypeOK'
    BY <1>1, <1>7, <2>5, <2>6 DEF TypeOK, GiveUp, Become
  <2>8. PermitsConserved'
    BY <1>1, <1>7, <2>1, <2>3, GroupsFinite, ConstantAssumption DEF TypeOK, GiveUp, Become, PermitsConserved
  <2>9. NoIdleSlot'
    BY <1>1, <1>7, <2>1, <2>5, <2>4 DEF TypeOK, GiveUp, NoIdleSlot
  <2> QED
    BY <2>7, <2>8, <2>9 DEF LimiterSound
<1>8. ASSUME NEW r \in Requests, ReleaseSlot(r), waiters = <<>> PROVE LimiterSound'
  <2>1. With("running")' = With("running") \ {r} /\ With("waiting")' = With("waiting") /\ Placed' = Placed
    <3>1. Become(r, "ending") /\ placed' = placed /\ status[r] = "running"
      BY <1>8 DEF ReleaseSlot
    <3>2. r \notin With("waiting")
      BY <3>1 DEF With
    <3> QED
      BY <1>1, <3>1, <3>2, Moved DEF Placed
  <2>2. r \in With("running")
    BY <1>8 DEF ReleaseSlot, With
  <2>3. Cardinality(With("running")') = Cardinality(With("running")) - 1
    BY <2>1, <2>2, GroupsFinite, FS_RemoveElement
  <2>4. Cardinality(With("running")) # 0
    BY <2>2, GroupsFinite, FS_EmptySet
  <2>5. TypeOK'
    BY <1>1, <1>8, <2>4, GroupsFinite, ConstantAssumption DEF TypeOK, ReleaseSlot, Become, PermitsConserved
  <2>6. PermitsConserved'
    BY <1>1, <1>8, <2>1, <2>3, GroupsFinite, ConstantAssumption DEF TypeOK, ReleaseSlot, Become, PermitsConserved
  <2>7. NoIdleSlot'
    BY <1>1, <1>8, <2>1 DEF ReleaseSlot, NoIdleSlot
  <2> QED
    BY <2>5, <2>6, <2>7 DEF LimiterSound
<1>9. ASSUME NEW r \in Requests, ReleaseSlot(r), waiters # <<>> PROVE LimiterSound'
  <2> DEFINE h == Head(waiters)
  <2>1. /\ status' = [status EXCEPT ![r] = "ending", ![h] = "running"]
        /\ waiters' = Tail(waiters) /\ UNCHANGED <<slots, places, placed>> /\ status[r] = "running"
    BY <1>9 DEF ReleaseSlot
  <2>2. /\ h \in Requests /\ waiters' \in Seq(Requests)
        /\ ToSet(waiters') = ToSet(waiters) \ {h} /\ IsInjective(waiters') /\ h \in ToSet(waiters)
    BY <1>1, <1>9, <2>1, LeaveLine DEF TypeOK, NoIdleSlot
  <2> HIDE DEF h
  <2>3. status[h] = "waiting" /\ h # r
    BY <1>1, <2>1, <2>2 DEF NoIdleSlot, With
  <2>4. With("running")' = (With("running") \ {r}) \cup {h} /\ With("waiting")' = With("waiting") \ {h} /\ Placed' = Placed
    BY <1>1, <2>1, <2>2, <2>3 DEF TypeOK, With, Placed
  <2>5. Cardinality(With("running")') = Cardinality(With("running"))
    <3>1. r \in With("running") /\ h \notin With("running") \ {r}
      BY <2>1, <2>3 DEF With
    <3>2. IsFiniteSet(With("running") \ {r}) /\ Cardinality(With("running") \ {r}) = Cardinality(With("running")) - 1
      BY <3>1, GroupsFinite, FS_RemoveElement
    <3>3. Cardinality(With("running")') = Cardinality(With("running") \ {r}) + 1
      BY <2>4, <3>1, <3>2, FS_AddElement
    <3> QED
      BY <3>2, <3>3, GroupsFinite
  <2>6. TypeOK'
    BY <1>1, <2>1, <2>2 DEF TypeOK
  <2>7. PermitsConserved'
    BY <1>1, <2>1, <2>2, <2>3, <2>4, <2>5 DEF TypeOK, PermitsConserved
  <2>8. NoIdleSlot'
    BY <1>1, <1>9, <2>1, <2>2, <2>4 DEF NoIdleSlot
  <2> QED
    BY <2>6, <2>7, <2>8 DEF LimiterSound
<1>10. ASSUME NEW r \in Requests, ReleasePlace(r) PROVE LimiterSound'
  <2>1. With("running")' = With("running") /\ With("waiting")' = With("waiting")
    BY <1>1, <1>10, Moved DEF ReleasePlace, With
  <2>2. Placed' = Placed \ {r}
    BY <1>1, <1>10 DEF TypeOK, ReleasePlace, Placed
  <2>3. Cardinality(Placed') = IF placed[r] THEN Cardinality(Placed) - 1 ELSE Cardinality(Placed)
    BY <2>2, GroupsFinite, FS_RemoveElement DEF Placed
  <2>4. places' \in 0 .. MaxQueue
    <3>1. placed[r] => Cardinality(Placed) # 0
      BY GroupsFinite, FS_EmptySet DEF Placed
    <3> QED
      BY <1>1, <1>10, <3>1, GroupsFinite, ConstantAssumption DEF TypeOK, ReleasePlace, PermitsConserved
  <2>5. TypeOK'
    BY <1>1, <1>10, <2>4 DEF TypeOK, ReleasePlace, Become
  <2>6. PermitsConserved'
    BY <1>1, <1>10, <2>1, <2>3, GroupsFinite, ConstantAssumption DEF TypeOK, ReleasePlace, Become, PermitsConserved
  <2>7. NoIdleSlot'
    BY <1>1, <1>10, <2>1 DEF ReleasePlace, NoIdleSlot
  <2> QED
    BY <2>5, <2>6, <2>7 DEF LimiterSound
<1>11. CASE UNCHANGED vars
  <2>1. With("running")' = With("running") /\ With("waiting")' = With("waiting") /\ Placed' = Placed
    BY <1>11 DEF vars, With, Placed
  <2>2. PermitsConserved'
    BY <1>1, <1>11, <2>1 DEF vars, PermitsConserved
  <2>3. TypeOK' /\ NoIdleSlot'
    BY <1>1, <1>11, <2>1 DEF vars, TypeOK, NoIdleSlot
  <2> QED
    BY <2>2, <2>3 DEF LimiterSound
<1> QED
  BY <1>2, <1>3, <1>4, <1>5, <1>6, <1>7, <1>8, <1>9, <1>10, <1>11 DEF Next

\* All permits are there at the start.
LEMMA LimiterInitially == Init => LimiterSound
<1> SUFFICES ASSUME Init PROVE LimiterSound
  OBVIOUS
<1>1. With("running") = {} /\ With("waiting") = {} /\ Placed = {}
  BY DEF Init, With, Placed
<1>2. TypeOK
  BY ConstantAssumption DEF Init, TypeOK
<1>3. PermitsConserved
  <2>1. Cardinality({}) = 0
    BY FS_EmptySet
  <2>2. slots + Cardinality(With("running")) = MaxSlots
    <3>1. slots = MaxSlots /\ MaxSlots \in Nat
      BY ConstantAssumption DEF Init
    <3>2. Cardinality(With("running")) = 0
      BY <1>1, <2>1, Zenon
    <3> QED
      BY <3>1, <3>2
  <2>3. places + Cardinality(Placed) = MaxQueue
    BY <1>1, <2>1, ConstantAssumption DEF Init
  <2>4. \A r \in Requests : status[r] = "out" /\ ~placed[r]
    BY DEF Init
  <2> QED
    BY <2>2, <2>3, <2>4 DEF PermitsConserved
<1>4. NoIdleSlot
  BY <1>1 DEF Init, NoIdleSlot, ToSet, IsInjective
<1> QED
  BY <1>2, <1>3, <1>4 DEF LimiterSound

\* However many requests come, time out, are dropped or end: the limiter
\* neither loses nor makes up a permit (a lost one would cost the server
\* capacity until it restarts), and no slot is free while somebody waits.
THEOREM LimiterCorrect == Spec => []LimiterSound
BY LimiterInitially, LimiterStep, PTL DEF Spec
-----------------------------------------------------------------------------
(* Tool calls.                                                             *)

\* Where a call is tells what it holds in the limiter.
Coupled(r) ==
  /\ phase[r] \in {"idle", "start"} => status[r] = "out"
  /\ phase[r] = "permit" => status[r] # "ending"
  /\ phase[r] \in {"handle", "tool"} => status[r] = "running" \/ (status[r] = "out" /\ ~found[r])
  /\ phase[r] = "drop" => status[r] \in {"running", "ending", "out"}
  /\ found[r] => ready

\* A call is answered once, on its way out.
AnsweredOnce(r) ==
  /\ phase[r] # "drop" => answer[r] = "none" /\ recorded[r] = <<>>
  /\ recorded[r] = (IF answer[r] \in {"none", "refused", "gone"} THEN <<>> ELSE <<answer[r]>>)

CallTypes ==
  /\ kind \in {"search", "sql"} /\ limited \in BOOLEAN /\ ready \in BOOLEAN
  /\ found \in [Requests -> BOOLEAN]
  /\ phase \in [Requests -> Phases] /\ late \in [Requests -> BOOLEAN]
  /\ timed \in [Requests -> BOOLEAN] /\ answer \in [Requests -> Answers]
  /\ recorded \in [Requests -> Seq(Answers)]
  /\ allowed \in 0 .. RateLimit

CallsInv ==
  /\ LimiterSound /\ CallTypes
  /\ \A r \in Requests : Coupled(r) /\ AnsweredOnce(r)

\* A step of the limiter moves one call, and perhaps gives the first waiter its
\* slot.
Moves(r) ==
  \A q \in Requests \ {r} : status'[q] = status[q] \/ (status[q] = "waiting" /\ status'[q] = "running")

\* A request's step at the limiter moves no other request, except that it may
\* hand one that waits the slot it gives up.
LEMMA LimiterMoves ==
  ASSUME LimiterSound, NEW r \in Requests,
         \/ TakeSlot(r) \/ MissSlot(r) \/ TakePlace(r) \/ TurnAway(r)
         \/ AwaitSlot(r) \/ GiveUp(r) \/ ReleaseSlot(r) \/ ReleasePlace(r)
  PROVE  Moves(r)
<1>1. TypeOK /\ NoIdleSlot
  BY DEF LimiterSound
<1>2. CASE ReleaseSlot(r) /\ waiters # <<>>
  <2>1. Head(waiters) \in Requests /\ Head(waiters) \in ToSet(waiters)
    BY <1>1, <1>2, LeaveLine DEF TypeOK, NoIdleSlot
  <2>2. status[Head(waiters)] = "waiting"
    BY <1>1, <2>1 DEF NoIdleSlot, With
  <2>3. status' = [status EXCEPT ![r] = "ending", ![Head(waiters)] = "running"]
    BY <1>2 DEF ReleaseSlot
  <2> QED
    BY <1>1, <2>1, <2>2, <2>3 DEF Moves, TypeOK
<1>3. CASE ~(ReleaseSlot(r) /\ waiters # <<>>)
  <2>1. \E s : status' = [status EXCEPT ![r] = s]
    BY <1>3 DEF TakeSlot, MissSlot, TakePlace, TurnAway, AwaitSlot, GiveUp, ReleaseSlot, ReleasePlace, Become
  <2> QED
    BY <1>1, <2>1 DEF Moves, TypeOK
<1> QED
  BY <1>2, <1>3

\* What is left of a call's step: its own coupling and its answer.
Others(r) ==
  \A q \in Requests \ {r} :
    phase'[q] = phase[q] /\ answer'[q] = answer[q] /\ recorded'[q] = recorded[q] /\ found'[q] = found[q]

\* A step of one call leaves the others accounted for.
LEMMA CallStepKeeps ==
  ASSUME CallsInv, NEW r \in Requests, [Next]_vars, Moves(r), Others(r), CallTypes', ready' = ready,
         Coupled(r)', AnsweredOnce(r)'
  PROVE  CallsInv'
<1>1. LimiterSound'
  BY LimiterStep DEF CallsInv
<1>2. ASSUME NEW q \in Requests \ {r} PROVE Coupled(q)'
  BY <1>2 DEF CallsInv, Coupled, Moves, Others
<1>3. ASSUME NEW q \in Requests \ {r} PROVE AnsweredOnce(q)'
  BY <1>3 DEF CallsInv, AnsweredOnce, Others
<1> QED
  BY <1>1, <1>2, <1>3 DEF CallsInv

\* Every step of a call, with the limiter's step it makes, keeps every call
\* coupled to its permit and answered at most once.
LEMMA CallStepSound == CallsInv /\ [ToolsNext]_allVars => CallsInv'
<1> SUFFICES ASSUME CallsInv, [ToolsNext]_allVars PROVE CallsInv'
  OBVIOUS
<1>0. LimiterSound /\ TypeOK /\ CallTypes
  BY DEF CallsInv, LimiterSound
<1>a. ASSUME NEW r \in Requests PROVE Coupled(r) /\ AnsweredOnce(r)
  BY DEF CallsInv
<1>b. ASSUME NEW r \in Requests, UNCHANGED limiter PROVE [Next]_vars /\ Moves(r)
  BY <1>b DEF limiter, vars, Moves
<1>c. ASSUME NEW r \in Requests,
             \/ TakeSlot(r) \/ MissSlot(r) \/ TakePlace(r) \/ TurnAway(r)
             \/ AwaitSlot(r) \/ GiveUp(r) \/ ReleaseSlot(r) \/ ReleasePlace(r)
      PROVE  [Next]_vars /\ Moves(r)
  <2>1. Next
    BY <1>c DEF Next
  <2> QED
    BY <1>0, <1>c, <2>1, LimiterMoves
<1>1. CASE UNCHANGED allVars
  <2>1. UNCHANGED vars
    BY <1>1 DEF allVars, limiter, vars
  <2>2. LimiterSound'
    BY <1>0, <2>1, LimiterStep
  <2> QED
    BY <1>0, <1>1, <1>a, <2>2 DEF allVars, limiter, setting, calls, CallsInv, CallTypes, Coupled, AnsweredOnce
<1>2. CASE PassWindow
  <2>1. UNCHANGED vars
    BY <1>2 DEF PassWindow, limiter, vars
  <2>2. LimiterSound'
    BY <1>0, <2>1, LimiterStep
  <2>3. CallTypes'
    BY <1>0, <1>2, RateAssumption DEF PassWindow, setting, calls, CallTypes
  <2> QED
    BY <1>2, <1>a, <2>2, <2>3 DEF PassWindow, limiter, calls, CallsInv, Coupled, AnsweredOnce
<1>10. CASE SearcherReady
  <2>1. UNCHANGED vars
    BY <1>10 DEF SearcherReady, limiter, vars
  <2>2. LimiterSound'
    BY <1>0, <2>1, LimiterStep
  <2>3. CallTypes'
    BY <1>0, <1>10 DEF SearcherReady, setting, calls, CallTypes
  <2> QED
    BY <1>10, <1>a, <2>2, <2>3 DEF SearcherReady, limiter, calls, CallsInv, Coupled, AnsweredOnce
<1>3. ASSUME NEW r \in Requests,
             Arrive(r) \/ Elapse(r) \/ RemainingTimeout(r) \/ WithoutPermit(r) \/ HavePermit(r)
      PROVE  CallsInv'
  <2>1. /\ UNCHANGED <<answer, recorded, allowed, setting, ready, limiter>>
        /\ \A q \in Requests \ {r} : phase'[q] = phase[q] /\ found'[q] = found[q]
    BY <1>0, <1>3 DEF Arrive, Elapse, RemainingTimeout, WithoutPermit, HavePermit, Goto, CallTypes
  <2>2. CallTypes'
    <3>1. phase' \in [Requests -> Phases]
      BY <1>0, <1>3 DEF Arrive, Elapse, RemainingTimeout, WithoutPermit, HavePermit, Goto, CallTypes, Phases
    <3>2. late' \in [Requests -> BOOLEAN] /\ found' \in [Requests -> BOOLEAN]
      BY <1>0, <1>3 DEF Arrive, Elapse, RemainingTimeout, WithoutPermit, HavePermit, CallTypes
    <3>3. timed' \in [Requests -> BOOLEAN]
      <4> DEFINE b == IF kind = "sql" THEN limited ELSE Bound(r) /\ ~late[r]
      <4>1. timed' = timed \/ timed' = [timed EXCEPT ![r] = b] \/ timed' = [timed EXCEPT ![r] = FALSE]
        BY <1>3 DEF Arrive, Elapse, RemainingTimeout, WithoutPermit, HavePermit
      <4>2. b \in BOOLEAN
        BY <1>0 DEF CallTypes
      <4> HIDE DEF b
      <4> QED
        BY <1>0, <4>1, <4>2, Zenon DEF CallTypes
    <3>4. UNCHANGED <<kind, limited>>
      BY <2>1 DEF setting
    <3> QED
      BY <1>0, <2>1, <3>1, <3>2, <3>3, <3>4 DEF CallTypes
  <2>4. \/ phase[r] = "idle" /\ phase'[r] = "start" /\ found'[r] = ready
        \/ phase'[r] = phase[r] /\ found'[r] = found[r]
        \/ phase[r] = "start" /\ phase'[r] = "permit" /\ found'[r] = found[r]
        \/ phase[r] = "start" /\ phase'[r] = "handle" /\ ~ready /\ found'[r] = found[r]
        \/ phase[r] = "permit" /\ phase'[r] = "handle" /\ status[r] = "running" /\ found'[r] = found[r]
    BY <1>0, <1>3 DEF Arrive, Elapse, RemainingTimeout, WithoutPermit, HavePermit, Goto, CallTypes
  <2>5. Coupled(r)'
    BY <1>a, <2>1, <2>4 DEF Coupled, limiter
  <2>6. AnsweredOnce(r)'
    BY <1>a, <2>1, <2>4 DEF AnsweredOnce
  <2> QED
    BY <1>b, <2>1, <2>2, <2>5, <2>6, CallStepKeeps DEF Others
<1>4. ASSUME NEW r \in Requests, Acquire(r) PROVE CallsInv'
  <2>1. /\ UNCHANGED <<setting, ready, calls, allowed>> /\ phase[r] = "permit"
        /\ TakeSlot(r) \/ MissSlot(r) \/ TakePlace(r) \/ AwaitSlot(r)
    BY <1>4 DEF Acquire
  <2>2. status'[r] # "ending"
    BY <1>0, <2>1 DEF TakeSlot, MissSlot, TakePlace, AwaitSlot, Become, TypeOK
  <2>3. CallTypes' /\ Coupled(r)' /\ AnsweredOnce(r)' /\ Others(r)
    BY <1>0, <1>a, <2>1, <2>2 DEF CallTypes, Coupled, AnsweredOnce, Others, calls, setting
  <2> QED
    BY <1>a, <1>c, <2>1, <2>3, CallStepKeeps DEF calls
<1>d. ASSUME NEW r \in Requests, NEW a \in Answers, Goto(r, "drop"), Reply(r, a), StopTimers(r)
      PROVE  /\ phase' \in [Requests -> Phases] /\ late' \in [Requests -> BOOLEAN] /\ timed' \in [Requests -> BOOLEAN]
             /\ found' \in [Requests -> BOOLEAN]
             /\ answer' \in [Requests -> Answers] /\ phase'[r] = "drop" /\ answer'[r] = a /\ ~found'[r]
             /\ \A q \in Requests \ {r} : phase'[q] = phase[q] /\ answer'[q] = answer[q] /\ found'[q] = found[q]
  <2>1. phase' = [phase EXCEPT ![r] = "drop"] /\ "drop" \in Phases
    BY <1>d DEF Goto, Phases
  <2>2. /\ answer' = [answer EXCEPT ![r] = a] /\ found' = [found EXCEPT ![r] = FALSE]
        /\ late' = [late EXCEPT ![r] = FALSE] /\ timed' = [timed EXCEPT ![r] = FALSE]
    BY <1>d DEF Reply, StopTimers
  <2> QED
    BY <1>0, <2>1, <2>2 DEF CallTypes
<1>5. ASSUME NEW r \in Requests, ClientGone(r) \/ Refuse(r) PROVE CallsInv'
  <2>1. PICK a \in {"refused", "gone"} :
          /\ Goto(r, "drop") /\ Reply(r, a) /\ StopTimers(r) /\ UNCHANGED <<setting, ready, recorded, allowed>>
          /\ phase[r] \in {"start", "permit", "handle", "tool"}
          /\ TurnAway(r) \/ GiveUp(r) \/ ReleaseSlot(r) \/ (status[r] = "out" /\ UNCHANGED limiter)
    BY <1>5 DEF ClientGone, Refuse
  <2>2. [Next]_vars /\ Moves(r) /\ status'[r] \in {"out", "ending"}
    <3>1. CASE TurnAway(r) \/ GiveUp(r)
      BY <1>0, <1>c, <3>1 DEF TurnAway, GiveUp, Become, TypeOK
    <3>2. CASE ReleaseSlot(r)
      <4>1. status'[r] = "ending" \/ (waiters # <<>> /\ r = Head(waiters))
        BY <1>0, <3>2 DEF ReleaseSlot, Become, TypeOK
      <4>2. waiters # <<>> => status[Head(waiters)] = "waiting"
        BY <1>0, LeaveLine DEF LimiterSound, TypeOK, NoIdleSlot, With
      <4> QED
        BY <1>c, <3>2, <4>1, <4>2 DEF ReleaseSlot
    <3>3. CASE status[r] = "out" /\ UNCHANGED limiter
      BY <1>b, <3>3 DEF limiter
    <3> QED
      BY <2>1, <3>1, <3>2, <3>3
  <2>3. a \in Answers
    BY DEF Answers
  <2>4. CallTypes'
    BY <1>0, <1>d, <2>1, <2>3 DEF CallTypes, setting
  <2>5. recorded[r] = <<>>
    BY <1>a, <2>1 DEF AnsweredOnce
  <2>6. phase'[r] = "drop" /\ answer'[r] = a /\ ~found'[r] /\ Others(r)
    BY <1>d, <2>1, <2>3 DEF Others
  <2>7. Coupled(r)' /\ AnsweredOnce(r)'
    BY <2>1, <2>2, <2>5, <2>6 DEF Coupled, AnsweredOnce
  <2> QED
    BY <2>1, <2>2, <2>4, <2>6, <2>7, CallStepKeeps
<1>6. ASSUME NEW r \in Requests, NEW a \in {"ok", "error"}, Answer(r, a), phase[r] \in {"handle", "tool"}, allowed' \in 0 .. RateLimit
      PROVE  CallsInv'
  <2>1. /\ Goto(r, "drop") /\ Reply(r, a) /\ Record(r, a) /\ StopTimers(r) /\ UNCHANGED <<limiter, setting, ready>>
    BY <1>6 DEF Answer
  <2>2. a \in Answers
    BY DEF Answers
  <2>3. recorded[r] = <<>> /\ status[r] \in {"running", "out"}
    BY <1>6, <1>a DEF AnsweredOnce, Coupled
  <2>4. recorded' = [recorded EXCEPT ![r] = <<a>>]
    <3>1. Append(<<>>, a) = <<a>>
      OBVIOUS
    <3> QED
      BY <2>1, <2>3, <3>1 DEF Record
  <2>5. recorded' \in [Requests -> Seq(Answers)] /\ recorded'[r] = <<a>> /\ \A q \in Requests \ {r} : recorded'[q] = recorded[q]
    <3>1. <<a>> \in Seq(Answers)
      BY <2>2
    <3> QED
      BY <1>0, <2>4, <3>1 DEF CallTypes
  <2>6. phase'[r] = "drop" /\ answer'[r] = a /\ ~found'[r] /\ Others(r)
    BY <1>d, <2>1, <2>2, <2>5 DEF Others
  <2>7. CallTypes'
    BY <1>0, <1>6, <1>d, <2>1, <2>2, <2>5 DEF CallTypes, setting
  <2>8. status'[r] \in {"running", "out"}
    BY <2>1, <2>3 DEF limiter
  <2>9. Coupled(r)'
    BY <2>6, <2>8 DEF Coupled
  <2>10. AnsweredOnce(r)'
    BY <2>5, <2>6 DEF AnsweredOnce
  <2> QED
    BY <1>b, <2>1, <2>6, <2>7, <2>9, <2>10, CallStepKeeps
<1>7. ASSUME NEW r \in Requests, NoSearcher(r) \/ RateLimited(r) \/ FinishTool(r) \/ ToolTimesOut(r) PROVE CallsInv'
  <2>1. PICK a \in {"ok", "error"} : Answer(r, a) /\ phase[r] \in {"handle", "tool"} /\ allowed' = allowed
    BY <1>7 DEF NoSearcher, RateLimited, FinishTool, ToolTimesOut
  <2> QED
    BY <1>0, <1>6, <2>1 DEF CallTypes
<1>8. ASSUME NEW r \in Requests, StartTool(r) PROVE CallsInv'
  <2>1. allowed' \in 0 .. RateLimit
    BY <1>0, <1>8, RateAssumption DEF StartTool, Allow, CallTypes
  <2>2. CASE Bound(r) /\ late[r]
    BY <1>6, <1>8, <2>1, <2>2 DEF StartTool
  <2>3. CASE ~(Bound(r) /\ late[r])
    <3>1. /\ phase[r] = "handle" /\ Goto(r, "tool")
          /\ UNCHANGED <<limiter, setting, ready, found, late, timed, answer, recorded>>
      BY <1>8, <2>3 DEF StartTool
    <3>2. phase'[r] = "tool" /\ phase' \in [Requests -> Phases] /\ \A q \in Requests \ {r} : phase'[q] = phase[q]
      BY <1>0, <3>1 DEF Goto, CallTypes, Phases
    <3>3. CallTypes' /\ Others(r)
      BY <1>0, <2>1, <3>1, <3>2 DEF CallTypes, Others, setting
    <3>4. Coupled(r)' /\ AnsweredOnce(r)'
      BY <1>a, <3>1, <3>2 DEF Coupled, AnsweredOnce, limiter
    <3> QED
      BY <1>a, <1>b, <3>1, <3>3, <3>4, CallStepKeeps
  <2> QED
    BY <2>2, <2>3
<1>9. ASSUME NEW r \in Requests, DropPermit(r) PROVE CallsInv'
  <2>1. CASE phase[r] = "drop" /\ status[r] = "running" /\ ReleaseSlot(r) /\ UNCHANGED <<setting, ready, calls, allowed>>
    <3>1. [Next]_vars /\ Moves(r)
      BY <1>c, <2>1
    <3>2. status'[r] \in {"running", "ending"}
      BY <1>0, <2>1 DEF ReleaseSlot, Become, TypeOK
    <3>3. CallTypes' /\ Others(r) /\ Coupled(r)' /\ AnsweredOnce(r)'
      BY <1>0, <1>a, <2>1, <3>2 DEF CallTypes, Others, Coupled, AnsweredOnce, calls, setting
    <3> QED
      BY <2>1, <3>1, <3>3, CallStepKeeps
  <2>2. CASE /\ phase[r] = "drop" /\ status[r] \in {"ending", "out"}
             /\ IF status[r] = "ending" THEN ReleasePlace(r) ELSE UNCHANGED limiter
             /\ Goto(r, "idle") /\ Reply(r, "none")
             /\ recorded' = [recorded EXCEPT ![r] = <<>>]
             /\ UNCHANGED <<setting, ready, found, late, timed, allowed>>
    <3>1. [Next]_vars /\ Moves(r) /\ status'[r] = "out"
      <4>1. CASE status[r] = "ending"
        BY <1>0, <1>c, <2>2, <4>1 DEF ReleasePlace, Become, TypeOK
      <4>2. CASE status[r] = "out"
        BY <1>b, <2>2, <4>2 DEF limiter
      <4> QED
        BY <2>2, <4>1, <4>2
    <3>2. phase' = [phase EXCEPT ![r] = "idle"] /\ "idle" \in Phases
      BY <2>2 DEF Goto, Phases
    <3>3. answer' = [answer EXCEPT ![r] = "none"] /\ "none" \in Answers
      BY <2>2 DEF Reply, Answers
    <3>4. recorded' \in [Requests -> Seq(Answers)] /\ recorded'[r] = <<>> /\ \A q \in Requests \ {r} : recorded'[q] = recorded[q]
      <4>1. <<>> \in Seq(Answers)
        OBVIOUS
      <4> QED
        BY <1>0, <2>2, <4>1 DEF CallTypes
    <3>5. CallTypes' /\ Others(r)
      BY <1>0, <2>2, <3>2, <3>3, <3>4 DEF CallTypes, Others, setting
    <3>6. phase'[r] = "idle" /\ answer'[r] = "none"
      BY <1>0, <3>2, <3>3 DEF CallTypes
    <3>7. Coupled(r)' /\ AnsweredOnce(r)'
      BY <1>a, <2>2, <3>1, <3>4, <3>6 DEF Coupled, AnsweredOnce
    <3> QED
      BY <2>2, <3>1, <3>5, <3>7, CallStepKeeps
  <2> QED
    BY <1>9, <2>1, <2>2 DEF DropPermit
<1> QED
  BY <1>1, <1>2, <1>3, <1>4, <1>5, <1>7, <1>8, <1>9, <1>10 DEF ToolsNext, CallStep, ServerStep

\* The permits of the limiter when the server starts.
LEMMA CallsInitially == ToolsInit => CallsInv
<1> SUFFICES ASSUME ToolsInit PROVE CallsInv
  OBVIOUS
<1>1. LimiterSound
  BY LimiterInitially DEF ToolsInit
<1>2. CallTypes
  <2>1. <<>> \in Seq(Answers)
    OBVIOUS
  <2> QED
    BY <2>1, RateAssumption DEF ToolsInit, CallTypes, Phases, Answers
<1>3. ASSUME NEW r \in Requests PROVE Coupled(r) /\ AnsweredOnce(r)
  BY DEF ToolsInit, Init, Coupled, AnsweredOnce
<1> QED
  BY <1>1, <1>2, <1>3 DEF CallsInv

\* Calls that run hold different slots, so there are no more of them than slots.
LEMMA CallsAreAccounted == CallsInv => CallsAccounted
<1> SUFFICES ASSUME CallsInv PROVE CallsAccounted
  OBVIOUS
<1>1. ToolsTypeOK
  BY DEF CallsInv, LimiterSound, CallTypes, ToolsTypeOK
<1>2. RecordedAsAnswered
  BY DEF CallsInv, AnsweredOnce, RecordedAsAnswered
<1>3. RunsHoldSlots
  <2> DEFINE T == {r \in Requests : phase[r] = "tool" /\ found[r]}
  <2>1. T \subseteq With("running")
    BY DEF CallsInv, Coupled, With
  <2>2. IsFiniteSet(T) /\ Cardinality(T) <= Cardinality(With("running")) /\ Cardinality(T) \in Nat
    BY <2>1, GroupsFinite, FS_Subset, FS_CardinalityType
  <2>3. slots \in Nat /\ slots + Cardinality(With("running")) = MaxSlots
    BY DEF CallsInv, LimiterSound, TypeOK, PermitsConserved
  <2>4. Cardinality(With("running")) \in Nat
    BY GroupsFinite
  <2> HIDE DEF T
  <2>5. Cardinality(T) <= MaxSlots
    BY <2>2, <2>3, <2>4
  <2>6. /\ \A r \in Requests : found[r] /\ phase[r] \in {"handle", "tool"} => status[r] = "running"
        /\ \A r \in Requests : status[r] = "running" => phase[r] \in {"permit", "handle", "tool", "drop"}
    BY DEF CallsInv, Coupled, CallTypes, Phases
  <2> QED
    BY <2>5, <2>6 DEF RunsHoldSlots, T
<1> QED
  BY <1>1, <1>2, <1>3 DEF CallsAccounted

\* For any number of calls, slots and places and any rate limit: a running tool of
\* a call that came once the searcher was there holds a slot of its own, through
\* all three looks at the searcher, and every call past its permit leaves the one
\* record that says how it was answered.
THEOREM CallsCorrect == ToolsSpec => []CallsAccounted
BY CallsInitially, CallStepSound, CallsAreAccounted, PTL DEF ToolsSpec

\* However a search that came once the searcher was there waited, with or without
\* a limit, its tool does not start past its deadline.
THEOREM InTime == ToolsSpec => StartsInTime
<1> DEFINE Late(r) == kind = "search" /\ limited /\ found[r] /\ phase[r] = "handle" /\ phase'[r] = "tool"
<1>1. CallsInv /\ [ToolsNext]_allVars => [\A r \in Requests : Late(r) => ~late[r]]_allVars
  <2> SUFFICES ASSUME CallsInv, [ToolsNext]_allVars, NEW r \in Requests, Late(r)
               PROVE  ~late[r] \/ UNCHANGED allVars
    OBVIOUS
  <2>0. CallTypes /\ Bound(r)
    BY DEF CallsInv, Bound
  <2>1. CASE UNCHANGED allVars \/ PassWindow \/ SearcherReady
    BY <2>1 DEF PassWindow, SearcherReady, allVars, calls
  <2>2. ASSUME NEW q \in Requests, CallStep(q) PROVE ~late[r]
    <3>1. CASE StartTool(q)
      <4>1. q = r
        <5> SUFFICES ASSUME q # r PROVE FALSE
          OBVIOUS
        <5>1. \E p \in {"tool", "drop"} : phase' = [phase EXCEPT ![q] = p]
          BY <3>1 DEF StartTool, Answer, Goto
        <5> QED
          BY <2>0, <5>1 DEF CallTypes
      <4> SUFFICES ASSUME late[r] PROVE FALSE
        OBVIOUS
      <4>2. phase' = [phase EXCEPT ![r] = "drop"]
        BY <2>0, <3>1, <4>1 DEF StartTool, Answer, Goto
      <4> QED
        BY <2>0, <4>2 DEF CallTypes
    <3>2. CASE ~StartTool(q)
      <4>1. phase' = phase \/ \E p \in Phases \ {"tool"} : phase' = [phase EXCEPT ![q] = p]
        BY <2>2, <3>2 DEF CallStep, ServerStep, Arrive, Elapse, ClientGone, RemainingTimeout, WithoutPermit, Acquire, Refuse,
           HavePermit, RateLimited, ToolTimesOut, DropPermit, NoSearcher, FinishTool, Answer, Goto, Phases, calls
      <4> QED
        BY <2>0, <4>1 DEF CallTypes
    <3> QED
      BY <3>1, <3>2
  <2> QED
    BY <2>1, <2>2 DEF ToolsNext
<1> QED
  BY <1>1, CallsInitially, CallStepSound, PTL DEF ToolsSpec, StartsInTime

-----------------------------------------------------------------------------
(* The verification of hosted requests.                                    *)

Outcomes == {"none", "ok", "refused", "unknown", "unavailable", "invalid", "malformed", "stale"}

IdentityTypes ==
  /\ mode \in {"jwt", "proxy"}
  /\ published \subseteq Keys /\ jwks \subseteq Keys /\ jwks # {}
  /\ token \in [Callers -> {<<>>} \cup Identity!Tokens \cup Identity!Envelopes]
  /\ at \in [Callers -> {"idle", "check", "fetch", "store", "recheck", "done"}]
  /\ fetched \in [Callers -> SUBSET Keys]
  /\ verdict \in [Callers -> Outcomes]
  /\ steady \in [Callers -> BOOLEAN]

\* A request whose key stays published and that came when every set in hand had
\* the key: every set fetched since has it too, whoever stores it, and so has the
\* cache when the request looks again.
SteadyKept(r) ==
  steady[r] =>
    /\ at[r] # "idle" /\ token[r] \in Identity!Tokens /\ token[r].key \in published
    /\ \A q \in Callers : at[q] = "store" => token[r].key \in fetched[q]
    /\ at[r] = "recheck" => token[r].key \in jwks
    /\ at[r] = "done" /\ token[r].header = "ok" /\ token[r].claims = "good" => verdict[r] \in {"ok", "unavailable"}

\* Tokens are verified in one mode, envelopes in the other.
ModeKept(r) ==
  /\ mode = "jwt" /\ at[r] # "idle" => token[r] \in Identity!Tokens
  /\ mode = "proxy" => at[r] \in {"idle", "done"} /\ ~steady[r]
  /\ mode = "proxy" /\ verdict[r] = "ok" => token[r].now - token[r].iat \in -Skew .. MaxAge

IdentityInv == IdentityTypes /\ \A r \in Callers : SteadyKept(r) /\ ModeKept(r)

\* A token well formed with good claims is accepted when its key is known, and
\* otherwise asks for the keys again.
LEMMA VerdictOfToken ==
  ASSUME NEW t \in Identity!Tokens, NEW keys
  PROVE  /\ Identity!TokenVerdict(t, keys) \in {"ok", "refused", "unknown"}
         /\ t.header = "ok" /\ t.claims = "good" =>
              Identity!TokenVerdict(t, keys) = IF t.key \in keys THEN "ok" ELSE "unknown"
BY DEF Identity!TokenVerdict, Identity!Tokens, Identity!Claims

\* An envelope is accepted only within its age and the clock skew.
LEMMA VerdictOfEnvelope ==
  ASSUME NEW e \in Identity!Envelopes
  PROVE  /\ Identity!EnvelopeVerdict(e) \in Outcomes
         /\ Identity!EnvelopeVerdict(e) = "ok" => e.now - e.iat \in -Skew .. MaxAge
BY IdentityAssumption DEF Identity!EnvelopeVerdict, Identity!Saturate, Identity!Envelopes, Outcomes

\* A request, a refresh of the keys and a rotation by the issuer, in any order,
\* keep what a caller with a good token may count on.
LEMMA IdentityStep == IdentityInv /\ [Identity!Next]_(Identity!vars) => IdentityInv'
<1> SUFFICES ASSUME IdentityInv, [Identity!Next]_(Identity!vars) PROVE IdentityInv'
  OBVIOUS
<1>0. IdentityTypes
  BY DEF IdentityInv
<1>a. ASSUME NEW r \in Callers PROVE SteadyKept(r) /\ ModeKept(r)
  BY DEF IdentityInv
<1>1. CASE UNCHANGED Identity!vars
  BY <1>0, <1>1, <1>a DEF Identity!vars, IdentityInv, IdentityTypes, SteadyKept, ModeKept
<1>2. CASE Identity!Rotate
  <2>1. /\ published' \subseteq Keys /\ UNCHANGED <<mode, jwks, token, at, fetched, verdict>> /\ mode = "jwt"
        /\ steady' = [r \in Callers |-> steady[r] /\ token[r] # <<>> /\ token[r].key \in published']
    BY <1>2 DEF Identity!Rotate
  <2>2. steady' \in [Callers -> BOOLEAN]
    BY <2>1, Zenon
  <2>3. ASSUME NEW r \in Callers, steady'[r] PROVE steady[r] /\ token[r].key \in published'
    BY <2>1, <2>3, Zenon
  <2>4. IdentityTypes'
    BY <1>0, <2>1, <2>2 DEF IdentityTypes
  <2>5. ASSUME NEW r \in Callers PROVE SteadyKept(r)' /\ ModeKept(r)'
    BY <1>a, <2>1, <2>3 DEF SteadyKept, ModeKept
  <2> QED
    BY <2>4, <2>5 DEF IdentityInv
<1>3. ASSUME NEW r \in Callers, Identity!ArriveJwt(r) PROVE IdentityInv'
  <2>1. PICK t \in Identity!Tokens :
          /\ token' = [token EXCEPT ![r] = t]
          /\ steady' = [steady EXCEPT ![r] = t.key \in published /\ \A q \in Callers : at[q] = "store" => t.key \in fetched[q]]
    BY <1>3 DEF Identity!ArriveJwt
  <2>2. mode = "jwt" /\ at[r] = "idle" /\ at' = [at EXCEPT ![r] = "check"] /\ UNCHANGED <<mode, published, jwks, fetched, verdict>>
    BY <1>3 DEF Identity!ArriveJwt, Identity!Goto
  <2>3. /\ steady' \in [Callers -> BOOLEAN]
        /\ steady'[r] => t.key \in published /\ \A q \in Callers : at[q] = "store" => t.key \in fetched[q]
        /\ \A q \in Callers \ {r} : steady'[q] = steady[q]
    BY <1>0, <2>1, Zenon DEF IdentityTypes
  <2>4. /\ token'[r] = t /\ at'[r] = "check" /\ \A q \in Callers \ {r} : token'[q] = token[q] /\ at'[q] = at[q]
    BY <1>0, <2>1, <2>2 DEF IdentityTypes
  <2>5. IdentityTypes'
    BY <1>0, <2>1, <2>2, <2>3 DEF IdentityTypes
  <2>6. ASSUME NEW q \in Callers PROVE SteadyKept(q)' /\ ModeKept(q)'
    <3>1. CASE q = r
      BY <2>2, <2>3, <2>4, <3>1 DEF SteadyKept, ModeKept
    <3>2. CASE q # r
      BY <1>a, <2>2, <2>3, <2>4, <3>2 DEF SteadyKept, ModeKept
    <3> QED
      BY <3>1, <3>2
  <2> QED
    BY <2>5, <2>6 DEF IdentityInv
<1>b. ASSUME NEW r \in Callers, NEW v \in Outcomes, Identity!Decide(r, v), at[r] \notin {"idle", "done"},
             UNCHANGED <<mode, published, jwks, token, steady>>,
             fetched' \in [Callers -> SUBSET Keys], \A q \in Callers \ {r} : fetched'[q] = fetched[q],
             steady[r] /\ token[r].header = "ok" /\ token[r].claims = "good" => v \in {"ok", "unavailable"}
      PROVE  IdentityInv'
  <2>1. at' = [at EXCEPT ![r] = "done"] /\ verdict' = [verdict EXCEPT ![r] = v]
    BY <1>b DEF Identity!Decide, Identity!Goto
  <2>2. /\ at'[r] = "done" /\ verdict'[r] = v /\ \A q \in Callers \ {r} : at'[q] = at[q] /\ verdict'[q] = verdict[q]
    BY <1>0, <2>1 DEF IdentityTypes
  <2>3. IdentityTypes'
    BY <1>0, <1>b, <2>1 DEF IdentityTypes
  <2>4. SteadyKept(r)' /\ ModeKept(r)'
    BY <1>a, <1>b, <2>2 DEF SteadyKept, ModeKept
  <2>5. ASSUME NEW q \in Callers \ {r} PROVE SteadyKept(q)' /\ ModeKept(q)'
    BY <1>a, <1>b, <2>2, <2>5 DEF SteadyKept, ModeKept
  <2> QED
    BY <2>3, <2>4, <2>5 DEF IdentityInv
<1>c. ASSUME NEW r \in Callers, at[r] \notin {"idle", "done"} PROVE mode = "jwt" /\ token[r] \in Identity!Tokens
  BY <1>0, <1>a, <1>c DEF ModeKept, IdentityTypes
<1>4. ASSUME NEW r \in Callers, Identity!Verify(r) PROVE IdentityInv'
  <2> DEFINE v == Identity!TokenVerdict(token[r], jwks)
  <2>1. /\ at[r] = "check" /\ UNCHANGED <<mode, published, jwks, token, fetched, steady>>
        /\ \/ v = "unknown" /\ Identity!Goto(r, "fetch") /\ UNCHANGED verdict
           \/ v # "unknown" /\ Identity!Decide(r, v)
    BY <1>4 DEF Identity!Verify
  <2>2. /\ v \in {"ok", "refused", "unknown"}
        /\ token[r].header = "ok" /\ token[r].claims = "good" => v \in {"ok", "unknown"}
    BY <1>c, <2>1, VerdictOfToken
  <2> HIDE DEF v
  <2>3. CASE Identity!Goto(r, "fetch") /\ UNCHANGED verdict
    <3>1. at' = [at EXCEPT ![r] = "fetch"] /\ at'[r] = "fetch" /\ \A q \in Callers \ {r} : at'[q] = at[q]
      BY <1>0, <2>3 DEF Identity!Goto, IdentityTypes
    <3>2. IdentityTypes'
      BY <1>0, <2>1, <2>3, <3>1 DEF IdentityTypes
    <3>3. ASSUME NEW q \in Callers PROVE SteadyKept(q)' /\ ModeKept(q)'
      BY <1>a, <1>c, <2>1, <2>3, <3>1 DEF SteadyKept, ModeKept
    <3> QED
      BY <3>2, <3>3 DEF IdentityInv
  <2>4. CASE v # "unknown" /\ Identity!Decide(r, v)
    <3>1. v \in Outcomes
      BY <2>2 DEF Outcomes
    <3> QED
      BY <1>0, <1>b, <2>1, <2>2, <2>4, <3>1 DEF IdentityTypes
  <2> QED
    BY <2>1, <2>3, <2>4
<1>5. ASSUME NEW r \in Callers, Identity!Fetch(r) PROVE IdentityInv'
  <2>1. /\ at[r] = "fetch" /\ UNCHANGED <<mode, published, jwks, token, verdict, steady>>
        /\ fetched' = [fetched EXCEPT ![r] = published] /\ at' = [at EXCEPT ![r] = "store"]
    BY <1>5 DEF Identity!Fetch, Identity!Goto
  <2>4. /\ at'[r] = "store" /\ fetched'[r] = published /\ \A q \in Callers \ {r} : at'[q] = at[q] /\ fetched'[q] = fetched[q]
    BY <1>0, <2>1 DEF IdentityTypes
  <2>5. IdentityTypes'
    BY <1>0, <2>1 DEF IdentityTypes
  <2>6. SteadyKept(r)' /\ ModeKept(r)'
    BY <1>a, <1>c, <2>1, <2>4 DEF SteadyKept, ModeKept
  <2>7. ASSUME NEW q \in Callers \ {r} PROVE SteadyKept(q)' /\ ModeKept(q)'
    BY <1>a, <1>c, <2>1, <2>4, <2>7 DEF SteadyKept, ModeKept
  <2> QED
    BY <2>5, <2>6, <2>7 DEF IdentityInv
<1>6. ASSUME NEW r \in Callers, Identity!FetchFails(r) PROVE IdentityInv'
  BY <1>0, <1>6, <1>b DEF Identity!FetchFails, Outcomes, IdentityTypes
<1>7. ASSUME NEW r \in Callers, Identity!Store(r) PROVE IdentityInv'
  <2>1. /\ at[r] = "store" /\ fetched' = [fetched EXCEPT ![r] = {}] /\ UNCHANGED <<mode, published, token, steady>>
        /\ IF fetched[r] = {} THEN Identity!Decide(r, "unavailable") /\ UNCHANGED jwks
           ELSE jwks' = fetched[r] /\ Identity!Goto(r, "recheck") /\ UNCHANGED verdict
    BY <1>7 DEF Identity!Store
  <2>2. fetched' \in [Callers -> SUBSET Keys] /\ \A q \in Callers \ {r} : fetched'[q] = fetched[q]
    BY <1>0, <2>1 DEF IdentityTypes
  <2>3. CASE fetched[r] = {}
    BY <1>b, <2>1, <2>2, <2>3 DEF Outcomes
  <2>4. CASE fetched[r] # {}
    <3>1. /\ jwks' = fetched[r] /\ verdict' = verdict /\ at' = [at EXCEPT ![r] = "recheck"] /\ at'[r] = "recheck"
          /\ \A q \in Callers \ {r} : at'[q] = at[q]
      BY <1>0, <2>1, <2>4 DEF Identity!Goto, IdentityTypes
    <3>2. IdentityTypes'
      BY <1>0, <2>1, <2>2, <2>4, <3>1 DEF IdentityTypes
    <3>3. SteadyKept(r)' /\ ModeKept(r)'
      BY <1>a, <1>c, <2>1, <3>1 DEF SteadyKept, ModeKept
    <3>4. ASSUME NEW q \in Callers \ {r} PROVE SteadyKept(q)' /\ ModeKept(q)'
      BY <1>a, <1>c, <2>1, <2>2, <3>1, <3>4 DEF SteadyKept, ModeKept
    <3> QED
      BY <3>2, <3>3, <3>4 DEF IdentityInv
  <2> QED
    BY <2>3, <2>4
<1>8. ASSUME NEW r \in Callers, Identity!Recheck(r) PROVE IdentityInv'
  <2> DEFINE v == Identity!TokenVerdict(token[r], jwks)
  <2>1. /\ at[r] = "recheck" /\ UNCHANGED <<mode, published, jwks, token, fetched, steady>> /\ Identity!Decide(r, v)
    BY <1>8 DEF Identity!Recheck
  <2>2. /\ v \in Outcomes
        /\ steady[r] /\ token[r].header = "ok" /\ token[r].claims = "good" => v = "ok"
    BY <1>a, <1>c, <2>1, VerdictOfToken DEF SteadyKept, Outcomes
  <2> HIDE DEF v
  <2> QED
    BY <1>0, <1>b, <2>1, <2>2 DEF IdentityTypes
<1>9. ASSUME NEW r \in Callers, Identity!VerifyProxy(r) PROVE IdentityInv'
  <2>1. PICK e \in Identity!Envelopes : token' = [token EXCEPT ![r] = e] /\ Identity!Decide(r, Identity!EnvelopeVerdict(e))
    BY <1>9 DEF Identity!VerifyProxy
  <2>2. mode = "proxy" /\ at[r] = "idle" /\ UNCHANGED <<mode, published, jwks, fetched, steady>>
    BY <1>9 DEF Identity!VerifyProxy
  <2>3. PICK v \in Outcomes : Identity!Decide(r, v) /\ (v = "ok" => e.now - e.iat \in -Skew .. MaxAge)
    BY <2>1, VerdictOfEnvelope
  <2>4. at' = [at EXCEPT ![r] = "done"] /\ verdict' = [verdict EXCEPT ![r] = v]
    BY <2>3 DEF Identity!Decide, Identity!Goto
  <2>5. /\ at'[r] = "done" /\ verdict'[r] = v /\ token'[r] = e
        /\ \A q \in Callers \ {r} : at'[q] = at[q] /\ verdict'[q] = verdict[q] /\ token'[q] = token[q]
    BY <1>0, <2>1, <2>4 DEF IdentityTypes
  <2>6. IdentityTypes'
    BY <1>0, <2>1, <2>2, <2>4 DEF IdentityTypes
  <2>7. ASSUME NEW q \in Callers PROVE SteadyKept(q)' /\ ModeKept(q)'
    BY <1>a, <2>2, <2>3, <2>5 DEF SteadyKept, ModeKept
  <2> QED
    BY <2>6, <2>7 DEF IdentityInv
<1>10. ASSUME NEW r \in Callers, Identity!Leave(r) PROVE IdentityInv'
  <2>1. /\ at' = [at EXCEPT ![r] = "idle"] /\ token' = [token EXCEPT ![r] = <<>>] /\ verdict' = [verdict EXCEPT ![r] = "none"]
        /\ steady' = [steady EXCEPT ![r] = FALSE] /\ UNCHANGED <<mode, published, jwks, fetched>>
    BY <1>10 DEF Identity!Leave, Identity!Goto
  <2>2. /\ at'[r] = "idle" /\ verdict'[r] = "none" /\ ~steady'[r]
        /\ \A q \in Callers \ {r} : at'[q] = at[q] /\ verdict'[q] = verdict[q] /\ token'[q] = token[q] /\ steady'[q] = steady[q]
    BY <1>0, <2>1 DEF IdentityTypes
  <2>3. IdentityTypes'
    BY <1>0, <2>1 DEF IdentityTypes, Outcomes
  <2>4. SteadyKept(r)' /\ ModeKept(r)'
    BY <2>2 DEF SteadyKept, ModeKept
  <2>5. ASSUME NEW q \in Callers \ {r} PROVE SteadyKept(q)' /\ ModeKept(q)'
    BY <1>a, <2>1, <2>2, <2>5 DEF SteadyKept, ModeKept
  <2> QED
    BY <2>3, <2>4, <2>5 DEF IdentityInv
<1> QED
  BY <1>1, <1>2, <1>3, <1>4, <1>5, <1>6, <1>7, <1>8, <1>9, <1>10 DEF Identity!Next

\* For any number of requests and keys, however the issuer rotates: the cache can
\* always verify something; a token whose key stays published is not refused,
\* whatever sets requests that fetched since it came store over its own; and an
\* accepted envelope is within its time, saturation or not.
THEOREM IdentityCorrect == Identity!Spec => []IdentitySound
<1>1. Identity!Init => IdentityInv
  <2> SUFFICES ASSUME Identity!Init PROVE IdentityInv
    OBVIOUS
  <2>1. IdentityTypes
    <3>1. published \subseteq Keys /\ jwks \subseteq Keys /\ jwks # {} /\ mode \in {"jwt", "proxy"}
      BY DEF Identity!Init
    <3>2. steady \in [Callers -> BOOLEAN]
      BY Zenon DEF Identity!Init
    <3>3. /\ token \in [Callers -> {<<>>} \cup Identity!Tokens \cup Identity!Envelopes] /\ fetched \in [Callers -> SUBSET Keys]
      BY DEF Identity!Init
    <3>4. /\ at \in [Callers -> {"idle", "check", "fetch", "store", "recheck", "done"}] /\ verdict \in [Callers -> Outcomes]
      BY DEF Identity!Init, Outcomes
    <3> QED
      BY <3>1, <3>2, <3>3, <3>4 DEF IdentityTypes
  <2>2. ASSUME NEW r \in Callers PROVE SteadyKept(r) /\ ModeKept(r)
    BY DEF Identity!Init, SteadyKept, ModeKept
  <2> QED
    BY <2>1, <2>2 DEF IdentityInv
<1>2. IdentityInv => IdentitySound
  <2> SUFFICES ASSUME IdentityInv PROVE IdentitySound
    OBVIOUS
  <2>1. KeySetUsable
    BY DEF IdentityInv, IdentityTypes, KeySetUsable, Identity!KeySetUsable
  <2>2. GoodTokenAccepted
    BY DEF IdentityInv, SteadyKept, GoodTokenAccepted, Identity!GoodTokenAccepted
  <2>3. AcceptedIsFresh
    BY DEF IdentityInv, ModeKept, AcceptedIsFresh, Identity!AcceptedIsFresh
  <2> QED
    BY <2>1, <2>2, <2>3 DEF IdentitySound
<1> QED
  BY <1>1, <1>2, IdentityStep, PTL DEF Identity!Spec

-----------------------------------------------------------------------------
(* Induction over the natural numbers, and what it gives of definitions by *)
(* recursion along a sequence.                                             *)

\* A set of numbers with 0 and the successors of its elements has them all: the
\* least number outside would have its predecessor inside.
LEMMA SetInduction ==
  ASSUME NEW S \in SUBSET Nat, 0 \in S, \A n \in S : n + 1 \in S
  PROVE  S = Nat
<1> SUFFICES ASSUME Nat \ S # {} PROVE FALSE
  OBVIOUS
<1>1. PICK x \in Nat \ S : \A y \in Nat \ S : ~(<<y, x>> \in OpToRel(<, Nat))
  BY NatLessThanWellFounded, WFMin, Zenon
<1>2. \A y \in Nat \ S : ~(y < x)
  BY <1>1 DEF OpToRel
<1>3. x # 0 /\ x - 1 \in Nat /\ x - 1 < x
  OBVIOUS
<1>4. x - 1 \in S
  BY <1>2, <1>3
<1> QED
  BY <1>4

\* F begins with base, and each value is what g makes of the one before.
Iterates(F, X, base, n, g) ==
  F \in [0 .. n -> X] /\ F[0] = base /\ \A i \in 1 .. n : F[i] = g[i][F[i - 1]]

\* A function is defined by its first value and by what each value makes of the
\* one before.
LEMMA Recursion ==
  ASSUME NEW X, NEW base \in X, NEW n \in Nat, NEW g \in [1 .. n -> [X -> X]]
  PROVE  \E F : Iterates(F, X, base, n, g)
<1> DEFINE Ok(k) == \E F \in [0 .. k -> X] : F[0] = base /\ \A i \in 1 .. k : F[i] = g[i][F[i - 1]]
           S == {k \in Nat : k <= n => Ok(k)}
<1>1. Ok(0)
  <2> DEFINE F == [i \in 0 .. 0 |-> base]
  <2>1. F \in [0 .. 0 -> X] /\ F[0] = base /\ 1 .. 0 = {}
    OBVIOUS
  <2> HIDE DEF F
  <2> QED
    BY <2>1
<1>2. ASSUME NEW k \in Nat, k + 1 <= n, Ok(k) PROVE Ok(k + 1)
  <2>1. PICK F \in [0 .. k -> X] : F[0] = base /\ \A i \in 1 .. k : F[i] = g[i][F[i - 1]]
    BY <1>2
  <2> DEFINE G == [i \in 0 .. (k + 1) |-> IF i <= k THEN F[i] ELSE g[k + 1][F[k]]]
  <2>2. g[k + 1] \in [X -> X] /\ F[k] \in X
    BY <1>2
  <2>3. G \in [0 .. (k + 1) -> X] /\ G[0] = base
    BY <2>1, <2>2
  <2>4. ASSUME NEW i \in 1 .. (k + 1) PROVE G[i] = g[i][G[i - 1]]
    <3>1. CASE i <= k
      BY <2>1, <3>1
    <3>2. CASE i = k + 1
      BY <3>2
    <3> QED
      BY <3>1, <3>2
  <2> HIDE DEF G
  <2> QED
    BY <2>3, <2>4
<1> HIDE DEF Ok
<1>3. 0 \in S /\ \A k \in S : k + 1 \in S
  BY <1>1, <1>2
<1>4. S \in SUBSET Nat
  OBVIOUS
<1> HIDE DEF S
<1>5. n \in S
  BY <1>3, <1>4, SetInduction
<1> QED
  BY <1>5 DEF S, Ok, Iterates

\* Two functions that begin alike and go on alike are alike.
GoAlike(F, G, n) == F[0] = G[0] /\ \A i \in 1 .. n : F[i - 1] = G[i - 1] => F[i] = G[i]

LEMMA SameAlong ==
  ASSUME NEW F, NEW G, NEW n \in Nat, GoAlike(F, G, n)
  PROVE  F[n] = G[n]
<1> DEFINE S == {k \in Nat : k <= n => F[k] = G[k]}
<1>1. 0 \in S /\ S \in SUBSET Nat
  BY DEF GoAlike
<1>2. ASSUME NEW k \in S PROVE k + 1 \in S
  <2>1. k + 1 <= n => k + 1 \in 1 .. n /\ (k + 1) - 1 = k
    OBVIOUS
  <2> QED
    BY <2>1 DEF GoAlike
<1> HIDE DEF S
<1>3. n \in S
  BY <1>1, <1>2, SetInduction
<1> QED
  BY <1>3 DEF S

-----------------------------------------------------------------------------
(* The trace.                                                              *)

TraceRows == [by : Writers \cup {0}, n : Nat, index : Int, size : Nat]
TraceLines == [rows : Seq(TraceRows), size : Nat, torn : BOOLEAN]

\* The length of the file is the sum along its lines.
LEMMA BytesAlong ==
  ASSUME NEW f \in Seq(TraceLines)
  PROVE  \E sum \in [0 .. Len(f) -> Nat] :
           /\ sum[0] = 0 /\ \A i \in 1 .. Len(f) : sum[i] = sum[i - 1] + f[i].size
           /\ Trace!Bytes(f) = sum[Len(f)]
<1> DEFINE n == Len(f)
           P(s) == s = [i \in 0 .. n |-> IF i = 0 THEN 0 ELSE s[i - 1] + f[i].size]
           g == [i \in 1 .. n |-> [x \in Nat |-> x + f[i].size]]
           sum == CHOOSE s : P(s)
<1>6. Trace!Bytes(f) = sum[n]
  BY DEF Trace!Bytes
<1>0. n \in Nat /\ \A i \in 1 .. n : f[i] \in TraceLines
  OBVIOUS
<1>a. \A i \in 1 .. n : f[i].size \in Nat
  BY <1>0 DEF TraceLines
<1> HIDE DEF n
<1>1. g \in [1 .. n -> [Nat -> Nat]]
  BY <1>0, <1>a
<1>2. PICK F \in [0 .. n -> Nat] : F[0] = 0 /\ \A i \in 1 .. n : F[i] = g[i][F[i - 1]]
  <2>1. 0 \in Nat
    OBVIOUS
  <2> HIDE DEF g, P, sum
  <2>2. \E F : Iterates(F, Nat, 0, n, g)
    BY <1>0, <1>1, <2>1, Recursion
  <2> QED
    BY <2>2 DEF Iterates
<1>3. \A i \in 1 .. n : F[i] = F[i - 1] + f[i].size
  <2>1. \A i \in 1 .. n : F[i - 1] \in Nat
    BY <1>0
  <2> QED
    BY <1>2, <2>1
<1>4. P(F)
  BY <1>2, <1>3
<1>5. P(sum)
  <2> HIDE DEF P
  <2> QED
    BY <1>4
<1>7. sum[0] = F[0] /\ \A i \in 1 .. n : sum[i] = sum[i - 1] + f[i].size
  <2> HIDE DEF sum
  <2> QED
    BY <1>0, <1>2, <1>5
<1>8. sum[n] = F[n]
  <2>1. \A i \in 1 .. n : sum[i - 1] = F[i - 1] => sum[i] = F[i]
    BY <1>3, <1>7
  <2> HIDE DEF sum
  <2>2. GoAlike(sum, F, n)
    BY <1>7, <2>1 DEF GoAlike
  <2> QED
    BY <1>0, <2>2, SameAlong
<1> HIDE DEF sum
<1> QED
  BY <1>2, <1>3, <1>6, <1>8 DEF n

\* One line more, its bytes more.
LEMMA BytesAppend ==
  ASSUME NEW f \in Seq(TraceLines), NEW l \in TraceLines
  PROVE  Trace!Bytes(f) \in Nat /\ Trace!Bytes(<<>>) = 0 /\ Trace!Bytes(Append(f, l)) = Trace!Bytes(f) + l.size
<1> DEFINE h == Append(f, l)
           n == Len(f)
<1>0. /\ n \in Nat /\ h \in Seq(TraceLines) /\ Len(h) = n + 1
      /\ h[n + 1] = l /\ \A i \in 1 .. n : h[i] = f[i]
  OBVIOUS
<1>e. Trace!Bytes(<<>>) = 0
  <2>1. <<>> \in Seq(TraceLines) /\ Len(<<>>) = 0
    OBVIOUS
  <2> QED
    BY <2>1, BytesAlong
<1>1. PICK F \in [0 .. n -> Nat] :
        /\ F[0] = 0 /\ \A i \in 1 .. n : F[i] = F[i - 1] + f[i].size
        /\ Trace!Bytes(f) = F[n]
  BY BytesAlong
<1> HIDE DEF h, n
<1>2. PICK G \in [0 .. Len(h) -> Nat] :
        /\ G[0] = 0 /\ \A i \in 1 .. Len(h) : G[i] = G[i - 1] + h[i].size
        /\ Trace!Bytes(h) = G[Len(h)]
  BY <1>0, BytesAlong
<1>3. ASSUME NEW i \in 1 .. n PROVE G[i] = G[i - 1] + f[i].size
  <2>1. i \in 1 .. Len(h) /\ h[i] = f[i]
    BY <1>0
  <2> QED
    BY <1>2, <2>1
<1>4. F[n] = G[n]
  <2>1. \A i \in 1 .. n : F[i - 1] = G[i - 1] => F[i] = G[i]
    BY <1>1, <1>3
  <2>2. F[0] = G[0]
    BY <1>1, <1>2
  <2>3. GoAlike(F, G, n)
    BY <2>1, <2>2 DEF GoAlike
  <2> QED
    BY <1>0, <2>3, SameAlong
<1>5. G[n + 1] = G[n] + l.size
  <2>1. n + 1 \in 1 .. Len(h) /\ (n + 1) - 1 = n
    BY <1>0
  <2> QED
    BY <1>0, <1>2, <2>1
<1>6. Trace!Bytes(f) \in Nat
  BY <1>0, <1>1
<1> QED
  BY <1>0, <1>e, <1>1, <1>2, <1>4, <1>5, <1>6 DEF h

\* A row stays one when it is numbered.
LEMMA NumberedType ==
  ASSUME NEW rows \in Seq(TraceRows), NEW r \in TraceRows
  PROVE  /\ Trace!Numbered(rows, r) \in Seq(TraceRows)
         /\ Len(Trace!Numbered(rows, r)) = Len(rows) + 1
         /\ \A i \in 1 .. Len(rows) : Trace!Numbered(rows, r)[i] = rows[i]
         /\ Trace!Numbered(rows, r)[Len(rows) + 1] = [r EXCEPT !.index = Len(rows)]
<1>1. [r EXCEPT !.index = Len(rows)] \in TraceRows
  <2>1. Len(rows) \in Int
    OBVIOUS
  <2>2. \A m \in Int : [r EXCEPT !.index = m] \in TraceRows
    BY DEF TraceRows
  <2> QED
    BY <2>1, <2>2
<1> DEFINE s == [r EXCEPT !.index = Len(rows)]
<1> HIDE DEF s
<1> QED
  BY <1>1 DEF Trace!Numbered, s

\* What a line adds to the rows read before it.
ReadOn(x, l) == IF Trace!Parses(l) THEN Trace!Numbered(x, l.rows[1]) ELSE x

LEMMA ReadOnType ==
  ASSUME NEW x \in Seq(TraceRows), NEW l \in TraceLines
  PROVE  ReadOn(x, l) \in Seq(TraceRows)
<1>1. l.rows \in Seq(TraceRows)
  BY DEF TraceLines
<1>2. Trace!Parses(l) => l.rows[1] \in TraceRows
  BY <1>1, ElementOfSeq DEF Trace!Parses
<1> QED
  BY <1>2, NumberedType DEF ReadOn

\* What is read of a file is read along its lines.
LEMMA ReadAlong ==
  ASSUME NEW f \in Seq(TraceLines)
  PROVE  \E read \in [0 .. Len(f) -> Seq(TraceRows)] :
           /\ read[0] = <<>> /\ \A i \in 1 .. Len(f) : read[i] = ReadOn(read[i - 1], f[i])
           /\ Trace!ReadRows(f) = read[Len(f)]
<1> DEFINE n == Len(f)
           X == Seq(TraceRows)
           P(s) == s = [i \in 0 .. n |-> IF i = 0 THEN <<>>
                                         ELSE IF Trace!Parses(f[i]) THEN Trace!Numbered(s[i - 1], f[i].rows[1])
                                         ELSE s[i - 1]]
           g == [i \in 1 .. n |-> [x \in X |-> ReadOn(x, f[i])]]
           read == CHOOSE s : P(s)
<1>6. Trace!ReadRows(f) = read[n]
  BY DEF Trace!ReadRows
<1>0. n \in Nat /\ \A i \in 1 .. n : f[i] \in TraceLines
  OBVIOUS
<1> HIDE DEF n
<1>1. g \in [1 .. n -> [X -> X]]
  BY <1>0, ReadOnType
<1>2. PICK F \in [0 .. n -> X] : F[0] = <<>> /\ \A i \in 1 .. n : F[i] = g[i][F[i - 1]]
  <2>1. <<>> \in X
    OBVIOUS
  <2> HIDE DEF g, P, read, X
  <2>2. \E F : Iterates(F, X, <<>>, n, g)
    BY <1>0, <1>1, <2>1, Recursion
  <2> QED
    BY <2>2 DEF Iterates
<1>3. \A i \in 1 .. n : F[i] = ReadOn(F[i - 1], f[i])
  <2>1. \A i \in 1 .. n : F[i - 1] \in X
    BY <1>0
  <2> HIDE DEF X
  <2> QED
    BY <1>2, <2>1
<1>4. P(F)
  BY <1>2, <1>3 DEF ReadOn
<1>5. P(read)
  <2> HIDE DEF P
  <2> QED
    BY <1>4
<1>7. read[0] = F[0] /\ \A i \in 1 .. n : read[i] = ReadOn(read[i - 1], f[i])
  <2> HIDE DEF read
  <2>1. read[0] = <<>>
    BY <1>0, <1>5
  <2>2. ASSUME NEW i \in 1 .. n PROVE read[i] = ReadOn(read[i - 1], f[i])
    <3>1. i \in 0 .. n /\ i # 0
      BY <1>0
    <3> QED
      BY <1>5, <3>1 DEF ReadOn
  <2> QED
    BY <1>2, <2>1, <2>2
<1>8. read[n] = F[n]
  <2>1. \A i \in 1 .. n : read[i - 1] = F[i - 1] => read[i] = F[i]
    BY <1>3, <1>7
  <2> HIDE DEF read
  <2>2. GoAlike(read, F, n)
    BY <1>7, <2>1 DEF GoAlike
  <2> QED
    BY <1>0, <2>2, SameAlong
<1> HIDE DEF read
<1> QED
  BY <1>2, <1>3, <1>6, <1>8 DEF n

\* One line more is read after the others.
LEMMA ReadAppend ==
  ASSUME NEW f \in Seq(TraceLines), NEW l \in TraceLines
  PROVE  /\ Trace!ReadRows(f) \in Seq(TraceRows) /\ Trace!ReadRows(<<>>) = <<>>
         /\ Trace!ReadRows(Append(f, l)) = ReadOn(Trace!ReadRows(f), l)
<1> DEFINE h == Append(f, l)
           n == Len(f)
<1>0. /\ n \in Nat /\ h \in Seq(TraceLines) /\ Len(h) = n + 1
      /\ h[n + 1] = l /\ \A i \in 1 .. n : h[i] = f[i]
  OBVIOUS
<1>e. Trace!ReadRows(<<>>) = <<>>
  <2>1. <<>> \in Seq(TraceLines) /\ Len(<<>>) = 0
    OBVIOUS
  <2> QED
    BY <2>1, ReadAlong
<1>1. PICK F \in [0 .. n -> Seq(TraceRows)] :
        /\ F[0] = <<>> /\ \A i \in 1 .. n : F[i] = ReadOn(F[i - 1], f[i])
        /\ Trace!ReadRows(f) = F[n]
  BY ReadAlong
<1> HIDE DEF h, n
<1>2. PICK G \in [0 .. Len(h) -> Seq(TraceRows)] :
        /\ G[0] = <<>> /\ \A i \in 1 .. Len(h) : G[i] = ReadOn(G[i - 1], h[i])
        /\ Trace!ReadRows(h) = G[Len(h)]
  BY <1>0, ReadAlong
<1>3. ASSUME NEW i \in 1 .. n PROVE G[i] = ReadOn(G[i - 1], f[i])
  <2>1. i \in 1 .. Len(h) /\ h[i] = f[i]
    BY <1>0
  <2> QED
    BY <1>2, <2>1
<1>4. F[n] = G[n]
  <2>1. \A i \in 1 .. n : F[i - 1] = G[i - 1] => F[i] = G[i]
    BY <1>1, <1>3
  <2>2. F[0] = G[0]
    BY <1>1, <1>2
  <2>3. GoAlike(F, G, n)
    BY <2>1, <2>2 DEF GoAlike
  <2> QED
    BY <1>0, <2>3, SameAlong
<1>5. G[n + 1] = ReadOn(G[n], l)
  <2>1. n + 1 \in 1 .. Len(h) /\ (n + 1) - 1 = n
    BY <1>0
  <2> QED
    BY <1>0, <1>2, <2>1
<1>6. Trace!ReadRows(f) \in Seq(TraceRows)
  BY <1>0, <1>1
<1> QED
  BY <1>0, <1>e, <1>1, <1>2, <1>4, <1>5, <1>6 DEF h

\* A file that the trace can hold: every line has a row.
TraceFile(f) == f \in Seq(TraceLines) /\ \A i \in 1 .. Len(f) : Len(f[i].rows) >= 1

\* The row goes to the end of the file, and is read if it has a line of its own
\* and its end.
LEMMA Putting ==
  ASSUME NEW f, TraceFile(f), NEW r \in TraceRows, NEW torn \in BOOLEAN
  PROVE  LET p == Trace!Put(f, r, torn)
         IN  /\ TraceFile(p)
             /\ Trace!Bytes(p) = Trace!Bytes(f) + r.size
             /\ Trace!ReadRows(p) =
                  IF torn \/ (f # <<>> /\ Trace!Last(f).torn) THEN Trace!ReadRows(f)
                  ELSE Trace!Numbered(Trace!ReadRows(f), r)
<1> DEFINE p == Trace!Put(f, r, torn)
<1>r. r.size \in Nat
  BY DEF TraceRows
<1>f. f \in Seq(TraceLines) /\ Len(f) \in Nat /\ \A i \in 1 .. Len(f) : f[i] \in TraceLines /\ Len(f[i].rows) >= 1
  BY DEF TraceFile
<1>1. CASE ~(f # <<>> /\ Trace!Last(f).torn)
  <2> DEFINE l == Trace!Line(r, torn)
  <2>1. l \in TraceLines /\ l.rows = <<r>> /\ l.size = r.size /\ l.torn = torn
    BY <1>r DEF Trace!Line, TraceLines
  <2>2. p = Append(f, l)
    BY <1>1 DEF Trace!Put
  <2> HIDE DEF l, p
  <2>3. TraceFile(p)
    <3>1. p \in Seq(TraceLines) /\ Len(p) = Len(f) + 1 /\ p[Len(f) + 1] = l /\ \A i \in 1 .. Len(f) : p[i] = f[i]
      BY <1>f, <2>1, <2>2
    <3>2. Len(l.rows) >= 1
      BY <2>1
    <3> QED
      BY <1>f, <3>1, <3>2 DEF TraceFile
  <2>4. Trace!Bytes(p) = Trace!Bytes(f) + r.size
    BY <1>f, <2>1, <2>2, BytesAppend
  <2>5. Trace!ReadRows(p) = ReadOn(Trace!ReadRows(f), l)
    BY <1>f, <2>1, <2>2, ReadAppend
  <2>6. Trace!Parses(l) <=> ~torn
    BY <2>1 DEF Trace!Parses
  <2>7. l.rows[1] = r
    BY <2>1
  <2> QED
    BY <1>1, <2>3, <2>4, <2>5, <2>6, <2>7 DEF ReadOn, p
<1>2. CASE f # <<>> /\ Trace!Last(f).torn
  <2> DEFINE n == Len(f)
             e == SubSeq(f, 1, n - 1)
             k == f[n]
             l == [rows |-> Append(k.rows, r), size |-> k.size + r.size, torn |-> torn]
  <2>1. n \in Nat /\ n >= 1 /\ k \in TraceLines /\ k.torn /\ Len(k.rows) >= 1
    BY <1>2, <1>f DEF Trace!Last
  <2>k. k.rows \in Seq(TraceRows) /\ k.size \in Nat
    BY <2>1 DEF TraceLines
  <2>2. l \in TraceLines /\ l.size = k.size + r.size /\ Len(l.rows) >= 2 /\ Len(l.rows) # 1
    BY <1>r, <2>1, <2>k DEF TraceLines
  <2>3. p = [f EXCEPT ![n] = l]
    BY <1>2 DEF Trace!Put
  <2> HIDE DEF l, p
  <2>4. e \in Seq(TraceLines) /\ Len(e) = n - 1 /\ \A i \in 1 .. (n - 1) : e[i] = f[i]
    <3>1. 1 \in 1 .. n + 1 /\ n - 1 \in 0 .. n /\ (n - 1) - 1 + 1 = n - 1
      BY <2>1
    <3> QED
      BY <1>f, <2>1, <3>1, SubSeqProperties
  <2> HIDE DEF e
  <2>5. f = Append(e, k)
    BY <1>f, <2>1, <2>4
  <2>6. p = Append(e, l)
    <3>1. p \in Seq(TraceLines) /\ Len(p) = n /\ p[n] = l /\ \A i \in 1 .. (n - 1) : p[i] = f[i]
      BY <1>f, <2>1, <2>2, <2>3
    <3> HIDE DEF n, k
    <3>2. Append(e, l) \in Seq(TraceLines) /\ Len(Append(e, l)) = n /\ Append(e, l)[n] = l /\ \A i \in 1 .. (n - 1) : Append(e, l)[i] = f[i]
      BY <2>1, <2>2, <2>4
    <3>3. \A i \in 1 .. n : p[i] = Append(e, l)[i]
      BY <2>1, <3>1, <3>2
    <3> QED
      BY <3>1, <3>2, <3>3, SeqEqual
  <2> HIDE DEF k, n
  <2>7. p \in Seq(TraceLines) /\ Len(p) = n /\ p[n] = l /\ \A i \in 1 .. (n - 1) : p[i] = f[i]
    BY <2>1, <2>2, <2>4, <2>6
  <2>8. TraceFile(p)
    BY <1>f, <2>1, <2>2, <2>7 DEF TraceFile, n
  <2>9. ~Trace!Parses(l) /\ ~Trace!Parses(k)
    BY <2>1, <2>2 DEF Trace!Parses
  <2>10. Trace!ReadRows(p) = Trace!ReadRows(e) /\ Trace!ReadRows(f) = Trace!ReadRows(e)
    BY <2>1, <2>2, <2>4, <2>5, <2>6, <2>9, ReadAppend DEF ReadOn
  <2>11. Trace!Bytes(f) = Trace!Bytes(e) + k.size /\ Trace!Bytes(p) = Trace!Bytes(e) + l.size /\ Trace!Bytes(e) \in Nat
    BY <2>1, <2>2, <2>4, <2>5, <2>6, BytesAppend
  <2>12. Trace!Bytes(p) = Trace!Bytes(f) + r.size
    BY <1>r, <2>2, <2>k, <2>11
  <2> QED
    BY <1>2, <2>8, <2>10, <2>12 DEF p
<1> QED
  BY <1>1, <1>2

\* The rows read are the rows written, but for their numbers.
SameRows(rows, s) ==
  /\ Len(rows) = Len(s)
  /\ \A i \in DOMAIN rows : [rows[i] EXCEPT !.index = 0] = [s[i] EXCEPT !.index = 0]

LEMMA SameRowsAppend ==
  ASSUME NEW rows \in Seq(TraceRows), NEW s \in Seq(TraceRows), NEW r \in TraceRows, SameRows(rows, s)
  PROVE  SameRows(Trace!Numbered(rows, r), Append(s, r))
<1> DEFINE a == Trace!Numbered(rows, r)
           b == Append(s, r)
           n == Len(rows)
<1>1. a \in Seq(TraceRows) /\ Len(a) = n + 1 /\ (\A i \in 1 .. n : a[i] = rows[i]) /\ a[n + 1] = [r EXCEPT !.index = n]
  BY NumberedType
<1>2. n \in Nat /\ DOMAIN rows = 1 .. n /\ Len(s) = n
  BY DEF SameRows
<1>3. Len(b) = n + 1 /\ (\A i \in 1 .. n : b[i] = s[i]) /\ b[n + 1] = r
  BY <1>2
<1>4. DOMAIN a = 1 .. (n + 1)
  BY <1>1
<1> HIDE DEF a, b, n
<1>5. [a[n + 1] EXCEPT !.index = 0] = [b[n + 1] EXCEPT !.index = 0]
  BY <1>1, <1>3 DEF TraceRows
<1>6. ASSUME NEW i \in 1 .. (n + 1) PROVE [a[i] EXCEPT !.index = 0] = [b[i] EXCEPT !.index = 0]
  <2>1. CASE i = n + 1
    BY <1>5, <2>1
  <2>2. CASE i # n + 1
    <3>1. i \in 1 .. n
      BY <1>2, <2>2
    <3>2. a[i] = rows[i] /\ b[i] = s[i]
      BY <1>1, <1>3, <3>1
    <3>3. [rows[i] EXCEPT !.index = 0] = [s[i] EXCEPT !.index = 0]
      BY <1>2, <3>1 DEF SameRows
    <3> QED
      BY <3>2, <3>3
  <2> QED
    BY <2>1, <2>2
<1> QED
  BY <1>1, <1>3, <1>4, <1>6 DEF SameRows, a, b

\* The inductive invariant of the trace.
TraceTypes ==
  /\ TraceFile(file) /\ since \in Seq(TraceRows)
  /\ nextIndex \in [Procs -> Int] /\ \A p \in Procs : nextIndex[p] >= -1
  /\ home \in [Writers -> Procs]
  /\ seed \in [Writers -> Nat]
  /\ row \in [Writers -> TraceRows]
TraceBound == MaxBytes > 0 => Trace!Bytes(file) <= MaxBytes
TraceInv == TraceTypes /\ TraceBound /\ SameRows(Trace!ReadRows(file), since)

LEMMA EmptyTrace ==
  /\ TraceFile(<<>>) /\ Trace!Bytes(<<>>) = 0 /\ Trace!ReadRows(<<>>) = <<>>
  /\ <<>> \in Seq(TraceRows) /\ SameRows(<<>>, <<>>)
<1>1. <<>> \in Seq(TraceLines) /\ Len(<<>>) = 0 /\ DOMAIN <<>> = {} /\ 1 .. 0 = {}
  OBVIOUS
<1>2. PICK l : l = [rows |-> <<>>, size |-> 0, torn |-> FALSE]
  OBVIOUS
<1>3. l \in TraceLines
  BY <1>2 DEF TraceLines
<1>4. Trace!Bytes(<<>>) = 0 /\ Trace!ReadRows(<<>>) = <<>>
  BY <1>1, <1>3, BytesAppend, ReadAppend
<1>5. <<>> \in Seq(TraceRows)
  OBVIOUS
<1> QED
  BY <1>1, <1>4, <1>5 DEF TraceFile, SameRows

LEMMA TraceInit == Trace!Init => TraceInv
<1> SUFFICES ASSUME Trace!Init PROVE TraceInv
  OBVIOUS
<1> USE DEF Trace!Init
<1>1. Trace!NoRow \in TraceRows
  BY DEF Trace!NoRow, TraceRows
<1>2. TraceTypes
  BY <1>1, EmptyTrace DEF TraceTypes
<1>3. TraceBound
  BY EmptyTrace, TraceAssumption DEF TraceBound
<1>4. SameRows(Trace!ReadRows(file), since)
  BY EmptyTrace
<1> QED
  BY <1>2, <1>3, <1>4 DEF TraceInv

\* What putting a row on a file within the bound makes of it.
LEMMA TracePut ==
  ASSUME NEW f, TraceFile(f), NEW s \in Seq(TraceRows), SameRows(Trace!ReadRows(f), s),
         NEW r \in TraceRows, NEW torn \in BOOLEAN,
         MaxBytes > 0 => Trace!Bytes(f) + r.size <= MaxBytes,
         file' = Trace!Put(f, r, torn),
         since' = IF torn \/ (f # <<>> /\ Trace!Last(f).torn) THEN s ELSE Append(s, r)
  PROVE  TraceFile(file') /\ since' \in Seq(TraceRows) /\ TraceBound' /\ SameRows(Trace!ReadRows(file)', since')
<1> DEFINE h == Trace!Put(f, r, torn)
<1>1. /\ TraceFile(h) /\ Trace!Bytes(h) = Trace!Bytes(f) + r.size
      /\ Trace!ReadRows(h) = IF torn \/ (f # <<>> /\ Trace!Last(f).torn) THEN Trace!ReadRows(f)
                             ELSE Trace!Numbered(Trace!ReadRows(f), r)
  BY Putting
<1>2. file' = h
  OBVIOUS
<1> HIDE DEF h
<1>3. Trace!ReadRows(f) \in Seq(TraceRows)
  <2>1. PICK l : l = [rows |-> <<>>, size |-> 0, torn |-> FALSE]
    OBVIOUS
  <2>2. l \in TraceLines
    BY <2>1 DEF TraceLines
  <2> QED
    BY <2>2, ReadAppend DEF TraceFile
<1>4. SameRows(Trace!ReadRows(h), since')
  BY <1>1, <1>3, SameRowsAppend
<1>5. since' \in Seq(TraceRows)
  OBVIOUS
<1> QED
  BY <1>1, <1>2, <1>4, <1>5 DEF TraceBound

\* The lines that an appending writer begins with.
LEMMA TraceRoom ==
  ASSUME TraceInv, NEW w \in Writers, ~(MaxBytes > 0 /\ row[w].size > MaxBytes),
         NEW f, f = IF Trace!Full(file, row[w]) THEN <<>> ELSE file,
         NEW s, s = IF Trace!Full(file, row[w]) THEN <<>> ELSE since
  PROVE  /\ TraceFile(f) /\ s \in Seq(TraceRows) /\ SameRows(Trace!ReadRows(f), s)
         /\ MaxBytes > 0 => Trace!Bytes(f) + row[w].size <= MaxBytes
<1>1. row[w].size \in Nat
  BY DEF TraceInv, TraceTypes, TraceRows
<1>2. Trace!Bytes(file) \in Nat
  <2>1. PICK l : l = [rows |-> <<>>, size |-> 0, torn |-> FALSE]
    OBVIOUS
  <2>2. l \in TraceLines
    BY <2>1 DEF TraceLines
  <2> QED
    BY <2>2, BytesAppend DEF TraceInv, TraceTypes, TraceFile
<1>3. CASE Trace!Full(file, row[w])
  BY <1>1, <1>3, EmptyTrace, TraceAssumption
<1>4. CASE ~Trace!Full(file, row[w])
  BY <1>1, <1>2, <1>4, TraceAssumption DEF TraceInv, TraceTypes, Trace!Full
<1> QED
  BY <1>3, <1>4

LEMMA TraceStep == TraceInv /\ [Trace!Next]_(Trace!vars) => TraceInv'
<1> SUFFICES ASSUME TraceInv, [Trace!Next]_(Trace!vars) PROVE TraceInv'
  OBVIOUS
<1> USE DEF TraceInv
<1>0. CASE UNCHANGED Trace!vars
  BY <1>0 DEF Trace!vars, TraceTypes, TraceBound
<1>k. ASSUME UNCHANGED <<file, since>> PROVE TraceFile(file)' /\ (since \in Seq(TraceRows))' /\ TraceBound' /\ SameRows(Trace!ReadRows(file), since)'
  BY <1>k DEF TraceTypes, TraceBound
<1>1. ASSUME NEW w \in Writers, Trace!TakeIndex(w) PROVE TraceInv'
  <2>1. UNCHANGED <<file, home, seed, since>>
    BY <1>1 DEF Trace!TakeIndex
  <2>2. PICK size \in RowBytes : row' = [row EXCEPT ![w] = Trace!NewRow(w, size)]
    BY <1>1 DEF Trace!TakeIndex
  <2>3. Trace!NewRow(w, size) \in TraceRows
    <3>1. row[w].n \in Nat /\ nextIndex[home[w]] \in Int /\ size \in Nat
      BY TraceAssumption DEF TraceTypes, TraceRows
    <3> QED
      BY <3>1 DEF Trace!NewRow, Trace!Calls, TraceRows
  <2>4. nextIndex' \in [Procs -> Int] /\ \A p \in Procs : nextIndex'[p] >= -1
    BY <1>1 DEF Trace!TakeIndex, TraceTypes
  <2> QED
    BY <1>k, <2>1, <2>2, <2>3, <2>4 DEF TraceTypes
<1>2. ASSUME NEW w \in Writers, Trace!CountRows(w) PROVE TraceInv'
  <2>1. UNCHANGED <<file, nextIndex, home, row, since>> /\ seed' = [seed EXCEPT ![w] = Trace!ExistingRowCount(file)]
    BY <1>2 DEF Trace!CountRows
  <2>2. Trace!ExistingRowCount(file) \in Nat
    <3>1. Len(Trace!ReadRows(file)) = Len(since)
      BY DEF SameRows
    <3> QED
      BY <3>1 DEF Trace!ExistingRowCount, TraceTypes
  <2> QED
    BY <1>k, <2>1, <2>2 DEF TraceTypes
<1>3. ASSUME NEW w \in Writers, Trace!Seed(w) PROVE TraceInv'
  <2>1. UNCHANGED <<file, home, seed, row, since>>
    BY <1>3 DEF Trace!Seed
  <2>2. nextIndex' \in [Procs -> Int] /\ \A p \in Procs : nextIndex'[p] >= -1
    BY <1>3 DEF Trace!Seed, TraceTypes
  <2> QED
    BY <1>k, <2>1, <2>2 DEF TraceTypes
<1>4. ASSUME NEW w \in Writers, Trace!Skip(w) PROVE TraceInv'
  BY <1>4, <1>k DEF Trace!Skip, TraceTypes
<1>5. ASSUME NEW w \in Writers, Trace!AppendRow(w) PROVE TraceInv'
  <2> DEFINE f == IF Trace!Full(file, row[w]) THEN <<>> ELSE file
             s == IF Trace!Full(file, row[w]) THEN <<>> ELSE since
  <2>1. /\ ~(MaxBytes > 0 /\ row[w].size > MaxBytes)
        /\ file' = Trace!Put(f, row[w], FALSE)
        /\ since' = IF f # <<>> /\ Trace!Last(f).torn THEN s ELSE Append(s, row[w])
        /\ UNCHANGED <<nextIndex, home, seed, row>>
    BY <1>5 DEF Trace!AppendRow
  <2>2. /\ TraceFile(f) /\ s \in Seq(TraceRows) /\ SameRows(Trace!ReadRows(f), s)
        /\ MaxBytes > 0 => Trace!Bytes(f) + row[w].size <= MaxBytes
    BY <2>1, TraceRoom
  <2>3. row[w] \in TraceRows
    BY DEF TraceTypes
  <2> HIDE DEF f, s, TraceInv
  <2>4. TraceFile(file') /\ since' \in Seq(TraceRows) /\ TraceBound' /\ SameRows(Trace!ReadRows(file)', since')
    BY <2>1, <2>2, <2>3, TracePut
  <2> QED
    BY <2>1, <2>4 DEF TraceTypes, TraceInv
<1>6. ASSUME NEW w \in Writers, Trace!Die(w) PROVE TraceInv'
  <2> DEFINE f == IF Trace!Full(file, row[w]) THEN <<>> ELSE file
             s == IF Trace!Full(file, row[w]) THEN <<>> ELSE since
  <2>1. /\ ~(MaxBytes > 0 /\ row[w].size > MaxBytes)
        /\ nextIndex' = [nextIndex EXCEPT ![home[w]] = -1]
        /\ UNCHANGED <<home, seed, row>>
        /\ \/ file' = <<>> /\ since' = <<>>
           \/ file' = Trace!Put(f, row[w], TRUE) /\ since' = s
    BY <1>6 DEF Trace!Die
  <2>2. /\ TraceFile(f) /\ s \in Seq(TraceRows) /\ SameRows(Trace!ReadRows(f), s)
        /\ MaxBytes > 0 => Trace!Bytes(f) + row[w].size <= MaxBytes
    BY <2>1, TraceRoom
  <2>3. row[w] \in TraceRows
    BY DEF TraceTypes
  <2>4. nextIndex' \in [Procs -> Int] /\ \A p \in Procs : nextIndex'[p] >= -1
    BY <2>1 DEF TraceTypes
  <2> HIDE DEF f, s, TraceInv
  <2>5. TraceFile(file') /\ since' \in Seq(TraceRows) /\ TraceBound' /\ SameRows(Trace!ReadRows(file)', since')
    <3>1. CASE file' = <<>> /\ since' = <<>>
      BY <3>1, EmptyTrace, TraceAssumption DEF TraceBound
    <3>2. CASE file' = Trace!Put(f, row[w], TRUE) /\ since' = s
      BY <2>2, <2>3, <3>2, TracePut
    <3> QED
      BY <2>1, <3>1, <3>2
  <2> QED
    BY <2>1, <2>4, <2>5 DEF TraceTypes, TraceInv
<1>7. CASE Trace!Finished
  BY <1>7, <1>0 DEF Trace!Finished
<1> QED
  BY <1>0, <1>1, <1>2, <1>3, <1>4, <1>5, <1>6, <1>7 DEF Trace!Next

\* The trace of several processes, any of which may die in the middle of a row
\* (append_serialized_trace_row_locked, next_tool_call_index): the file keeps to
\* its bound, what is read of it is what was written, in its order, and the
\* numbers a process gives its calls grow, for any number of threads, processes
\* and rows of any sizes.
THEOREM TraceCorrect == Trace!Spec => TraceSound
<1>1. TraceInv => FileBounded /\ ReadsWhatWasWritten
  BY DEF TraceInv, TraceBound, SameRows, FileBounded, ReadsWhatWasWritten, Trace!FileBounded, Trace!ReadsWhatWasWritten
<1>2. ASSUME TraceInv, [Trace!Next]_(Trace!vars)
      PROVE  [\A p \in Procs : nextIndex[p] # -1 /\ nextIndex'[p] # -1 => nextIndex'[p] >= nextIndex[p]]_(Trace!vars)
  <2> SUFFICES ASSUME NEW p \in Procs, Trace!Next, nextIndex[p] # -1, nextIndex'[p] # -1
               PROVE  nextIndex'[p] >= nextIndex[p]
    BY <1>2
  <2>0. nextIndex \in [Procs -> Int]
    BY <1>2 DEF TraceInv, TraceTypes
  <2>1. CASE \E w \in Writers : Trace!TakeIndex(w)
    BY <2>0, <2>1 DEF Trace!TakeIndex
  <2>2. CASE \E w \in Writers : Trace!Seed(w)
    BY <2>0, <2>2 DEF Trace!Seed
  <2>3. CASE \E w \in Writers : Trace!Die(w)
    BY <2>0, <2>3 DEF Trace!Die
  <2>4. CASE UNCHANGED nextIndex
    BY <2>0, <2>4
  <2> QED
    BY <2>1, <2>2, <2>3, <2>4
    DEF Trace!Next, Trace!Finished, Trace!vars, Trace!CountRows, Trace!Skip, Trace!AppendRow
<1> QED
  BY <1>1, <1>2, TraceInit, TraceStep, PTL DEF Trace!Spec, TraceSound, IndexGrows, Trace!IndexGrows

-----------------------------------------------------------------------------
(* Placeholders in a statement.                                            *)

\* Where a scanner may be, and where it comes with one more character.
Places == ScanStates \X {0, 1}
ScanOn(dollars, s, i, place) ==
  IF place[2] = 1 THEN <<place[1], 0>>
  ELSE <<ScanStep(dollars, place[1], s[i], Char(s, i + 1))[1], ScanStep(dollars, place[1], s[i], Char(s, i + 1))[2] - 1>>

\* What Scan is along a statement of n characters.
ScansTo(F, dollars, s, n) ==
  /\ F \in [0 .. n -> Places] /\ F[0] = <<"code", 0>>
  /\ \A i \in 1 .. n : F[i] = ScanOn(dollars, s, i, F[i - 1])

LEMMA StepType ==
  ASSUME NEW dollars, NEW st \in ScanStates, NEW c, NEW d
  PROVE  ScanStep(dollars, st, c, d)[1] \in ScanStates /\ ScanStep(dollars, st, c, d)[2] \in {1, 2}
BY DEF ScanStep, ScanStates

LEMMA ScanOnType ==
  ASSUME NEW dollars, NEW s, NEW i, NEW place \in Places
  PROVE  ScanOn(dollars, s, i, place) \in Places
<1>1. place[1] \in ScanStates /\ place[2] \in {0, 1}
  BY DEF Places
<1> DEFINE move == ScanStep(dollars, place[1], s[i], Char(s, i + 1))
<1>2. move[1] \in ScanStates /\ move[2] \in {1, 2}
  BY <1>1, StepType
<1> HIDE DEF move
<1>3. ScanOn(dollars, s, i, place) = IF place[2] = 1 THEN <<place[1], 0>> ELSE <<move[1], move[2] - 1>>
  BY DEF ScanOn, move
<1> QED
  BY <1>1, <1>2, <1>3 DEF Places

LEMMA ScanAlong ==
  ASSUME NEW dollars, NEW C, NEW n \in Nat, NEW s \in [1 .. n -> C]
  PROVE  ScansTo(Scan(dollars, s), dollars, s, n)
<1> DEFINE first == <<"code", 0>>
           P(f) == f = [i \in 0 .. n |-> IF i = 0 THEN first ELSE ScanOn(dollars, s, i, f[i - 1])]
           g == [i \in 1 .. n |-> [x \in Places |-> ScanOn(dollars, s, i, x)]]
           scan == CHOOSE f : P(f)
<1>0. Len(s) = n
  OBVIOUS
<1>1. Scan(dollars, s) = scan
  BY <1>0 DEF Scan, ScanOn
<1>2. first \in Places
  BY DEF Places, ScanStates
<1> HIDE DEF first
<1>3. g \in [1 .. n -> [Places -> Places]]
  BY ScanOnType
<1>4. PICK F \in [0 .. n -> Places] : F[0] = first /\ \A i \in 1 .. n : F[i] = g[i][F[i - 1]]
  <2> HIDE DEF g, P, scan
  <2>1. \E F : Iterates(F, Places, first, n, g)
    BY <1>2, <1>3, Recursion
  <2> QED
    BY <2>1 DEF Iterates
<1>5. \A i \in 1 .. n : F[i] = ScanOn(dollars, s, i, F[i - 1])
  <2>1. \A i \in 1 .. n : F[i - 1] \in Places
    BY <1>4
  <2> QED
    BY <1>4, <2>1
<1>6. P(F)
  BY <1>4, <1>5
<1>7. P(scan)
  <2> HIDE DEF P
  <2> QED
    BY <1>6
<1>8. scan[0] = F[0] /\ DOMAIN scan = 0 .. n /\ \A i \in 1 .. n : scan[i] = ScanOn(dollars, s, i, scan[i - 1])
  <2> HIDE DEF scan
  <2> QED
    BY <1>4, <1>7
<1> HIDE DEF scan, P, g
<1> DEFINE S == {k \in Nat : k <= n => scan[k] = F[k]}
<1>9. \A k \in 0 .. n : scan[k] = F[k]
  <2>1. 0 \in S /\ S \in SUBSET Nat
    BY <1>8
  <2>2. ASSUME NEW k \in S PROVE k + 1 \in S
    <3>1. CASE k + 1 <= n
      <4>1. k + 1 \in 1 .. n /\ (k + 1) - 1 = k
        BY <3>1
      <4>2. scan[k + 1] = ScanOn(dollars, s, k + 1, scan[k])
        BY <1>8, <4>1
      <4>3. F[k + 1] = ScanOn(dollars, s, k + 1, F[k])
        BY <1>5, <4>1
      <4>4. scan[k] = F[k]
        BY <3>1
      <4> QED
        BY <4>2, <4>3, <4>4
    <3>2. CASE ~(k + 1 <= n)
      BY <3>2
    <3> QED
      BY <3>1, <3>2
  <2> HIDE DEF S
  <2>3. S = Nat
    BY <2>1, <2>2, SetInduction
  <2> QED
    BY <2>3 DEF S
<1>10. scan = [k \in 0 .. n |-> scan[k]]
  BY <1>7 DEF P
<1>11. scan \in [0 .. n -> Places]
  BY <1>9, <1>10
<1> QED
  BY <1>1, <1>4, <1>8, <1>11 DEF first, ScansTo

\* Without dollars and backslashes the two scanners go the same way.
LEMMA PlainStep ==
  ASSUME NEW st \in ScanStates, st # "dollar", NEW c, c \notin {"$", "\\"}, NEW d
  PROVE  ScanStep(FALSE, st, c, d) = ScanStep(TRUE, st, c, d) /\ ScanStep(FALSE, st, c, d)[1] # "dollar"
BY DEF ScanStep, ScanStates

\* The two scanners are in the same state at every character of s.
ScansAlike(s, n) == \A k \in 0 .. n : Scan(FALSE, s)[k] = Scan(TRUE, s)[k]

LEMMA SameScan ==
  ASSUME NEW C, NEW n \in Nat, NEW s \in [1 .. n -> C], \A i \in 1 .. n : s[i] \notin {"$", "\\"}
  PROVE  ScansAlike(s, n)
<1> DEFINE F == Scan(FALSE, s)
           T == Scan(TRUE, s)
           S == {k \in Nat : k <= n => F[k] = T[k] /\ F[k][1] # "dollar"}
<1>0. ScansTo(F, FALSE, s, n) /\ ScansTo(T, TRUE, s, n)
  BY ScanAlong
<1> HIDE DEF F, T
<1>1. /\ F \in [0 .. n -> Places] /\ F[0] = <<"code", 0>> /\ \A i \in 1 .. n : F[i] = ScanOn(FALSE, s, i, F[i - 1])
      /\ T \in [0 .. n -> Places] /\ T[0] = <<"code", 0>> /\ \A i \in 1 .. n : T[i] = ScanOn(TRUE, s, i, T[i - 1])
  BY <1>0 DEF ScansTo
<1>2. S \in SUBSET Nat /\ 0 \in S
  BY <1>1
<1>3. ASSUME NEW k \in Nat, k + 1 <= n, F[k] = T[k], F[k][1] # "dollar"
      PROVE  F[k + 1] = T[k + 1] /\ F[k + 1][1] # "dollar"
  <2> DEFINE i == k + 1
             place == F[k]
             a == ScanStep(FALSE, place[1], s[i], Char(s, i + 1))
             b == ScanStep(TRUE, place[1], s[i], Char(s, i + 1))
  <2>1. i \in 1 .. n /\ i - 1 = k /\ k \in 0 .. n
    BY <1>3
  <2>2. place \in Places /\ place[1] \in ScanStates
    BY <1>1, <2>1 DEF Places
  <2>3. a = b /\ a[1] # "dollar"
    BY <1>3, <2>1, <2>2, PlainStep
  <2>4. F[i] = ScanOn(FALSE, s, i, place) /\ T[i] = ScanOn(TRUE, s, i, place)
    BY <1>1, <1>3, <2>1
  <2>5. F[i] = (IF place[2] = 1 THEN <<place[1], 0>> ELSE <<a[1], a[2] - 1>>) /\ T[i] = (IF place[2] = 1 THEN <<place[1], 0>> ELSE <<b[1], b[2] - 1>>)
    BY <2>4 DEF ScanOn
  <2> HIDE DEF a, b, place
  <2> QED
    BY <1>3, <2>3, <2>5 DEF place
<1>4. \A k \in S : k + 1 \in S
  BY <1>3
<1> HIDE DEF S
<1>5. S = Nat
  BY <1>2, <1>4, SetInduction
<1>6. \A k \in 0 .. n : F[k] = T[k]
  BY <1>5 DEF S
<1> QED
  BY <1>6 DEF F, T, ScansAlike

\* The replacement of placeholders does not lead a scanner astray.
LEMMA StepBefore ==
  ASSUME NEW dollars \in BOOLEAN, NEW st \in ScanStates, NEW c,
         ScanStep(dollars, st, c, ":")[1] = "code", ScanStep(dollars, st, c, ":")[2] = 1
  PROVE  ScanStep(dollars, st, c, "?") = ScanStep(dollars, st, c, ":")
BY DEF ScanStep, ScanStates

LEMMA StepAt ==
  ASSUME NEW dollars \in BOOLEAN
  PROVE  ScanStep(dollars, "code", ":", "a") = <<"code", 1>> /\ ScanStep(dollars, "code", "?", "a") = <<"code", 1>>
BY DEF ScanStep

LEMMA ReplacedScan ==
  ASSUME NEW C, NEW n \in Nat, NEW s \in [1 .. n -> C], NEW dollars \in BOOLEAN, NEW W \in SUBSET (1 .. n),
         \A i \in W : Scan(dollars, s)[i - 1] = <<"code", 0>> /\ s[i] = ":" /\ Char(s, i + 1) = "a"
  PROVE  \A k \in 0 .. n : Scan(dollars, Replaced(s, W))[k] = Scan(dollars, s)[k]
<1> DEFINE r == Replaced(s, W)
           F == Scan(dollars, s)
           G == Scan(dollars, r)
           S == {k \in Nat : k <= n => G[k] = F[k]}
<1>0. r \in [1 .. n -> C \cup {"?"}] /\ \A i \in 1 .. n : r[i] = IF i \in W THEN "?" ELSE s[i]
  BY DEF Replaced
<1> HIDE DEF r
<1>a. ScansTo(F, dollars, s, n) /\ ScansTo(G, dollars, r, n)
  BY <1>0, ScanAlong
<1>1. /\ F \in [0 .. n -> Places] /\ F[0] = <<"code", 0>> /\ \A i \in 1 .. n : F[i] = ScanOn(dollars, s, i, F[i - 1])
      /\ G[0] = <<"code", 0>> /\ \A i \in 1 .. n : G[i] = ScanOn(dollars, r, i, G[i - 1])
  <2> HIDE DEF F, G
  <2> QED
    BY <1>a DEF ScansTo
<1>2. \A i \in W : F[i - 1] = <<"code", 0>> /\ s[i] = ":" /\ Char(s, i + 1) = "a"
  OBVIOUS
<1>3. \A i \in 1 .. (n + 1) : Char(r, i) = IF i \in W THEN "?" ELSE Char(s, i)
  BY <1>0 DEF Char
<1>4. \A i \in W : Char(s, i) = ":"
  BY DEF Char
<1> HIDE DEF F, G
<1>5. S \in SUBSET Nat /\ 0 \in S
  BY <1>1
<1>6. ASSUME NEW k \in Nat, k + 1 <= n, G[k] = F[k] PROVE G[k + 1] = F[k + 1]
  <2> DEFINE i == k + 1
             place == F[k]
             a == ScanStep(dollars, place[1], s[i], Char(s, i + 1))
             b == ScanStep(dollars, place[1], r[i], Char(r, i + 1))
  <2>1. i \in 1 .. n /\ i - 1 = k /\ k \in 0 .. n /\ i + 1 \in 1 .. (n + 1)
    BY <1>6
  <2>2. place \in Places /\ place[1] \in ScanStates /\ place[2] \in {0, 1}
    BY <1>1, <2>1 DEF Places
  <2>3. F[i] = ScanOn(dollars, s, i, place) /\ G[i] = ScanOn(dollars, r, i, place)
    BY <1>1, <1>6, <2>1
  <2>4. F[i] = (IF place[2] = 1 THEN <<place[1], 0>> ELSE <<a[1], a[2] - 1>>) /\ G[i] = (IF place[2] = 1 THEN <<place[1], 0>> ELSE <<b[1], b[2] - 1>>)
    BY <2>3 DEF ScanOn
  <2>5. CASE place[2] = 1
    BY <2>4, <2>5
  <2>6. CASE place[2] = 0 /\ i \in W
    <3>1. place = <<"code", 0>> /\ s[i] = ":" /\ Char(s, i + 1) = "a" /\ r[i] = "?"
      BY <1>0, <1>2, <2>1, <2>6
    <3>2. i + 1 \notin W
      BY <1>4, <3>1
    <3>3. Char(r, i + 1) = "a"
      BY <1>3, <2>1, <3>1, <3>2
    <3>4. a = b
      BY <3>1, <3>3, StepAt
    <3> QED
      BY <2>4, <3>4
  <2>7. CASE place[2] = 0 /\ i \notin W /\ i + 1 \notin W
    <3>1. r[i] = s[i] /\ Char(r, i + 1) = Char(s, i + 1)
      BY <1>0, <1>3, <2>1, <2>7
    <3> QED
      BY <2>4, <3>1
  <2>8. CASE place[2] = 0 /\ i \notin W /\ i + 1 \in W
    <3>1. r[i] = s[i] /\ Char(r, i + 1) = "?" /\ Char(s, i + 1) = ":"
      BY <1>0, <1>3, <1>4, <2>1, <2>8
    <3>2. F[i] = <<"code", 0>>
      <4>1. (i + 1) - 1 = i
        BY <2>1
      <4> QED
        BY <1>2, <2>8, <4>1
    <3>3. a[1] \in ScanStates /\ a[2] \in {1, 2}
      BY <2>2, StepType
    <3> DEFINE x == a[1]
               y == a[2]
    <3>4. <<x, y - 1>> = <<"code", 0>>
      <4> HIDE DEF a, b, place
      <4>1. place[2] # 1
        BY <2>8
      <4> QED
        BY <2>4, <3>2, <4>1
    <3>5. a[1] = "code" /\ a[2] = 1
      <4> HIDE DEF a
      <4> QED
        BY <3>3, <3>4
    <3>6. b = a
      BY <2>2, <3>1, <3>5, StepBefore
    <3> QED
      BY <2>4, <3>6
  <2> QED
    BY <2>2, <2>5, <2>6, <2>7, <2>8
<1>7. \A k \in S : k + 1 \in S
  <2> TAKE k \in S
  <2>1. k \in Nat /\ (k + 1 <= n => k <= n)
    OBVIOUS
  <2>2. k + 1 <= n => G[k + 1] = F[k + 1]
    BY <1>6, <2>1
  <2> QED
    BY <2>1, <2>2
<1> HIDE DEF S
<1>8. S = Nat
  BY <1>5, <1>7, SetInduction
<1>9. \A k \in 0 .. n : G[k] = F[k]
  BY <1>8 DEF S
<1> QED
  BY <1>9 DEF F, G, r

\* The quotes among the first k characters, and what they say of the scanner.
Quotes(s, k) == {j \in 1 .. k : s[j] = "'"}

Flip(c, q) == IF c = "'" THEN 1 - q ELSE q
Parity(s, k) == Cardinality(Quotes(s, k)) % 2

LEMMA QuoteParity ==
  ASSUME NEW C, NEW n \in Nat, NEW s \in [1 .. n -> C]
  PROVE  /\ Parity(s, 0) = 0
         /\ \A k \in Nat : k + 1 <= n => Parity(s, k + 1) = Flip(s[k + 1], Parity(s, k))
<1>1. Parity(s, 0) = 0
  <2>1. Quotes(s, 0) = {}
    BY DEF Quotes
  <2> QED
    BY <2>1, FS_EmptySet DEF Parity, Flip
<1>2. ASSUME NEW k \in Nat, k + 1 <= n
      PROVE  Parity(s, k + 1) = Flip(s[k + 1], Parity(s, k))
  <2>1. IsFiniteSet(Quotes(s, k))
    <3>1. IsFiniteSet(1 .. k)
      BY FS_Interval
    <3>2. Quotes(s, k) \subseteq 1 .. k
      BY DEF Quotes
    <3> QED
      BY <3>1, <3>2, FS_Subset
  <2>2. Cardinality(Quotes(s, k)) \in Nat
    BY <2>1, FS_CardinalityType
  <2>3. CASE s[k + 1] = "'"
    <3>1. Quotes(s, k + 1) = Quotes(s, k) \cup {k + 1} /\ k + 1 \notin Quotes(s, k)
      BY <2>3 DEF Quotes
    <3>2. Cardinality(Quotes(s, k + 1)) = Cardinality(Quotes(s, k)) + 1
      BY <2>1, <3>1, FS_AddElement
    <3> QED
      BY <2>2, <2>3, <3>2 DEF Parity, Flip
  <2>4. CASE s[k + 1] # "'"
    <3>1. Quotes(s, k + 1) = Quotes(s, k)
      BY <2>4 DEF Quotes
    <3> QED
      BY <2>2, <2>4, <3>1 DEF Parity, Flip
  <2> QED
    BY <2>3, <2>4
<1> QED
  BY <1>1, <1>2

\* What the parity q of the quotes says of a scanner in state x with y of the
\* next characters consumed, where d is the next one and neither an identifier
\* nor a comment has begun.
Fits(x, y, q, d) ==
  /\ x \in {"code", "string"}
  /\ y = 0 => q = IF x = "code" THEN 0 ELSE 1
  /\ y = 1 => q = 0 /\ d = IF x = "code" THEN ":" ELSE "'"

LEMMA QuotesOnly ==
  ASSUME NEW st \in {"code", "string"}, NEW c, NEW d, c \notin {"dq", "-", "/"}
  PROVE  /\ st = "code" /\ c = "'" => ScanStep(FALSE, st, c, d) = <<"string", 1>>
         /\ st = "code" /\ c = ":" /\ d = ":" => ScanStep(FALSE, st, c, d) = <<"code", 2>>
         /\ st = "code" /\ c # "'" /\ ~(c = ":" /\ d = ":") => ScanStep(FALSE, st, c, d) = <<"code", 1>>
         /\ st = "string" /\ c # "'" => ScanStep(FALSE, st, c, d) = <<"string", 1>>
         /\ st = "string" /\ c = "'" /\ d = "'" => ScanStep(FALSE, st, c, d) = <<"string", 2>>
         /\ st = "string" /\ c = "'" /\ d # "'" => ScanStep(FALSE, st, c, d) = <<"code", 1>>
BY DEF ScanStep

\* The scanner goes from x and y at character c, with d behind it, to v and w.
ScanMoves(x, y, c, d, v, w) ==
  /\ y = 1 => v = x /\ w = 0
  /\ y = 0 => v = ScanStep(FALSE, x, c, d)[1] /\ w = ScanStep(FALSE, x, c, d)[2] - 1

LEMMA QuoteStep ==
  ASSUME NEW x, NEW y \in {0, 1}, NEW q \in {0, 1}, NEW c, NEW d, c \notin {"dq", "-", "/"}, Fits(x, y, q, c), NEW v, NEW w,
         ScanMoves(x, y, c, d, v, w)
  PROVE  Fits(v, w, Flip(c, q), d)
<1> DEFINE move == ScanStep(FALSE, x, c, d)
<1>1. x \in {"code", "string"}
  BY DEF Fits, Flip
<1>a. (y = 1 => v = x /\ w = 0) /\ (y = 0 => v = move[1] /\ w = move[2] - 1)
  BY DEF ScanMoves
<1>b. /\ x = "code" /\ c = "'" => move = <<"string", 1>>
      /\ x = "code" /\ c = ":" /\ d = ":" => move = <<"code", 2>>
      /\ x = "code" /\ c # "'" /\ ~(c = ":" /\ d = ":") => move = <<"code", 1>>
      /\ x = "string" /\ c # "'" => move = <<"string", 1>>
      /\ x = "string" /\ c = "'" /\ d = "'" => move = <<"string", 2>>
      /\ x = "string" /\ c = "'" /\ d # "'" => move = <<"code", 1>>
  BY <1>1, QuotesOnly, Zenon
<1> HIDE DEF move
<1>2. CASE y = 1
  BY <1>1, <1>2, <1>a DEF Fits, Flip
<1>3. CASE y = 0 /\ x = "code"
  <2>0. q = 0
    BY <1>3 DEF Fits, Flip
  <2>1. CASE c = "'"
    <3>1. v = "string" /\ w = 0
      BY <1>a, <1>b, <1>3, <2>1
    <3> QED
      BY <2>0, <2>1, <3>1 DEF Fits, Flip
  <2>2. CASE c = ":" /\ d = ":"
    <3>1. v = "code" /\ w = 1
      BY <1>a, <1>b, <1>3, <2>2
    <3> QED
      BY <2>0, <2>2, <3>1 DEF Fits, Flip
  <2>3. CASE c # "'" /\ ~(c = ":" /\ d = ":")
    <3>1. v = "code" /\ w = 0
      BY <1>a, <1>b, <1>3, <2>3
    <3> QED
      BY <2>0, <2>3, <3>1 DEF Fits, Flip
  <2> QED
    BY <2>1, <2>2, <2>3
<1>4. CASE y = 0 /\ x = "string"
  <2>0. q = 1
    BY <1>4 DEF Fits, Flip
  <2>1. CASE c # "'"
    <3>1. v = "string" /\ w = 0
      BY <1>a, <1>b, <1>4, <2>1
    <3> QED
      BY <2>0, <2>1, <3>1 DEF Fits, Flip
  <2>2. CASE c = "'" /\ d = "'"
    <3>1. v = "string" /\ w = 1
      BY <1>a, <1>b, <1>4, <2>2
    <3> QED
      BY <2>0, <2>2, <3>1 DEF Fits, Flip
  <2>3. CASE c = "'" /\ d # "'"
    <3>1. v = "code" /\ w = 0
      BY <1>a, <1>b, <1>4, <2>3
    <3> QED
      BY <2>0, <2>3, <3>1 DEF Fits, Flip
  <2> QED
    BY <2>1, <2>2, <2>3
<1> QED
  BY <1>1, <1>2, <1>3, <1>4

\* Where identifiers and comments have not begun, the scanner is in a string
\* behind an odd number of quotes.
LEMMA InCodeByQuotes ==
  ASSUME NEW C, NEW n \in Nat, NEW s \in [1 .. n -> C], NEW k \in 0 .. n,
         \A j \in 1 .. k : s[j] \notin {"dq", "-", "/"}, Scan(FALSE, s)[k] = <<"code", 0>>
  PROVE  Parity(s, k) = 0
<1> DEFINE F == Scan(FALSE, s)
           S == {i \in Nat : i <= k => Parity(s, i) \in {0, 1} /\ Fits(F[i][1], F[i][2], Parity(s, i), Char(s, i + 1))}
<1>0. ScansTo(F, FALSE, s, n)
  BY ScanAlong
<1>1. Parity(s, 0) = 0 /\ \A i \in Nat : i + 1 <= n => Parity(s, i + 1) = Flip(s[i + 1], Parity(s, i))
  BY QuoteParity
<1>2. F[k] = <<"code", 0>>
  OBVIOUS
<1> HIDE DEF F
<1>3. F \in [0 .. n -> Places] /\ F[0] = <<"code", 0>> /\ \A i \in 1 .. n : F[i] = ScanOn(FALSE, s, i, F[i - 1])
  BY <1>0 DEF ScansTo
<1>4. S \in SUBSET Nat /\ 0 \in S
  BY <1>1, <1>3 DEF Fits
<1>5. ASSUME NEW i \in S PROVE i + 1 \in S
  <2> SUFFICES ASSUME i + 1 <= k PROVE Parity(s, i + 1) \in {0, 1} /\ Fits(F[i + 1][1], F[i + 1][2], Parity(s, i + 1), Char(s, (i + 1) + 1))
    OBVIOUS
  <2>1. i \in Nat /\ i <= k /\ i + 1 \in 1 .. k /\ i + 1 \in 1 .. n /\ (i + 1) - 1 = i /\ i \in 0 .. n
    OBVIOUS
  <2>2. Parity(s, i) \in {0, 1} /\ Fits(F[i][1], F[i][2], Parity(s, i), s[i + 1])
    BY <2>1 DEF Char
  <2> HIDE DEF S
  <2>3. Parity(s, i + 1) = (Flip(s[i + 1], Parity(s, i)))
    BY <1>1, <2>1
  <2>4. F[i] \in Places /\ s[i + 1] \notin {"dq", "-", "/"}
    BY <1>3, <2>1
  <2>5. F[i + 1] = ScanOn(FALSE, s, i + 1, F[i])
    BY <1>3, <2>1
  <2>6. Fits(F[i + 1][1], F[i + 1][2], Flip(s[i + 1], Parity(s, i)), Char(s, (i + 1) + 1))
    <3> DEFINE d == Char(s, (i + 1) + 1)
               place == F[i]
               x == place[1]
               y == place[2]
               next == F[i + 1]
               v == next[1]
               w == next[2]
               c == s[i + 1]
               q == Parity(s, i)
    <3>1. next = IF y = 1 THEN <<x, 0>> ELSE <<ScanStep(FALSE, x, c, d)[1], ScanStep(FALSE, x, c, d)[2] - 1>>
      BY <2>5 DEF ScanOn
    <3>2. y \in {0, 1} /\ q \in {0, 1} /\ c \notin {"dq", "-", "/"} /\ Fits(x, y, q, c)
      BY <2>2, <2>4 DEF Places
    <3> HIDE DEF d, next, place, c, q, x, y
    <3>3. y = 1 => v = x /\ w = 0
      BY <3>1
    <3>4. y = 0 => v = ScanStep(FALSE, x, c, d)[1] /\ w = ScanStep(FALSE, x, c, d)[2] - 1
      BY <3>1
    <3> HIDE DEF v, w
    <3>5. ScanMoves(x, y, c, d, v, w)
      BY <3>3, <3>4 DEF ScanMoves
    <3>6. Fits(v, w, Flip(c, q), d)
      BY <3>2, <3>5, QuoteStep
    <3> QED
      BY <3>6 DEF d, next, place, c, q, v, w
  <2> QED
    BY <2>2, <2>3, <2>6 DEF Flip
<1> HIDE DEF S
<1>6. S = Nat
  BY <1>4, <1>5, SetInduction
<1>7. Fits(F[k][1], F[k][2], Parity(s, k), Char(s, k + 1))
  BY <1>6 DEF S
<1> QED
  BY <1>2, <1>7 DEF Fits

\* A colon that names a parameter, and one that is no path into a value.
Marks(dollars, s, i) == Scan(dollars, s)[i - 1] = <<"code", 0>> /\ s[i] = ":" /\ Char(s, i + 1) = "a"
NoPath(s, i) == Char(s, i - 1) \notin {"a", "dq", "$"}
DuckDbMarks(s, n) == {i \in 1 .. n : Marks(FALSE, s, i)}
SnowflakeMarks(s, n) == {i \in 1 .. n : Marks(TRUE, s, i) /\ NoPath(s, i)}

LEMMA PlaceholdersFound ==
  ASSUME NEW C, NEW n \in Nat, NEW s \in [1 .. n -> C]
  PROVE  /\ DuckDbPlaceholders(s) = DuckDbMarks(s, n)
         /\ SnowflakePlaceholders(s) = SnowflakeMarks(s, n)
<1>1. Len(s) = n
  OBVIOUS
<1> QED
  BY <1>1 DEF DuckDbPlaceholders, SnowflakePlaceholders, DuckDbMarks, SnowflakeMarks, Marks, NoPath

LEMMA PlainAlike ==
  ASSUME NEW C, NEW n \in Nat, NEW s \in [1 .. n -> C], \A i \in 1 .. n : s[i] \notin {"$", "\\"},
         \A i \in 1 .. n : s[i] = ":" => Char(s, i - 1) \notin {"a", "dq"}
  PROVE  DuckDbPlaceholders(s) = SnowflakePlaceholders(s)
<1>1. \A i \in 1 .. n : Scan(FALSE, s)[i - 1] = Scan(TRUE, s)[i - 1]
  <2>1. \A k \in 0 .. n : Scan(FALSE, s)[k] = Scan(TRUE, s)[k]
    <3>1. ScansAlike(s, n)
      BY SameScan
    <3> QED
      BY <3>1 DEF ScansAlike
  <2>2. \A i \in 1 .. n : i - 1 \in 0 .. n
    OBVIOUS
  <2> QED
    BY <2>1, <2>2
<1>2. \A i \in 1 .. n : Char(s, i - 1) # "$"
  BY DEF Char
<1>3. \A i \in 1 .. n : s[i] = ":" => NoPath(s, i)
  BY <1>2 DEF NoPath
<1>4. \A i \in 1 .. n : Marks(FALSE, s, i) <=> Marks(TRUE, s, i) /\ NoPath(s, i)
  BY <1>1, <1>3 DEF Marks
<1>5. DuckDbMarks(s, n) = SnowflakeMarks(s, n)
  BY <1>4 DEF DuckDbMarks, SnowflakeMarks
<1>6. DuckDbPlaceholders(s) = DuckDbMarks(s, n)
  BY PlaceholdersFound
<1>7. SnowflakePlaceholders(s) = SnowflakeMarks(s, n)
  BY PlaceholdersFound
<1> QED
  BY <1>5, <1>6, <1>7

LEMMA NothingLeft ==
  ASSUME NEW C, NEW n \in Nat, NEW s \in [1 .. n -> C], NEW dollars \in BOOLEAN, NEW W \in SUBSET (1 .. n),
         \A i \in W : Marks(dollars, s, i)
  PROVE  /\ Replaced(s, W) \in [1 .. n -> C \cup {"?"}]
         /\ \A i \in 1 .. n : Marks(dollars, Replaced(s, W), i) =>
              i \notin W /\ Marks(dollars, s, i) /\ (NoPath(Replaced(s, W), i) => NoPath(s, i))
<1> DEFINE r == Replaced(s, W)
<1>0. \A i \in W : Scan(dollars, s)[i - 1] = <<"code", 0>> /\ s[i] = ":" /\ Char(s, i + 1) = "a"
  BY DEF Marks
<1>1. r \in [1 .. n -> C \cup {"?"}] /\ \A i \in 1 .. n : r[i] = IF i \in W THEN "?" ELSE s[i]
  BY DEF Replaced
<1>2. \A k \in 0 .. n : Scan(dollars, r)[k] = Scan(dollars, s)[k]
  BY <1>0, ReplacedScan
<1> HIDE DEF r
<1>3. \A i \in 0 .. (n + 1) : Char(r, i) = IF i \in W THEN "?" ELSE Char(s, i)
  BY <1>1 DEF Char
<1>4. \A i \in W : Char(s, i) = ":"
  BY <1>0 DEF Char
<1>5. ASSUME NEW i \in 1 .. n, Marks(dollars, r, i)
      PROVE  i \notin W /\ Marks(dollars, s, i) /\ (NoPath(r, i) => NoPath(s, i))
  <2>0. Scan(dollars, r)[i - 1] = <<"code", 0>> /\ r[i] = ":" /\ Char(r, i + 1) = "a"
    BY <1>5 DEF Marks
  <2>1. i - 1 \in 0 .. n /\ i - 1 \in 0 .. (n + 1) /\ i + 1 \in 0 .. (n + 1)
    OBVIOUS
  <2>2. i \notin W /\ s[i] = ":"
    BY <1>1, <2>0
  <2>3. Scan(dollars, s)[i - 1] = <<"code", 0>>
    BY <1>2, <2>0, <2>1
  <2>4. Char(s, i + 1) = "a"
    BY <1>3, <2>0, <2>1
  <2>5. NoPath(r, i) => NoPath(s, i)
    BY <1>3, <1>4, <2>1 DEF NoPath
  <2> QED
    BY <2>2, <2>3, <2>4, <2>5 DEF Marks
<1> QED
  BY <1>1, <1>5 DEF r

LEMMA PlaceholdersSound ==
  ASSUME NEW C, NEW n \in Nat, NEW s \in [1 .. n -> C]
  PROVE  PlaceholdersAgree(s)
<1> DEFINE D == DuckDbPlaceholders(s)
           W == SnowflakePlaceholders(s)
<1>0. DOMAIN s = 1 .. n
  OBVIOUS
<1>a. D = DuckDbMarks(s, n) /\ W = SnowflakeMarks(s, n)
  BY PlaceholdersFound
<1> HIDE DEF D, W
<1>1. D = {i \in 1 .. n : Marks(FALSE, s, i)} /\ W = {i \in 1 .. n : Marks(TRUE, s, i) /\ NoPath(s, i)}
  BY <1>a DEF DuckDbMarks, SnowflakeMarks
<1>2. (\A i \in DOMAIN s : s[i] \notin {"$", "\\"}) /\ (\A i \in DOMAIN s : s[i] = ":" => Char(s, i - 1) \notin {"a", "dq"}) => D = W
  BY <1>0, PlainAlike DEF D, W
<1>3. DuckDbPlaceholders(Replaced(s, D)) = {}
  <2> DEFINE r == Replaced(s, D)
  <2>1. D \in SUBSET (1 .. n) /\ \A i \in D : Marks(FALSE, s, i)
    BY <1>1
  <2>2. r \in [1 .. n -> C \cup {"?"}] /\ \A i \in 1 .. n : Marks(FALSE, r, i) => i \notin D /\ Marks(FALSE, s, i)
    BY <2>1, NothingLeft
  <2> HIDE DEF r
  <2>3. DuckDbPlaceholders(r) = DuckDbMarks(r, n)
    BY <2>2, PlaceholdersFound
  <2>4. DuckDbPlaceholders(r) = {}
    BY <1>1, <2>2, <2>3 DEF DuckDbMarks
  <2> QED
    BY <2>4 DEF r
<1>4. SnowflakePlaceholders(Replaced(s, W)) = {}
  <2> DEFINE r == Replaced(s, W)
  <2>1. W \in SUBSET (1 .. n) /\ \A i \in W : Marks(TRUE, s, i)
    BY <1>1
  <2>2. /\ r \in [1 .. n -> C \cup {"?"}]
        /\ \A i \in 1 .. n : Marks(TRUE, r, i) => i \notin W /\ Marks(TRUE, s, i) /\ (NoPath(r, i) => NoPath(s, i))
    BY <2>1, NothingLeft
  <2> HIDE DEF r
  <2>3. SnowflakePlaceholders(r) = SnowflakeMarks(r, n)
    BY <2>2, PlaceholdersFound
  <2>4. SnowflakePlaceholders(r) = {}
    BY <1>1, <2>2, <2>3 DEF SnowflakeMarks
  <2> QED
    BY <2>4 DEF r
<1>5. ASSUME NEW i \in D
      PROVE  Cardinality({j \in 1 .. i - 1 : s[j] = "'"}) % 2 = 0 \/ \E j \in 1 .. i - 1 : s[j] \in {"dq", "-", "/"}
  <2>0. i \in 1 .. n /\ Marks(FALSE, s, i)
    BY <1>1
  <2>1. i - 1 \in 0 .. n
    BY <2>0
  <2>3. Scan(FALSE, s)[i - 1] = <<"code", 0>>
    BY <2>0 DEF Marks
  <2>2. CASE \A j \in 1 .. i - 1 : s[j] \notin {"dq", "-", "/"}
    <3>1. Parity(s, i - 1) = 0
      BY <2>1, <2>2, <2>3, InCodeByQuotes
    <3> QED
      BY <3>1 DEF Parity, Quotes
  <2> QED
    BY <2>2
<1> QED
  BY <1>2, <1>3, <1>4, <1>5 DEF D, W, PlaceholdersAgree

-----------------------------------------------------------------------------
(* What is let through, and what is reported ready.                        *)

\* The check comes to exactly the expressions that are exposed: it goes from each
\* to those that stand in it outside of derived tables and subqueries, and these
\* have higher numbers, so it ends.
LEMMA ChecksExposed ==
  ASSUME NEW kinds, kinds \subseteq SetExprs, NEW n \in Nat \ {0}, NEW q \in QueryTrees(kinds, n)
  PROVE  QueryReadOnly(q) <=> \A m \in Exposed(q) : q.kind[m] \notin Writing
<1> DEFINE N == 1 .. n
           Fine(m) == SetExprReadOnly(q.kind[m])
           Closed(s) == \A c \in N : q.parent[c] \in s /\ q.place[c] # "derived" => c \in s
           E(m) == {x \in N : \A s \in SUBSET N : (m \in s /\ Closed(s)) => x \in s}
           Down(m) == LookedAt(q, m)
           P(f) == f = [m \in N |-> Fine(m) /\ \A c \in Down(m) : f[c]]
           F == [m \in N |-> \A x \in E(m) : Fine(x)]
           ok == CHOOSE f : P(f)
<1>1. /\ q.size = n /\ q.kind \in [N -> kinds] /\ q.parent \in [N -> 0 .. n - 1] /\ q.place \in [N -> Stands]
      /\ q.parent[1] = 0 /\ \A i \in 2 .. n : q.parent[i] \in 1 .. i - 1
  BY DEF QueryTrees
<1>2. \A m \in N : q.kind[m] \notin Writing <=> Fine(m)
  <2>1. \A m \in N : q.kind[m] \in SetExprs
    BY <1>1
  <2> QED
    BY <2>1 DEF SetExprs, Writing, SetExprReadOnly
<1>3. Exposed(q) = E(1)
  BY <1>1 DEF Exposed
<1>4. \A m \in N : Down(m) = {c \in N : q.parent[c] = m /\ q.place[c] # "derived"}
  <2>1. \A c \in N : q.place[c] # "derived" <=> q.place[c] \in {"cte", "operand"}
    BY <1>1 DEF Stands
  <2> QED
    BY <1>1, <2>1 DEF LookedAt
<1>5. \A m \in N : \A c \in Down(m) : c \in N /\ c > m
  <2> SUFFICES ASSUME NEW m \in N, NEW c \in Down(m) PROVE c \in N /\ c > m
    OBVIOUS
  <2>1. c \in N /\ q.parent[c] = m
    BY <1>4
  <2>2. c # 1
    BY <1>1, <2>1
  <2> QED
    BY <1>1, <2>1, <2>2
<1>6. QueryReadOnly(q) <=> ok[1]
  BY <1>1 DEF QueryReadOnly
<1> HIDE DEF Fine, Down, ok
<1>7. \A m \in N : m \in E(m) /\ Closed(E(m)) /\ E(m) \in SUBSET N
  OBVIOUS
<1>8. ASSUME NEW m \in N, NEW c \in Down(m) PROVE E(c) \subseteq E(m)
  <2>1. c \in N /\ q.parent[c] = m /\ q.place[c] # "derived"
    BY <1>4
  <2>2. c \in E(m)
    BY <1>7, <2>1
  <2> QED
    BY <1>7, <2>1, <2>2
<1>9. ASSUME NEW m \in N, NEW x \in E(m) PROVE x = m \/ \E c \in Down(m) : x \in E(c)
  <2> DEFINE S == {y \in N : y = m \/ \E c \in Down(m) : y \in E(c)}
  <2>1. m \in S /\ S \in SUBSET N
    OBVIOUS
  <2>2. ASSUME NEW c \in N, q.parent[c] \in S, q.place[c] # "derived" PROVE c \in S
    <3>1. CASE q.parent[c] = m
      <4>1. c \in Down(m)
        BY <1>4, <2>2, <3>1
      <4> QED
        BY <1>7, <4>1
    <3>2. ASSUME NEW d \in Down(m), q.parent[c] \in E(d) PROVE c \in S
      <4>1. d \in N
        BY <1>5
      <4>2. c \in E(d)
        BY <1>7, <2>2, <3>2, <4>1
      <4> QED
        BY <4>2
    <3> QED
      BY <2>2, <3>1, <3>2
  <2> HIDE DEF S
  <2>3. x \in S
    BY <2>1, <2>2
  <2> QED
    BY <2>3 DEF S
<1> HIDE DEF E
<1>10. ASSUME NEW m \in N PROVE F[m] <=> Fine(m) /\ \A c \in Down(m) : F[c]
  <2>1. ASSUME F[m] PROVE Fine(m) /\ \A c \in Down(m) : F[c]
    <3>1. \A x \in E(m) : Fine(x)
      BY <2>1
    <3>2. ASSUME NEW c \in Down(m) PROVE F[c]
      <4>1. c \in N /\ E(c) \subseteq E(m)
        BY <1>5, <1>8
      <4> QED
        BY <3>1, <4>1
    <3> QED
      BY <1>7, <3>1, <3>2
  <2>2. ASSUME Fine(m), \A c \in Down(m) : F[c] PROVE F[m]
    <3>1. ASSUME NEW x \in E(m) PROVE Fine(x)
      <4>1. CASE x = m
        BY <2>2, <4>1
      <4>2. ASSUME NEW c \in Down(m), x \in E(c) PROVE Fine(x)
        <5>1. c \in N /\ F[c]
          BY <1>5, <2>2
        <5> QED
          BY <4>2, <5>1
      <4> QED
        BY <1>9, <4>1, <4>2
    <3> QED
      BY <3>1
  <2> QED
    BY <2>1, <2>2
<1>11. P(F)
  <2> DEFINE G == [m \in N |-> Fine(m) /\ \A c \in Down(m) : F[c]]
  <2>1. \A m \in N : G[m] = (Fine(m) /\ \A c \in Down(m) : F[c])
    OBVIOUS
  <2>2. \A m \in N : F[m] = (\A x \in E(m) : Fine(x))
    OBVIOUS
  <2>3. F = [m \in N |-> F[m]] /\ G = [m \in N |-> G[m]]
    OBVIOUS
  <2> HIDE DEF F
  <2>4. \A m \in N : F[m] = G[m]
    BY <1>10, <2>1, <2>2, Zenon
  <2> HIDE DEF G
  <2>5. F = G
    BY <2>3, <2>4, Zenon
  <2> QED
    BY <2>5 DEF G
<1> HIDE DEF F
<1>12. P(ok)
  <2> HIDE DEF P
  <2> QED
    BY <1>11 DEF ok
<1>13. \A m \in N : ok[m] <=> Fine(m) /\ \A c \in Down(m) : ok[c]
  BY <1>12, Zenon
<1> HIDE DEF P
<1>14. ASSUME ok[1] PROVE \A x \in E(1) : Fine(x)
  <2> DEFINE S == {m \in N : ok[m]}
  <2>1. 1 \in S /\ S \in SUBSET N
    BY <1>14
  <2>2. Closed(S)
    <3> SUFFICES ASSUME NEW c \in N, q.parent[c] \in S, q.place[c] # "derived" PROVE ok[c]
      OBVIOUS
    <3>1. q.parent[c] \in N /\ ok[q.parent[c]]
      OBVIOUS
    <3>2. c \in Down(q.parent[c])
      BY <1>4, <3>1
    <3> QED
      BY <1>13, <3>1, <3>2
  <2> HIDE DEF S, Closed
  <2>3. E(1) \subseteq S
    BY <2>1, <2>2 DEF E
  <2> QED
    BY <1>13, <2>3 DEF S
<1>15. ASSUME \A x \in E(1) : Fine(x) PROVE ok[1]
  <2> DEFINE T == {k \in Nat : \A m \in N : m + k > n /\ m \in E(1) => ok[m]}
  <2>1. 0 \in T /\ T \in SUBSET Nat
    OBVIOUS
  <2>2. ASSUME NEW k \in T PROVE k + 1 \in T
    <3> SUFFICES ASSUME NEW m \in N, m + (k + 1) > n, m \in E(1) PROVE ok[m]
      BY <2>1
    <3>1. ASSUME NEW c \in Down(m) PROVE ok[c]
      <4>1. c \in N /\ c > m /\ c + k > n
        BY <1>5, <2>1
      <4>2. q.parent[c] = m /\ q.place[c] # "derived" /\ 1 \in N
        BY <1>4
      <4>3. c \in E(1)
        BY <1>7, <4>1, <4>2
      <4> QED
        BY <4>1, <4>3
    <3> QED
      BY <1>13, <1>15, <3>1
  <2> HIDE DEF T
  <2>3. n \in T
    BY <2>1, <2>2, SetInduction
  <2>4. 1 \in N /\ 1 + n > n
    OBVIOUS
  <2> QED
    BY <1>7, <2>3, <2>4 DEF T
<1>16. E(1) \subseteq N
  BY <1>7
<1> QED
  BY <1>2, <1>3, <1>6, <1>14, <1>15, <1>16

LEMMA AllowedReads ==
  ASSUME NEW x \in Requested
  PROVE  AllowedIsReadOnly(x.statements, x.provider)
<1> DEFINE s == x.statements
           q == s[1].query
<1>1. s \in StatementLists
  BY DEF Requested
<1>2. \E n \in Nat : DOMAIN s = 1 .. n /\ Len(s) = n /\ (n = 1 => q \in Queries)
  <2>1. CASE s \in [1 .. 1 -> [kind : {"query", "explain_query", "explain_other", "drop"}, query : Queries]]
    <3>1. DOMAIN s = 1 .. 1 /\ Len(s) = 1 /\ q \in Queries
      BY <2>1
    <3> QED
      BY <3>1
  <2>2. ASSUME NEW n \in {0, 2}, s \in [1 .. n -> [kind : {"query"}, query : QueryTrees(NodeKinds, 1)]]
        PROVE  DOMAIN s = 1 .. n /\ Len(s) = n /\ n \in Nat /\ n # 1
    BY <2>2
  <2> QED
    BY <1>1, <2>1, <2>2 DEF StatementLists
<1> HIDE DEF s, q
<1>3. PICK n \in Nat : DOMAIN s = 1 .. n /\ Len(s) = n /\ (n = 1 => q \in Queries)
  BY <1>2
<1>4. DOMAIN s = {1} <=> n = 1
  BY <1>3
<1>5. CASE n = 1
  <2>1. PICK k \in 1 .. MaxNodes : q \in QueryTrees(NodeKinds, k)
    BY <1>3, <1>5 DEF Queries
  <2>2. k \in Nat \ {0} /\ NodeKinds \subseteq SetExprs
    BY PagesAssumption
  <2>3. QueryReadOnly(q) <=> \A m \in Exposed(q) : q.kind[m] \notin Writing
    BY <2>1, <2>2, ChecksExposed
  <2>4. q.external = {} <=> \A m \in 1 .. q.size : m \notin q.external
    <3>1. q.external \subseteq 1 .. q.size
      BY <2>1 DEF QueryTrees
    <3> QED
      BY <3>1
  <2>5. DOMAIN s = {1} /\ Len(s) = 1
    BY <1>3, <1>4, <1>5
  <2> QED
    BY <2>3, <2>4, <2>5 DEF AllowedIsReadOnly, StatementAllowed, s, q
<1>6. CASE n # 1
  BY <1>3, <1>4, <1>6 DEF AllowedIsReadOnly, StatementAllowed, s
<1> QED
  BY <1>5, <1>6

LEMMA CheckFails ==
  ASSUME NEW name, NEW target, target \notin {"absent", "present"}
  PROVE  \E c \in ObjectCheck(name, target) : ~c.ok
<1>1. ObjectCheck(name, target) = {[name |-> name, ok |-> FALSE]}
  BY DEF ObjectCheck
<1> QED
  BY <1>1

LEMMA ReadyOnlyUsable ==
  ASSUME NEW p \in Probes, Ready(Preflight(p)) PROVE Usable(p)
<1> DEFINE checks == Preflight(p)
<1>0. /\ p.provider \in {"databricks", "snowflake", "bigquery", "duckdb"} /\ p.configured \in BOOLEAN /\ p.database \in BOOLEAN
      /\ p.catalog \in Targets /\ p.schema \in Targets /\ p.relation \in Targets /\ p.connection \in {"present", "error", "empty"}
  BY DEF Probes
<1>1. \A c \in checks : c.ok
  BY DEF Ready
<1>2. checks = CASE p.provider = "databricks" -> PreflightDatabricks(p)
                 [] p.provider = "snowflake" -> PreflightSnowflake(p)
                 [] p.provider = "bigquery" -> PreflightBigQuery(p)
                 [] p.provider = "duckdb" -> PreflightDuckDb(p)
  BY DEF Preflight
<1> HIDE DEF checks
<1>3. p.configured
  <2>1. SUFFICES ASSUME ~p.configured PROVE FALSE
    BY <1>0
  <2>2. checks = ConfigurationFailure
    BY <1>0, <1>2, <2>1 DEF PreflightDatabricks, PreflightSnowflake, PreflightBigQuery, PreflightDuckDb
  <2>3. \E c \in ConfigurationFailure : ~c.ok
    BY DEF ConfigurationFailure
  <2> QED
    BY <1>1, <2>2, <2>3
<1> DEFINE schema == IF p.provider = "databricks" THEN p.schema ELSE IF p.provider = "snowflake" THEN SchemaIn(p, p.database) ELSE SchemaIn(p, TRUE)
<1>4. /\ ObjectCheck("catalog_access", p.catalog) \subseteq checks /\ ObjectCheck("relation_access", p.relation) \subseteq checks
      /\ ObjectCheck("schema_access", schema) \subseteq checks
      /\ ConnectivityCheck(IF p.provider = "duckdb" THEN p.connection = "present" ELSE p.connection # "error") \subseteq checks
  <2>1. CASE p.provider = "databricks"
    BY <1>2, <1>3, <2>1 DEF PreflightDatabricks
  <2>2. CASE p.provider = "snowflake"
    BY <1>2, <1>3, <2>2 DEF PreflightSnowflake
  <2>3. CASE p.provider = "bigquery"
    BY <1>2, <1>3, <2>3 DEF PreflightBigQuery
  <2>4. CASE p.provider = "duckdb"
    BY <1>2, <1>3, <2>4 DEF PreflightDuckDb
  <2> QED
    BY <1>0, <2>1, <2>2, <2>3, <2>4
<1> HIDE DEF schema
<1>5. p.catalog \in {"absent", "present"} /\ p.relation \in {"absent", "present"} /\ schema \in {"absent", "present"}
  BY <1>1, <1>4, CheckFails
<1>6. IF p.provider = "duckdb" THEN p.connection = "present" ELSE p.connection # "error"
  <2> DEFINE answers == IF p.provider = "duckdb" THEN p.connection = "present" ELSE p.connection # "error"
  <2>1. SUFFICES ASSUME ~answers PROVE FALSE
    OBVIOUS
  <2>2. [name |-> "connectivity", ok |-> answers] \in checks
    BY <1>4 DEF ConnectivityCheck
  <2>3. answers = FALSE
    BY <2>1
  <2>4. [name |-> "connectivity", ok |-> FALSE] \in checks
    BY <2>2, <2>3
  <2> QED
    BY <1>1, <2>4
<1>7. p.schema \in {"absent", "present"}
  BY <1>5 DEF schema, SchemaIn
<1>8. p.provider = "snowflake" /\ p.schema # "absent" => p.catalog = "present" \/ p.database
  BY <1>5 DEF schema, SchemaIn
<1> QED
  BY <1>0, <1>3, <1>5, <1>6, <1>7, <1>8 DEF Usable

LEMMA CheckPasses ==
  ASSUME NEW name, NEW target \in {"absent", "present"}, NEW c \in ObjectCheck(name, target)
  PROVE  c.ok
<1>1. CASE target = "absent"
  BY <1>1 DEF ObjectCheck
<1>2. CASE target = "present"
  <2>1. ("present" = "present") = TRUE
    OBVIOUS
  <2>2. ObjectCheck(name, target) = {[name |-> name, ok |-> TRUE]}
    BY <1>2, <2>1 DEF ObjectCheck
  <2> QED
    BY <2>2
<1> QED
  BY <1>1, <1>2

LEMMA UsableIsReady ==
  ASSUME NEW p \in Probes, Usable(p) PROVE Ready(Preflight(p))
<1>0. /\ p.provider \in {"databricks", "snowflake", "bigquery", "duckdb"} /\ p.configured /\ p.database \in BOOLEAN
      /\ p.catalog \in {"absent", "present"} /\ p.schema \in {"absent", "present"} /\ p.relation \in {"absent", "present"}
      /\ p.provider = "duckdb" => p.connection = "present"
      /\ p.connection # "error"
  BY DEF Probes, Usable
<1>1. /\ SchemaIn(p, TRUE) \in {"absent", "present"}
      /\ p.provider = "snowflake" => SchemaIn(p, p.database) \in {"absent", "present"}
  BY <1>0 DEF SchemaIn, Usable
<1> SUFFICES ASSUME NEW c \in Preflight(p) PROVE c.ok
  BY DEF Ready
<1> DEFINE objects == ObjectCheck("catalog_access", p.catalog) \cup ObjectCheck("relation_access", p.relation)
<1>2. c \in objects => c.ok
  BY <1>0, CheckPasses
<1>3. CASE p.provider = "databricks"
  <2>1. c \in ConnectivityCheck(TRUE) \cup objects \cup ObjectCheck("schema_access", p.schema)
    BY <1>0, <1>3 DEF Preflight, PreflightDatabricks
  <2> QED
    BY <1>0, <1>2, <2>1, CheckPasses DEF ConnectivityCheck
<1>4. CASE p.provider = "snowflake"
  <2>1. c \in ConnectivityCheck(TRUE) \cup objects \cup ObjectCheck("schema_access", SchemaIn(p, p.database))
    BY <1>0, <1>4 DEF Preflight, PreflightSnowflake
  <2> QED
    BY <1>1, <1>2, <1>4, <2>1, CheckPasses DEF ConnectivityCheck
<1>5. CASE p.provider = "bigquery"
  <2>1. c \in ConnectivityCheck(TRUE) \cup objects \cup ObjectCheck("schema_access", SchemaIn(p, TRUE))
    BY <1>0, <1>5 DEF Preflight, PreflightBigQuery
  <2> DEFINE schema == SchemaIn(p, TRUE)
  <2>2. schema \in {"absent", "present"}
    BY <1>1
  <2>3. c \in ConnectivityCheck(TRUE) \cup objects \cup ObjectCheck("schema_access", schema)
    BY <2>1
  <2> HIDE DEF schema, objects
  <2>4. c \in objects \/ c \in ObjectCheck("schema_access", schema) \/ c.ok
    BY <2>3 DEF ConnectivityCheck
  <2> QED
    BY <1>2, <2>2, <2>4, CheckPasses
<1>6. CASE p.provider = "duckdb"
  <2>1. c \in {[name |-> "configuration", ok |-> TRUE]} \cup ConnectivityCheck(TRUE) \cup objects
             \cup ObjectCheck("schema_access", SchemaIn(p, TRUE))
    BY <1>0, <1>6 DEF Preflight, PreflightDuckDb
  <2> DEFINE schema == SchemaIn(p, TRUE)
  <2>2. schema \in {"absent", "present"}
    BY <1>1
  <2>3. c \in {[name |-> "configuration", ok |-> TRUE]} \cup ConnectivityCheck(TRUE) \cup objects \cup ObjectCheck("schema_access", schema)
    BY <2>1
  <2> HIDE DEF schema, objects
  <2>4. c \in objects \/ c \in ObjectCheck("schema_access", schema) \/ c.ok
    BY <2>3 DEF ConnectivityCheck
  <2> QED
    BY <1>2, <2>2, <2>4, CheckPasses
<1> QED
  BY <1>0, <1>3, <1>4, <1>5, <1>6

LEMMA ReadyUsable ==
  ASSUME NEW p \in Probes PROVE ReadyIsUsable(p)
BY ReadyOnlyUsable, UsableIsReady DEF ReadyIsUsable

-----------------------------------------------------------------------------
(* Pages under a budget. Nothing is used of the sizes but the comparison   *)
(* with the budget.                                                        *)

Responses ==
  [kind : CollectionKinds, items : Seq(Nat), columns : Seq(Nat), count : Nat, total : Nat, truncated : BOOLEAN,
   omitted : BOOLEAN, meta : BOOLEAN, next : Nat]

LEMMA CutArrayShort ==
  ASSUME NEW sizes \in Seq(Nat), NEW a \in Nat, NEW b \in Nat
  PROVE  CutArray(sizes, a, b) \in Seq(Nat) /\ Len(CutArray(sizes, a, b)) <= Len(sizes)
<1> DEFINE m == IF Len(sizes) > b THEN b ELSE Len(sizes)
           kept == SubSeq(sizes, 1, m)
           cut == [i \in 1 .. m |-> CutString(kept[i], a)]
<1>1. m \in Nat /\ m <= Len(sizes) /\ m \in Int /\ \A i \in 1 .. m : sizes[i] \in Nat
  BY LenProperties, ElementOfSeq
<1>2. CutArray(sizes, a, b) = [i \in DOMAIN kept |-> CutString(kept[i], a)]
  BY DEF CutArray
<1> HIDE DEF m
<1>3. kept \in Seq(Nat) /\ Len(kept) = m
  BY <1>1, SubSeqProperties
<1> HIDE DEF kept
<1>4. DOMAIN kept = 1 .. m /\ \A i \in 1 .. m : kept[i] \in Nat
  BY <1>3, LenProperties, ElementOfSeq
<1>5. CutArray(sizes, a, b) = cut
  BY <1>2, <1>4
<1>6. \A i \in 1 .. m : CutString(kept[i], a) \in Nat
  BY <1>4 DEF CutString
<1>7. cut \in Seq(Nat) /\ Len(cut) = m
  BY <1>1, <1>6
<1> HIDE DEF cut
<1> QED
  BY <1>1, <1>5, <1>7

\* The lengths of the arrays of an answer.
Items(v) == Len(v.items)
Columns(v) == Len(v.columns)

LEMMA Lengths ==
  ASSUME NEW v \in Responses
  PROVE  /\ v.items \in Seq(Nat) /\ v.columns \in Seq(Nat) /\ Items(v) \in Nat /\ Columns(v) \in Nat
         /\ ItemsReturned(v) = Items(v) + Columns(v) /\ ItemsReturned(v) \in Nat
<1>1. v.items \in Seq(Nat) /\ v.columns \in Seq(Nat)
  BY DEF Responses
<1>2. Items(v) \in Nat /\ Columns(v) \in Nat
  BY <1>1, LenProperties DEF Items, Columns
<1>3. ItemsReturned(v) = Items(v) + Columns(v)
  BY DEF ItemsReturned, Items, Columns
<1> QED
  BY <1>1, <1>2, <1>3

\* An answer with fewer items, and otherwise as before.
Cut(v, w) ==
  /\ w \in Responses /\ w.kind = v.kind /\ w.count = v.count /\ w.total = v.total
  /\ w.truncated = v.truncated /\ w.next = v.next
  /\ Items(w) <= Items(v) /\ Columns(w) <= Columns(v)

LEMMA CutOnce ==
  ASSUME NEW v \in Responses, NEW a \in Nat, NEW b \in Nat
  PROVE  Cut(v, CutForBudget(v, a, b))
<1> DEFINE x == CutArray(v.items, a, b)
           y == CutArray(v.columns, a, b)
           o == v.omitted \/ x # v.items \/ y # v.columns
           w == [v EXCEPT !.items = x, !.columns = y, !.omitted = o]
<1>0. v.items \in Seq(Nat) /\ v.columns \in Seq(Nat)
  BY DEF Responses
<1>1. x \in Seq(Nat) /\ Len(x) <= Items(v) /\ y \in Seq(Nat) /\ Len(y) <= Columns(v)
  BY <1>0, CutArrayShort DEF Items, Columns
<1>2. CutForBudget(v, a, b) = w
  BY DEF CutForBudget
<1>3. o \in BOOLEAN
  BY DEF Responses
<1> HIDE DEF x, y, o
<1>4. /\ w \in Responses /\ w.kind = v.kind /\ w.count = v.count /\ w.total = v.total
      /\ w.truncated = v.truncated /\ w.next = v.next /\ w.items = x /\ w.columns = y
  BY <1>1, <1>3 DEF Responses
<1>5. Items(w) = Len(x) /\ Columns(w) = Len(y)
  BY <1>4 DEF Items, Columns
<1> HIDE DEF w
<1> QED
  BY <1>1, <1>2, <1>4, <1>5 DEF Cut

LEMMA CutMore ==
  ASSUME NEW v \in Responses, NEW w, NEW u, Cut(v, w), Cut(w, u) PROVE Cut(v, u)
<1>1. w \in Responses /\ u \in Responses
  BY DEF Cut
<1>2. /\ Items(v) \in Nat /\ Items(w) \in Nat /\ Items(u) \in Nat
      /\ Columns(v) \in Nat /\ Columns(w) \in Nat /\ Columns(u) \in Nat
  BY <1>1, Lengths
<1> QED
  BY <1>2 DEF Cut

\* An answer whose count is that of its items, with one array unless it is
\* get_undocumented's.
Counted(v) ==
  v \in Responses /\ v.count = ItemsReturned(v) /\ (v.kind # "undocumented" => Columns(v) = 0)

LEMMA Shaped ==
  ASSUME NEW v, Counted(v), NEW w, Cut(v, w)
  PROVE  LET r == NormalizeShape(w, v)
         IN  /\ Counted(r) /\ r.items = w.items /\ r.columns = w.columns /\ r.total = v.total /\ r.next = v.next
             /\ ItemsReturned(w) < ItemsReturned(v) => r.truncated
<1> DEFINE t == w.truncated \/ w.omitted
           marked == [w EXCEPT !.truncated = t]
           n == ItemsReturned(w)
           u == t \/ v.total > n \/ w.count # n
           r == [w EXCEPT !.truncated = u, !.count = n]
<1>0. /\ v \in Responses /\ w \in Responses /\ v.kind \in CollectionKinds /\ w.kind = v.kind /\ v.count = ItemsReturned(v)
      /\ w.count = v.count /\ w.total = v.total /\ w.next = v.next
  BY DEF Cut, Counted, Responses
<1>l. /\ n \in Nat /\ ItemsReturned(v) \in Nat /\ n = Items(w) + Columns(w) /\ Items(w) \in Nat /\ Columns(w) \in Nat
      /\ ItemsReturned(v) = Items(v) + Columns(v) /\ Items(v) \in Nat /\ Columns(v) \in Nat
  BY <1>0, Lengths
<1>o. v.kind # "undocumented" => Columns(w) = 0 /\ n = Items(w) /\ v.count = Items(v)
  BY <1>0, <1>l DEF Cut, Counted
<1>1. marked.count = w.count /\ marked.truncated = t /\ marked.kind = w.kind
  BY <1>0 DEF Responses
<1>2. NormalizeShape(w, v) = NormalizeCount(marked, n, v.total)
  <2>1. CASE v.kind = "undocumented"
    BY <1>0, <2>1 DEF NormalizeShape
  <2>2. CASE v.kind # "undocumented"
    <3>1. v.count = Len(v.items) /\ n = Len(w.items)
      BY <1>o, <2>2 DEF Items
    <3> QED
      BY <1>0, <2>2, <3>1 DEF NormalizeShape, CollectionKinds
  <2> QED
    BY <2>1, <2>2
<1>3. NormalizeCount(marked, n, v.total) = [marked EXCEPT !.count = n, !.truncated = u]
  BY <1>1 DEF NormalizeCount
<1>4. [marked EXCEPT !.count = n, !.truncated = u] = r
  BY <1>0 DEF Responses
<1>5. t \in BOOLEAN /\ u \in BOOLEAN
  BY <1>0 DEF Responses
<1>6. n < ItemsReturned(v) => u
  BY <1>0, <1>l
<1> HIDE DEF t, u, n
<1>7. /\ r \in Responses /\ r.count = n /\ r.items = w.items /\ r.columns = w.columns /\ r.kind = v.kind
      /\ r.total = v.total /\ r.next = v.next /\ r.truncated = u
  BY <1>0, <1>5, <1>l DEF Responses
<1>8. NormalizeShape(w, v) = r
  BY <1>2, <1>3, <1>4
<1> HIDE DEF r
<1>9. ItemsReturned(r) = n
  BY <1>7 DEF ItemsReturned, n
<1>10. Counted(r)
  <2>1. Columns(r) = Columns(w)
    BY <1>7 DEF Columns
  <2> QED
    BY <1>o, <1>7, <1>9, <2>1 DEF Counted
<1> QED
  BY <1>6, <1>7, <1>8, <1>10 DEF n

\* What is left of an answer when there is no room for it.
Emptied(v) == ItemsReturned(v) = 0 /\ v.truncated

LEMMA Finalized ==
  ASSUME NEW v, Counted(v), NEW budget \in Nat, NEW includeMeta \in BOOLEAN
  PROVE  LET r == Finalize(v, budget, includeMeta)
         IN  /\ Counted(r) /\ r.total = v.total /\ r.next = v.next
             /\ (r.items = v.items /\ r.columns = v.columns /\ r.truncated = v.truncated) \/ Emptied(r)
             /\ SerializedLen(r) <= budget \/ Emptied(r)
<1> DEFINE with == [v EXCEPT !.meta = TRUE]
           compact == [Compact(v) EXCEPT !.meta = includeMeta]
           bare == [v EXCEPT !.items = <<>>, !.columns = <<>>, !.truncated = TRUE, !.count = 0, !.meta = includeMeta]
<1>0. v \in Responses /\ v.kind \in CollectionKinds /\ v.count = ItemsReturned(v)
  BY DEF Counted, Responses
<1>1. Compact(v) = [v EXCEPT !.items = <<>>, !.columns = <<>>, !.truncated = TRUE, !.count = 0]
  BY <1>0 DEF Compact
<1>2. compact = bare
  BY <1>0, <1>1 DEF Responses
<1>3. Finalize(v, budget, includeMeta) =
        IF SerializedLen(v) <= budget THEN IF includeMeta /\ SerializedLen(with) <= budget THEN with ELSE v ELSE compact
  BY DEF Finalize
<1>4. <<>> \in Seq(Nat) /\ Len(<<>>) = 0
  BY EmptySeq
<1>5. Counted(bare) /\ bare.total = v.total /\ bare.next = v.next /\ Emptied(bare)
  <2>1. /\ bare \in Responses /\ bare.items = <<>> /\ bare.columns = <<>> /\ bare.truncated /\ bare.count = 0
        /\ bare.total = v.total /\ bare.next = v.next
    BY <1>0, <1>4 DEF Responses
  <2> HIDE DEF bare
  <2>2. ItemsReturned(bare) = 0
    BY <1>4, <2>1 DEF ItemsReturned
  <2> QED
    BY <1>4, <2>1, <2>2 DEF Counted, Emptied, Columns
<1>6. /\ Counted(with) /\ with.total = v.total /\ with.next = v.next
      /\ with.items = v.items /\ with.columns = v.columns /\ with.truncated = v.truncated
  <2>1. /\ with \in Responses /\ with.items = v.items /\ with.columns = v.columns /\ with.truncated = v.truncated
        /\ with.count = v.count /\ with.kind = v.kind /\ with.total = v.total /\ with.next = v.next
    BY <1>0 DEF Responses
  <2> HIDE DEF with
  <2> QED
    BY <2>1 DEF Counted, ItemsReturned, Columns
<1> HIDE DEF with, compact, bare
<1>7. CASE ~(SerializedLen(v) <= budget)
  BY <1>2, <1>3, <1>5, <1>7
<1>8. CASE SerializedLen(v) <= budget /\ includeMeta /\ SerializedLen(with) <= budget
  BY <1>3, <1>6, <1>8
<1>9. CASE SerializedLen(v) <= budget /\ ~(includeMeta /\ SerializedLen(with) <= budget)
  BY <1>3, <1>9
<1> QED
  BY <1>7, <1>8, <1>9

CutPlans == [1 .. 3 -> [string : Nat, items : Nat]]

LEMMA Applied ==
  ASSUME NEW v, Counted(v), NEW budget \in Nat, NEW includeMeta \in BOOLEAN, NEW cuts \in CutPlans
  PROVE  LET r == ApplyBudget(v, budget, includeMeta, cuts)
         IN  /\ Counted(r) /\ r.total = v.total /\ r.next = v.next
             /\ Items(r) <= Items(v) /\ Columns(r) <= Columns(v)
             /\ ItemsReturned(r) < ItemsReturned(v) => r.truncated
             /\ budget = 0 \/ SerializedLen(r) <= budget \/ Emptied(r)
             /\ budget = 0 => r = v
<1> DEFINE One(w, i) == CutForBudget(w, cuts[i].string, cuts[i].items)
           x == One(v, 1)
           y == IF SerializedLen(x) > budget THEN One(x, 2) ELSE x
           z == IF SerializedLen(y) > budget THEN One(y, 3) ELSE y
           s == NormalizeShape(z, v)
           f == Finalize(s, budget, includeMeta)
<1>0. v \in Responses /\ \A i \in 1 .. 3 : cuts[i].string \in Nat /\ cuts[i].items \in Nat
  BY DEF Counted, CutPlans
<1>1. ApplyBudget(v, budget, includeMeta, cuts) = IF budget = 0 \/ SerializedLen(v) <= budget THEN v ELSE f
  BY DEF ApplyBudget
<1>2. \A w \in Responses, i \in 1 .. 3 : Cut(w, One(w, i))
  BY <1>0, CutOnce
<1> HIDE DEF One
<1>3. Cut(v, x)
  BY <1>0, <1>2
<1>4. Cut(v, y)
  <2>1. x \in Responses
    BY <1>3 DEF Cut
  <2> HIDE DEF x
  <2>2. Cut(x, One(x, 2))
    BY <1>2, <2>1
  <2>3. Cut(v, One(x, 2))
    BY <1>0, <1>3, <2>2, CutMore
  <2> QED
    BY <1>3, <2>3
<1>5. Cut(v, z)
  <2>1. y \in Responses
    BY <1>4 DEF Cut
  <2> HIDE DEF y
  <2>2. Cut(y, One(y, 3))
    BY <1>2, <2>1
  <2>3. Cut(v, One(y, 3))
    BY <1>0, <1>4, <2>2, CutMore
  <2> QED
    BY <1>4, <2>3
<1> HIDE DEF x, y, z
<1>6. /\ Counted(s) /\ s.items = z.items /\ s.columns = z.columns /\ s.total = v.total /\ s.next = v.next
      /\ ItemsReturned(z) < ItemsReturned(v) => s.truncated
  BY <1>5, Shaped
<1> HIDE DEF s
<1>7. /\ Counted(f) /\ f.total = s.total /\ f.next = s.next
      /\ (f.items = s.items /\ f.columns = s.columns /\ f.truncated = s.truncated) \/ Emptied(f)
      /\ SerializedLen(f) <= budget \/ Emptied(f)
  BY <1>6, Finalized
<1> HIDE DEF f
<1>8. /\ Items(v) \in Nat /\ Columns(v) \in Nat /\ Items(z) <= Items(v) /\ Columns(z) <= Columns(v)
      /\ Items(f) \in Nat /\ Columns(f) \in Nat /\ ItemsReturned(f) = Items(f) + Columns(f)
      /\ ItemsReturned(z) = Items(z) + Columns(z) /\ ItemsReturned(v) \in Nat
  <2>1. z \in Responses /\ f \in Responses
    BY <1>5, <1>7 DEF Cut, Counted
  <2> QED
    BY <1>0, <1>5, <2>1, Lengths DEF Cut
<1>9. CASE budget = 0 \/ SerializedLen(v) <= budget
  BY <1>1, <1>8, <1>9
<1>10. CASE ~(budget = 0 \/ SerializedLen(v) <= budget)
  <2>1. Emptied(f) => Items(f) = 0 /\ Columns(f) = 0 /\ f.truncated
    BY <1>8 DEF Emptied
  <2>2. /\ Items(f) <= Items(v) /\ Columns(f) <= Columns(v)
        /\ ItemsReturned(f) < ItemsReturned(v) => f.truncated
    <3>1. CASE Emptied(f)
      BY <1>8, <2>1, <3>1
    <3>2. CASE f.items = s.items /\ f.columns = s.columns /\ f.truncated = s.truncated
      <4>1. Items(f) = Items(z) /\ Columns(f) = Columns(z)
        BY <1>6, <3>2 DEF Items, Columns
      <4>2. ItemsReturned(f) = ItemsReturned(z)
        BY <1>8, <4>1
      <4> QED
        BY <1>6, <1>8, <3>2, <4>1, <4>2
    <3> QED
      BY <1>7, <3>1, <3>2
  <2> QED
    BY <1>1, <1>6, <1>7, <1>10, <2>2
<1> QED
  BY <1>9, <1>10

PageRequests ==
  [kind : CollectionKinds, limit : Nat \ {0}, budget : Nat, includeMeta : BOOLEAN, cuts : CutPlans]

\* Where the page at an offset ends.
PageEnd(n, offset, limit) == IF offset + limit < n THEN offset + limit ELSE n

\* The places a page has found up to the i-th: all those between, in one array or
\* the other.
FoundTo(f, n, i, offset, limit) ==
  /\ f \in [items : Seq(1 .. n), columns : Seq(1 .. n)]
  /\ ItemsReturned(f) = (IF i <= offset THEN 0 ELSE PageEnd(i, offset, limit) - offset)
  /\ ToSet(f.items) \cup ToSet(f.columns) = (offset + 1) .. PageEnd(i, offset, limit)

LEMMA AppendPlace ==
  ASSUME NEW S, NEW s \in Seq(S), NEW x \in S
  PROVE  Append(s, x) \in Seq(S) /\ Len(Append(s, x)) = Len(s) + 1 /\ ToSet(Append(s, x)) = ToSet(s) \cup {x}
<1> DEFINE t == Append(s, x)
<1>1. /\ t \in Seq(S) /\ Len(t) = Len(s) + 1 /\ \A i \in 1 .. Len(s) : t[i] = s[i]
      /\ t[Len(s) + 1] = x
  BY AppendProperties
<1> HIDE DEF t
<1>2. Len(s) \in Nat /\ DOMAIN s = 1 .. Len(s) /\ DOMAIN t = 1 .. (Len(s) + 1)
  BY <1>1, LenProperties
<1>3. ASSUME NEW y PROVE y \in ToSet(t) <=> y \in ToSet(s) \cup {x}
  <2>1. ASSUME y \in ToSet(t) PROVE y \in ToSet(s) \cup {x}
    <3>1. PICK i \in 1 .. (Len(s) + 1) : y = t[i]
      BY <1>2, <2>1 DEF ToSet
    <3>2. CASE i = Len(s) + 1
      BY <1>1, <3>1, <3>2
    <3>3. CASE i \in 1 .. Len(s)
      BY <1>1, <1>2, <3>1, <3>3 DEF ToSet
    <3> QED
      BY <1>2, <3>2, <3>3
  <2>2. ASSUME y \in ToSet(s) PROVE y \in ToSet(t)
    <3>1. PICK i \in 1 .. Len(s) : y = s[i]
      BY <1>2, <2>2 DEF ToSet
    <3>2. i \in DOMAIN t /\ t[i] = y
      BY <1>1, <1>2, <3>1
    <3> QED
      BY <3>2 DEF ToSet
  <2>3. x \in ToSet(t)
    <3>1. Len(s) + 1 \in DOMAIN t
      BY <1>2
    <3> QED
      BY <1>1, <3>1 DEF ToSet
  <2> QED
    BY <2>1, <2>2, <2>3
<1>4. ToSet(t) = ToSet(s) \cup {x}
  BY <1>3
<1> QED
  BY <1>1, <1>4 DEF t

Page0 == [items |-> <<>>, columns |-> <<>>]
LookAt(f, i, columns, offset, limit) ==
  IF i <= offset \/ ItemsReturned(f) >= limit THEN f
  ELSE IF i \in columns THEN [f EXCEPT !.columns = Append(@, i)]
  ELSE [f EXCEPT !.items = Append(@, i)]
Arrays(n) == [items : Seq(1 .. n), columns : Seq(1 .. n)]

LEMMA ArrayLengths ==
  ASSUME NEW n \in Nat, NEW f \in Arrays(n)
  PROVE  /\ f.items \in Seq(1 .. n) /\ f.columns \in Seq(1 .. n) /\ Items(f) \in Nat /\ Columns(f) \in Nat
         /\ ItemsReturned(f) = Items(f) + Columns(f)
<1>1. f.items \in Seq(1 .. n) /\ f.columns \in Seq(1 .. n)
  BY DEF Arrays
<1>2. Items(f) \in Nat /\ Columns(f) \in Nat
  BY <1>1, LenProperties DEF Items, Columns
<1>3. ItemsReturned(f) = Items(f) + Columns(f)
  BY DEF ItemsReturned, Items, Columns
<1> QED
  BY <1>1, <1>2, <1>3

LEMMA Look ==
  ASSUME NEW n \in Nat, NEW columns, NEW offset \in Nat, NEW limit \in Nat \ {0}, NEW i \in 1 .. n, NEW f \in Arrays(n)
  PROVE  /\ LookAt(f, i, columns, offset, limit) \in Arrays(n)
         /\ FoundTo(f, n, i - 1, offset, limit) => FoundTo(LookAt(f, i, columns, offset, limit), n, i, offset, limit)
<1> DEFINE a == Append(f.items, i)
           b == Append(f.columns, i)
           g == [f EXCEPT !.items = a]
           h == [f EXCEPT !.columns = b]
<1>0. f.items \in Seq(1 .. n) /\ f.columns \in Seq(1 .. n) /\ Items(f) \in Nat /\ Columns(f) \in Nat
  BY ArrayLengths
<1>1. /\ a \in Seq(1 .. n) /\ Len(a) = Items(f) + 1 /\ ToSet(a) = ToSet(f.items) \cup {i}
      /\ b \in Seq(1 .. n) /\ Len(b) = Columns(f) + 1 /\ ToSet(b) = ToSet(f.columns) \cup {i}
  <2>1. a \in Seq(1 .. n) /\ Len(a) = Len(f.items) + 1 /\ ToSet(a) = ToSet(f.items) \cup {i}
    BY <1>0, AppendPlace
  <2>2. b \in Seq(1 .. n) /\ Len(b) = Len(f.columns) + 1 /\ ToSet(b) = ToSet(f.columns) \cup {i}
    BY <1>0, AppendPlace
  <2> HIDE DEF a, b
  <2> QED
    BY <2>1, <2>2 DEF Items, Columns
<1>2. LookAt(f, i, columns, offset, limit) =
        IF i <= offset \/ ItemsReturned(f) >= limit THEN f ELSE IF i \in columns THEN h ELSE g
  BY DEF LookAt
<1> HIDE DEF a, b
<1>3. g \in Arrays(n) /\ g.items = a /\ g.columns = f.columns /\ h \in Arrays(n) /\ h.items = f.items /\ h.columns = b
  BY <1>1 DEF Arrays
<1> HIDE DEF g, h
<1>4. /\ ItemsReturned(f) \in Nat /\ ItemsReturned(g) = ItemsReturned(f) + 1 /\ ItemsReturned(h) = ItemsReturned(f) + 1
  <2>1. /\ ItemsReturned(f) = Items(f) + Columns(f) /\ ItemsReturned(g) = Items(g) + Columns(g)
        /\ ItemsReturned(h) = Items(h) + Columns(h)
    BY <1>3, ArrayLengths
  <2>2. Items(g) = Items(f) + 1 /\ Columns(g) = Columns(f) /\ Items(h) = Items(f) /\ Columns(h) = Columns(f) + 1
    BY <1>1, <1>3 DEF Items, Columns
  <2> QED
    BY <1>0, <2>1, <2>2
<1>5. LookAt(f, i, columns, offset, limit) \in Arrays(n)
  BY <1>2, <1>3
<1>6. ASSUME FoundTo(f, n, i - 1, offset, limit) PROVE FoundTo(LookAt(f, i, columns, offset, limit), n, i, offset, limit)
  <2> DEFINE so == ToSet(f.items) \cup ToSet(f.columns)
  <2>1. /\ ItemsReturned(f) = (IF i - 1 <= offset THEN 0 ELSE PageEnd(i - 1, offset, limit) - offset)
        /\ so = (offset + 1) .. PageEnd(i - 1, offset, limit)
    BY <1>6 DEF FoundTo
  <2>2. ToSet(g.items) \cup ToSet(g.columns) = so \cup {i} /\ ToSet(h.items) \cup ToSet(h.columns) = so \cup {i}
    BY <1>1, <1>3
  <2> HIDE DEF so
  <2>3. CASE i <= offset
    <3>1. so = (offset + 1) .. PageEnd(i, offset, limit) /\ ItemsReturned(f) = 0
      BY <2>1, <2>3 DEF PageEnd
    <3> QED
      BY <1>2, <2>3, <3>1 DEF FoundTo, Arrays, so
  <2>4. CASE i > offset /\ ItemsReturned(f) >= limit
    <3>1. PageEnd(i - 1, offset, limit) = offset + limit /\ i - 1 > offset
      BY <1>4, <2>1, <2>4 DEF PageEnd
    <3>2. PageEnd(i, offset, limit) = offset + limit
      BY <2>1, <2>4, <3>1 DEF PageEnd
    <3>3. so = (offset + 1) .. PageEnd(i, offset, limit) /\ ItemsReturned(f) = PageEnd(i, offset, limit) - offset
      BY <2>1, <3>1, <3>2
    <3> QED
      BY <1>2, <2>4, <3>3 DEF FoundTo, Arrays, so
  <2>5. CASE i > offset /\ ItemsReturned(f) < limit
    <3>1. PageEnd(i - 1, offset, limit) = i - 1 /\ PageEnd(i, offset, limit) = i /\ ItemsReturned(f) = (i - 1) - offset
      BY <2>1, <2>5 DEF PageEnd
    <3>2. so \cup {i} = (offset + 1) .. PageEnd(i, offset, limit) /\ ItemsReturned(f) + 1 = PageEnd(i, offset, limit) - offset
      BY <2>1, <2>5, <3>1
    <3>3. ~(i <= offset) /\ ~(ItemsReturned(f) >= limit)
      BY <1>4, <2>5
    <3>4. FoundTo(g, n, i, offset, limit) /\ FoundTo(h, n, i, offset, limit)
      BY <1>3, <1>4, <2>2, <2>5, <3>2, <3>3 DEF FoundTo, Arrays
    <3> QED
      BY <1>2, <3>3, <3>4
  <2> QED
    BY <1>4, <2>3, <2>4, <2>5
<1> QED
  BY <1>5, <1>6

\* What get_undocumented's loop finds.
LEMMA LookedAlong ==
  ASSUME NEW n \in Nat, NEW columns, NEW offset \in Nat, NEW limit \in Nat \ {0}
  PROVE  FoundTo(Undocumented(n, columns, offset, limit), n, n, offset, limit)
<1> DEFINE P(f) == f = [i \in 0 .. n |-> IF i = 0 THEN Page0 ELSE LookAt(f[i - 1], i, columns, offset, limit)]
           g == [i \in 1 .. n |-> [x \in Arrays(n) |-> LookAt(x, i, columns, offset, limit)]]
           looked == CHOOSE f : P(f)
<1>1. Undocumented(n, columns, offset, limit) = looked[n]
  BY DEF Undocumented, LookAt, Page0
<1>2. Page0 \in Arrays(n)
  BY EmptySeq DEF Page0, Arrays
<1>3. g \in [1 .. n -> [Arrays(n) -> Arrays(n)]]
  BY Look
<1>4. PICK F \in [0 .. n -> Arrays(n)] : F[0] = Page0 /\ \A i \in 1 .. n : F[i] = g[i][F[i - 1]]
  <2> HIDE DEF g, P, looked
  <2>1. \E F : Iterates(F, Arrays(n), Page0, n, g)
    BY <1>2, <1>3, Recursion
  <2> QED
    BY <2>1 DEF Iterates
<1>5. \A i \in 1 .. n : F[i] = LookAt(F[i - 1], i, columns, offset, limit)
  <2>1. \A i \in 1 .. n : F[i - 1] \in Arrays(n)
    BY <1>4
  <2> QED
    BY <1>4, <2>1
<1>6. P(F)
  BY <1>4, <1>5
<1>7. P(looked)
  <2> HIDE DEF P
  <2> QED
    BY <1>6
<1>8. looked[0] = Page0 /\ \A i \in 1 .. n : looked[i] = LookAt(looked[i - 1], i, columns, offset, limit)
  <2> HIDE DEF looked
  <2> QED
    BY <1>7
<1> HIDE DEF looked, P, g
<1> DEFINE S == {k \in Nat : k <= n => FoundTo(looked[k], n, k, offset, limit)}
<1>9. FoundTo(Page0, n, 0, offset, limit)
  <2>1. Page0.items = <<>> /\ Page0.columns = <<>> /\ Len(<<>>) = 0 /\ DOMAIN <<>> = {}
    BY EmptySeq DEF Page0
  <2>2. ToSet(Page0.items) \cup ToSet(Page0.columns) = {} /\ ItemsReturned(Page0) = 0
    BY <2>1 DEF ToSet, ItemsReturned
  <2>3. (offset + 1) .. PageEnd(0, offset, limit) = {} /\ 0 <= offset
    BY DEF PageEnd
  <2> QED
    BY <1>2, <2>2, <2>3 DEF FoundTo, Arrays
<1>10. S \in SUBSET Nat /\ 0 \in S
  BY <1>8, <1>9
<1>11. ASSUME NEW k \in S PROVE k + 1 \in S
  <2> SUFFICES ASSUME k + 1 <= n PROVE FoundTo(looked[k + 1], n, k + 1, offset, limit)
    OBVIOUS
  <2>1. k \in Nat /\ k + 1 \in 1 .. n /\ (k + 1) - 1 = k /\ FoundTo(looked[k], n, k, offset, limit)
    OBVIOUS
  <2>2. looked[k + 1] = LookAt(looked[k], k + 1, columns, offset, limit) /\ looked[k] \in Arrays(n)
    BY <1>8, <2>1 DEF FoundTo, Arrays
  <2> HIDE DEF S
  <2> QED
    BY <2>1, <2>2, Look
<1> HIDE DEF S
<1>12. n \in S
  BY <1>10, <1>11, SetInduction
<1> QED
  BY <1>1, <1>12 DEF S

\* What a tool puts on a page.
FoundSound(f, n, offset, p) ==
  /\ f \in Arrays(n)
  /\ ItemsReturned(f) = PageEnd(n, offset, p.limit) - offset
  /\ ToSet(f.items) \cup ToSet(f.columns) = (offset + 1) .. PageEnd(n, offset, p.limit)
  /\ p.kind # "undocumented" => f.columns = <<>> /\ \A i \in 1 .. Len(f.items) : f.items[i] = offset + i

LEMMA FoundOnPage ==
  ASSUME NEW n \in Nat, NEW columns, NEW offset \in 0 .. n, NEW p \in PageRequests
  PROVE  FoundSound(Found(n, columns, offset, p), n, offset, p)
<1>0. p.limit \in Nat \ {0}
  BY DEF PageRequests
<1> DEFINE f == Found(n, columns, offset, p)
           end == PageEnd(n, offset, p.limit)
<1>1. CASE p.kind = "undocumented"
  <2>1. f = Undocumented(n, columns, offset, p.limit)
    BY <1>1 DEF Found
  <2>2. FoundTo(f, n, n, offset, p.limit)
    BY <1>0, <2>1, LookedAlong
  <2>3. n <= offset => end - offset = 0
    BY <1>0 DEF PageEnd
  <2> QED
    BY <1>1, <2>2, <2>3 DEF FoundTo, FoundSound, Arrays
<1>2. CASE p.kind # "undocumented"
  <2> DEFINE s == [i \in 1 .. (end - offset) |-> offset + i]
  <2>1. f = [items |-> s, columns |-> <<>>]
    BY <1>2 DEF Found, PageEnd
  <2>2. end \in Nat /\ offset <= end /\ end <= n
    BY <1>0 DEF PageEnd
  <2> HIDE DEF end
  <2>3. s \in Seq(1 .. n) /\ Len(s) = end - offset /\ DOMAIN s = 1 .. (end - offset) /\ \A i \in 1 .. (end - offset) : s[i] = offset + i
    BY <2>2
  <2> HIDE DEF s, f
  <2>4. <<>> \in Seq(1 .. n) /\ Len(<<>>) = 0 /\ DOMAIN <<>> = {}
    BY EmptySeq
  <2>5. f \in Arrays(n) /\ f.items = s /\ f.columns = <<>>
    BY <2>1, <2>3, <2>4 DEF Arrays
  <2>6. ItemsReturned(f) = end - offset
    BY <2>2, <2>3, <2>4, <2>5 DEF ItemsReturned
  <2>7. ToSet(f.columns) = {}
    BY <2>4, <2>5 DEF ToSet
  <2>8. ToSet(f.items) = (offset + 1) .. end
    <3>1. ToSet(f.items) = {s[i] : i \in 1 .. (end - offset)}
      BY <2>3, <2>5 DEF ToSet
    <3>2. ASSUME NEW k \in (offset + 1) .. end PROVE k - offset \in 1 .. (end - offset) /\ s[k - offset] = k
      <4>1. k - offset \in 1 .. (end - offset) /\ offset + (k - offset) = k
        BY <2>2
      <4> QED
        BY <2>3, <4>1
    <3>3. \A i \in 1 .. (end - offset) : s[i] \in (offset + 1) .. end
      BY <2>2, <2>3
    <3> QED
      BY <3>1, <3>2, <3>3
  <2> QED
    BY <2>3, <2>5, <2>6, <2>7, <2>8 DEF FoundSound, f, end
<1> QED
  BY <1>1, <1>2

\* What holds of the page at an offset of n items, of which f were found for it.
PageSound(u, f, n, offset, p) ==
  /\ u \in Responses /\ offset + ItemsReturned(u) <= n
  /\ Items(u) <= Items(f) /\ Columns(u) <= Columns(f)
  /\ u.next = 0 \/ (u.next = offset + ItemsReturned(u) /\ ItemsReturned(u) > 0 /\ u.next < n)
  /\ p.budget > 0 => SerializedLen(u) <= p.budget \/ Emptied(u)
  /\ ItemsReturned(u) < p.limit /\ offset + ItemsReturned(u) < n => u.truncated
  /\ p.budget = 0 => ItemsReturned(u) = ItemsReturned(f) /\ (u.next = 0 => offset + ItemsReturned(u) = n)

LEMMA Paged ==
  ASSUME NEW n \in Nat, NEW sizes \in [1 .. n -> Nat], NEW columns, NEW offset \in 0 .. n, NEW p \in PageRequests
  PROVE  PageSound(Page(sizes, columns, offset, p), Found(n, columns, offset, p), n, offset, p)
<1> DEFINE f == Found(n, columns, offset, p)
           end == PageEnd(n, offset, p.limit)
           a == [i \in 1 .. Len(f.items) |-> sizes[f.items[i]]]
           b == [i \in 1 .. Len(f.columns) |-> sizes[f.columns[i]]]
           more == p.kind = "undocumented" /\ offset + ItemsReturned(f) < n
           v == [kind |-> p.kind, items |-> a, columns |-> b, count |-> ItemsReturned(f), total |-> n, truncated |-> more,
                 omitted |-> FALSE, meta |-> FALSE, next |-> 0]
           w == ApplyBudget(v, p.budget, p.includeMeta, p.cuts)
           next == offset + w.count
           with == [w EXCEPT !.next = next, !.meta = TRUE]
           u == Page(sizes, columns, offset, p)
<1>0. Len(sizes) = n
  OBVIOUS
<1>p. p.kind \in CollectionKinds /\ p.limit \in Nat /\ p.limit > 0 /\ p.budget \in Nat /\ p.includeMeta \in BOOLEAN /\ p.cuts \in CutPlans
  BY DEF PageRequests
<1>1. u = IF w.count > 0 /\ next < w.total /\ (p.budget = 0 \/ SerializedLen(with) <= p.budget) THEN with ELSE w
  BY <1>0 DEF Page, NextOffset
<1> HIDE DEF u
<1>2. end \in Nat /\ offset <= end /\ end <= n /\ (end - offset < p.limit => end = n)
  BY <1>p DEF PageEnd
<1>f. /\ f \in Arrays(n) /\ f.items \in Seq(1 .. n) /\ f.columns \in Seq(1 .. n) /\ Items(f) \in Nat /\ Columns(f) \in Nat
      /\ ItemsReturned(f) = end - offset /\ (p.kind # "undocumented" => f.columns = <<>>)
  <2>1. FoundSound(f, n, offset, p)
    BY FoundOnPage
  <2> HIDE DEF f
  <2>2. f \in Arrays(n)
    BY <2>1 DEF FoundSound
  <2> QED
    BY <2>1, <2>2, ArrayLengths DEF FoundSound
<1> HIDE DEF f, end
<1>3. a \in Seq(Nat) /\ Len(a) = Items(f) /\ b \in Seq(Nat) /\ Len(b) = Columns(f)
  <2>1. (\A i \in 1 .. Len(f.items) : f.items[i] \in 1 .. n) /\ (\A i \in 1 .. Len(f.columns) : f.columns[i] \in 1 .. n)
    BY <1>f, ElementOfSeq
  <2>2. Len(f.items) \in Nat /\ Len(f.columns) \in Nat
    BY <1>f DEF Items, Columns
  <2>3. a \in Seq(Nat) /\ Len(a) = Len(f.items)
    BY <2>1, <2>2
  <2>4. b \in Seq(Nat) /\ Len(b) = Len(f.columns)
    BY <2>1, <2>2
  <2> HIDE DEF a, b
  <2> QED
    BY <2>3, <2>4 DEF Items, Columns
<1> HIDE DEF a, b
<1>m. more \in BOOLEAN
  OBVIOUS
<1> HIDE DEF more
<1>4. Counted(v) /\ v.total = n /\ v.next = 0 /\ v.items = a /\ v.columns = b /\ ItemsReturned(v) = end - offset
  <2>1. /\ v \in Responses /\ v.items = a /\ v.columns = b /\ v.count = ItemsReturned(f) /\ v.total = n /\ v.next = 0
        /\ v.kind = p.kind
    BY <1>2, <1>3, <1>f, <1>p, <1>m DEF Responses
  <2> HIDE DEF v
  <2>2. ItemsReturned(v) = ItemsReturned(f) /\ Columns(v) = Columns(f)
    BY <1>3, <2>1 DEF ItemsReturned, Items, Columns
  <2>3. p.kind # "undocumented" => Columns(f) = 0
    BY <1>f, EmptySeq DEF Columns
  <2> QED
    BY <1>f, <2>1, <2>2, <2>3 DEF Counted
<1> HIDE DEF v
<1>5. /\ Counted(w) /\ w.total = n /\ w.next = 0 /\ Items(w) <= Items(f) /\ Columns(w) <= Columns(f)
      /\ ItemsReturned(w) < end - offset => w.truncated
      /\ p.budget = 0 \/ SerializedLen(w) <= p.budget \/ Emptied(w)
      /\ p.budget = 0 => ItemsReturned(w) = end - offset
  <2>1. Items(v) = Items(f) /\ Columns(v) = Columns(f)
    BY <1>3, <1>4 DEF Items, Columns
  <2>2. /\ Counted(w) /\ w.total = v.total /\ w.next = v.next /\ Items(w) <= Items(v) /\ Columns(w) <= Columns(v)
        /\ ItemsReturned(w) < ItemsReturned(v) => w.truncated
        /\ p.budget = 0 \/ SerializedLen(w) <= p.budget \/ Emptied(w)
        /\ p.budget = 0 => w = v
    BY <1>p, <1>4, Applied
  <2> HIDE DEF w
  <2> QED
    BY <1>4, <2>1, <2>2
<1> HIDE DEF w
<1>6. w \in Responses /\ w.count = ItemsReturned(w) /\ ItemsReturned(w) \in Nat /\ ItemsReturned(w) <= end - offset
  <2>1. w \in Responses /\ w.count = ItemsReturned(w)
    BY <1>5 DEF Counted
  <2>2. ItemsReturned(f) = Items(f) + Columns(f)
    BY <1>f, ArrayLengths
  <2>3. ItemsReturned(w) = Items(w) + Columns(w) /\ Items(w) \in Nat /\ Columns(w) \in Nat
    BY <2>1, Lengths
  <2> QED
    BY <1>5, <1>f, <2>1, <2>2, <2>3
<1>7. with \in Responses /\ with.items = w.items /\ with.columns = w.columns /\ with.next = next /\ with.truncated = w.truncated
  <2>1. next \in Nat
    BY <1>6
  <2> HIDE DEF next
  <2> QED
    BY <1>6, <2>1 DEF Responses
<1> HIDE DEF with
<1>8. offset + ItemsReturned(w) <= n
  BY <1>2, <1>6
<1>9. ItemsReturned(w) < p.limit /\ offset + ItemsReturned(w) < n => w.truncated
  BY <1>2, <1>5, <1>6, <1>p
<1>w. p.budget = 0 => ItemsReturned(w) = ItemsReturned(f)
  BY <1>5, <1>f
<1>10. CASE w.count > 0 /\ next < w.total /\ (p.budget = 0 \/ SerializedLen(with) <= p.budget)
  <2>1. u = with
    BY <1>1, <1>10
  <2>2. u.items = w.items /\ u.columns = w.columns /\ u.truncated = w.truncated /\ u \in Responses
    BY <1>7, <2>1
  <2>3. ItemsReturned(u) = ItemsReturned(w) /\ Items(u) = Items(w) /\ Columns(u) = Columns(w)
    BY <2>2 DEF ItemsReturned, Items, Columns
  <2>4. u.next = offset + ItemsReturned(w) /\ ItemsReturned(w) > 0 /\ u.next < n
    BY <1>5, <1>6, <1>7, <1>10, <2>1
  <2>5. p.budget > 0 => SerializedLen(u) <= p.budget
    BY <1>p, <1>10, <2>1
  <2>6. u.next # 0
    BY <1>6, <2>4
  <2> QED
    BY <1>5, <1>8, <1>9, <1>w, <2>2, <2>3, <2>4, <2>5, <2>6 DEF PageSound, u, f
<1>11. CASE ~(w.count > 0 /\ next < w.total /\ (p.budget = 0 \/ SerializedLen(with) <= p.budget))
  <2>1. u = w
    BY <1>1, <1>11
  <2>2. p.budget > 0 => SerializedLen(u) <= p.budget \/ Emptied(u)
    BY <1>p, <1>5, <2>1
  <2>3. p.budget = 0 => offset + ItemsReturned(w) = n
    <3>1. SUFFICES ASSUME p.budget = 0 PROVE offset + ItemsReturned(w) = n
      OBVIOUS
    <3>2. ItemsReturned(w) = end - offset
      BY <1>5, <3>1
    <3>3. ItemsReturned(w) = 0 \/ offset + ItemsReturned(w) >= n
      BY <1>5, <1>6, <1>11, <3>1
    <3> QED
      BY <1>2, <1>8, <1>p, <3>2, <3>3
  <2> QED
    BY <1>5, <1>6, <1>8, <1>9, <1>w, <2>1, <2>2, <2>3 DEF PageSound, u, f
<1> QED
  BY <1>10, <1>11

LEMMA BudgetHolds ==
  ASSUME NEW n \in Nat, NEW sizes \in [1 .. n -> Nat], NEW columns, NEW p \in PageRequests
  PROVE  WithinBudget(sizes, columns, p)
<1>1. Len(sizes) = n
  OBVIOUS
<1>2. \A offset \in 0 .. n : PageSound(Page(sizes, columns, offset, p), Found(n, columns, offset, p), n, offset, p)
  BY Paged
<1> QED
  BY <1>1, <1>2 DEF WithinBudget, PageSound, Emptied

-----------------------------------------------------------------------------
(* A client that follows the offsets.                                      *)

Clients(n) == [at : 0 .. n, seen : Seq(1 .. n), whole : BOOLEAN, done : BOOLEAN]
NewClient == [at |-> 0, seen |-> <<>>, whole |-> TRUE, done |-> FALSE]
NextPage(sizes, columns, p, client) ==
  LET onPage == Found(Len(sizes), columns, client.at, p)
      v == Page(sizes, columns, client.at, p)
  IN  IF client.done THEN client
      ELSE [at |-> IF v.next = 0 THEN client.at ELSE v.next,
            seen |-> client.seen \o Shown(onPage, v),
            whole |-> client.whole /\ ItemsReturned(v) = ItemsReturned(onPage),
            done |-> v.next = 0]

\* With k pages the client has seen as many items as its offset says, the ones up
\* to it if its pages were whole, and has gone on by one item a page at least;
\* without a budget it is done when it has them all.
ClientSound(n, p, k, c) ==
  /\ c \in Clients(n)
  /\ p.kind # "undocumented" => \A i \in DOMAIN c.seen : c.seen[i] = i
  /\ c.whole => ToSet(c.seen) = 1 .. Len(c.seen)
  /\ ~c.done => c.at >= k /\ Len(c.seen) = c.at
  /\ p.budget = 0 => c.whole /\ (c.done => Len(c.seen) = n)

LEMMA ToSetConcat ==
  ASSUME NEW S, NEW s \in Seq(S), NEW t \in Seq(S)
  PROVE  ToSet(s \o t) = ToSet(s) \cup ToSet(t)
<1> DEFINE c == s \o t
<1>1. /\ c \in Seq(S) /\ Len(c) = Len(s) + Len(t)
      /\ \A i \in 1 .. Len(s) + Len(t) : c[i] = IF i <= Len(s) THEN s[i] ELSE t[i - Len(s)]
  BY ConcatProperties
<1> HIDE DEF c
<1>2. /\ Len(s) \in Nat /\ Len(t) \in Nat /\ DOMAIN s = 1 .. Len(s) /\ DOMAIN t = 1 .. Len(t)
      /\ DOMAIN c = 1 .. (Len(s) + Len(t))
  BY <1>1, LenProperties
<1>3. ASSUME NEW y \in ToSet(c) PROVE y \in ToSet(s) \cup ToSet(t)
  <2>1. PICK i \in 1 .. (Len(s) + Len(t)) : y = c[i]
    BY <1>2 DEF ToSet
  <2>2. CASE i <= Len(s)
    <3>1. i \in DOMAIN s /\ y = s[i]
      BY <1>1, <1>2, <2>1, <2>2
    <3> QED
      BY <3>1 DEF ToSet
  <2>3. CASE ~(i <= Len(s))
    <3>1. i - Len(s) \in DOMAIN t /\ y = t[i - Len(s)]
      BY <1>1, <1>2, <2>1, <2>3
    <3> QED
      BY <3>1 DEF ToSet
  <2> QED
    BY <2>2, <2>3
<1>4. ASSUME NEW y \in ToSet(s) PROVE y \in ToSet(c)
  <2>1. PICK i \in 1 .. Len(s) : y = s[i]
    BY <1>2 DEF ToSet
  <2>2. i \in DOMAIN c /\ c[i] = y
    BY <1>1, <1>2, <2>1
  <2> QED
    BY <2>2 DEF ToSet
<1>5. ASSUME NEW y \in ToSet(t) PROVE y \in ToSet(c)
  <2>1. PICK i \in 1 .. Len(t) : y = t[i]
    BY <1>2 DEF ToSet
  <2>2. i + Len(s) \in 1 .. (Len(s) + Len(t)) /\ ~(i + Len(s) <= Len(s)) /\ (i + Len(s)) - Len(s) = i
    BY <1>2
  <2>3. i + Len(s) \in DOMAIN c /\ c[i + Len(s)] = y
    BY <1>1, <1>2, <2>1, <2>2
  <2> QED
    BY <2>3 DEF ToSet
<1>6. ToSet(c) = ToSet(s) \cup ToSet(t)
  BY <1>3, <1>4, <1>5
<1> QED
  BY <1>6 DEF c

\* The places a page shows are the front of those found for it, and all of them
\* when it comes whole.
LEMMA ShownOnPage ==
  ASSUME NEW n \in Nat, NEW offset \in 0 .. n, NEW p \in PageRequests, NEW f, FoundSound(f, n, offset, p),
         NEW v, PageSound(v, f, n, offset, p)
  PROVE  /\ Shown(f, v) \in Seq(1 .. n) /\ Len(Shown(f, v)) = ItemsReturned(v)
         /\ p.kind # "undocumented" => \A i \in 1 .. ItemsReturned(v) : Shown(f, v)[i] = offset + i
         /\ ItemsReturned(v) = ItemsReturned(f) => ToSet(Shown(f, v)) = (offset + 1) .. (offset + ItemsReturned(v))
<1> DEFINE a == SubSeq(f.items, 1, Items(v))
           b == SubSeq(f.columns, 1, Columns(v))
<1>0. /\ f.items \in Seq(1 .. n) /\ f.columns \in Seq(1 .. n) /\ Items(f) \in Nat /\ Columns(f) \in Nat
      /\ ItemsReturned(f) = Items(f) + Columns(f)
  BY ArrayLengths DEF FoundSound
<1>1. /\ Items(v) \in Nat /\ Columns(v) \in Nat /\ ItemsReturned(v) = Items(v) + Columns(v)
      /\ Items(v) <= Items(f) /\ Columns(v) <= Columns(f)
  BY Lengths DEF PageSound
<1>2. /\ a \in Seq(1 .. n) /\ Len(a) = Items(v) /\ \A i \in 1 .. Items(v) : a[i] = f.items[i]
  <2>1. \A i \in 1 .. Items(v) : f.items[i] \in 1 .. n
    BY <1>0, <1>1, ElementOfSeq DEF Items, Columns
  <2> QED
    BY <1>1, <2>1, SubSeqProperties
<1>3. b \in Seq(1 .. n) /\ Len(b) = Columns(v)
  <2>1. \A i \in 1 .. Columns(v) : f.columns[i] \in 1 .. n
    BY <1>0, <1>1, ElementOfSeq DEF Items, Columns
  <2> QED
    BY <1>1, <2>1, SubSeqProperties
<1>4. Shown(f, v) = a \o b
  BY DEF Shown, Items, Columns
<1>5. ItemsReturned(v) = ItemsReturned(f) => a = f.items /\ b = f.columns
  <2>1. ItemsReturned(v) = ItemsReturned(f) => Items(v) = Items(f) /\ Columns(v) = Columns(f)
    BY <1>0, <1>1
  <2> QED
    BY <1>0, <2>1, SubSeqFull DEF Items, Columns
<1> HIDE DEF a, b
<1>6. /\ a \o b \in Seq(1 .. n) /\ Len(a \o b) = Len(a) + Len(b)
      /\ \A i \in 1 .. Len(a) + Len(b) : (a \o b)[i] = IF i <= Len(a) THEN a[i] ELSE b[i - Len(a)]
  BY <1>2, <1>3, ConcatProperties
<1>7. ToSet(a \o b) = ToSet(a) \cup ToSet(b)
  BY <1>2, <1>3, ToSetConcat
<1>8. p.kind # "undocumented" => \A i \in 1 .. ItemsReturned(v) : Shown(f, v)[i] = offset + i
  <2> SUFFICES ASSUME p.kind # "undocumented", NEW i \in 1 .. ItemsReturned(v) PROVE Shown(f, v)[i] = offset + i
    OBVIOUS
  <2>1. f.columns = <<>> /\ Len(<<>>) = 0 /\ \A j \in 1 .. Items(f) : f.items[j] = offset + j
    BY EmptySeq DEF FoundSound, Items
  <2>2. Columns(v) = 0 /\ i \in 1 .. Items(v) /\ i \in 1 .. Items(f)
    <3>1. Columns(f) = 0
      BY <2>1 DEF Columns
    <3> QED
      BY <1>1, <1>0, <3>1
  <2>3. (a \o b)[i] = a[i]
    BY <1>1, <1>2, <1>3, <1>6, <2>2
  <2> QED
    BY <1>2, <1>4, <2>1, <2>2, <2>3
<1>9. ItemsReturned(v) = ItemsReturned(f) => ToSet(Shown(f, v)) = (offset + 1) .. (offset + ItemsReturned(v))
  <2> SUFFICES ASSUME ItemsReturned(v) = ItemsReturned(f)
               PROVE  ToSet(Shown(f, v)) = (offset + 1) .. (offset + ItemsReturned(v))
    OBVIOUS
  <2>1. ToSet(Shown(f, v)) = ToSet(f.items) \cup ToSet(f.columns)
    BY <1>4, <1>5, <1>7
  <2>2. /\ ToSet(f.items) \cup ToSet(f.columns) = (offset + 1) .. PageEnd(n, offset, p.limit)
        /\ ItemsReturned(f) = PageEnd(n, offset, p.limit) - offset
    BY DEF FoundSound
  <2>3. PageEnd(n, offset, p.limit) = offset + ItemsReturned(v)
    BY <2>2 DEF PageEnd, PageRequests
  <2> QED
    BY <2>1, <2>2, <2>3
<1> QED
  BY <1>1, <1>2, <1>3, <1>4, <1>6, <1>8, <1>9

LEMMA PageTaken ==
  ASSUME NEW n \in Nat, NEW sizes \in [1 .. n -> Nat], NEW columns, NEW p \in PageRequests, NEW c \in Clients(n)
  PROVE  /\ NextPage(sizes, columns, p, c) \in Clients(n)
         /\ \A k \in Nat : ClientSound(n, p, k, c) => ClientSound(n, p, k + 1, NextPage(sizes, columns, p, c))
<1> DEFINE f == Found(n, columns, c.at, p)
           v == Page(sizes, columns, c.at, p)
           m == ItemsReturned(v)
           more == Shown(f, v)
           seen == c.seen \o more
           next == v.next
           whole == c.whole /\ m = ItemsReturned(f)
           d == [at |-> IF next = 0 THEN c.at ELSE next, seen |-> seen, whole |-> whole, done |-> next = 0]
<1>0. c.at \in 0 .. n /\ c.seen \in Seq(1 .. n) /\ c.whole \in BOOLEAN /\ c.done \in BOOLEAN /\ Len(c.seen) \in Nat
  <2>1. c.at \in 0 .. n /\ c.seen \in Seq(1 .. n) /\ c.whole \in BOOLEAN /\ c.done \in BOOLEAN
    BY DEF Clients
  <2> QED
    BY <2>1, LenProperties
<1>s. Len(sizes) = n
  OBVIOUS
<1>1. NextPage(sizes, columns, p, c) = IF c.done THEN c ELSE d
  BY <1>s DEF NextPage
<1>2. FoundSound(f, n, c.at, p) /\ PageSound(v, f, n, c.at, p)
  BY <1>0, FoundOnPage, Paged
<1> HIDE DEF f, v
<1>3. /\ c.at + m <= n /\ (next = 0 \/ (next = c.at + m /\ m > 0)) /\ m \in Nat
      /\ (p.budget = 0 => m = ItemsReturned(f) /\ (next = 0 => c.at + m = n))
  BY <1>2, Lengths DEF PageSound
<1>4. /\ more \in Seq(1 .. n) /\ Len(more) = m
      /\ p.kind # "undocumented" => \A i \in 1 .. m : more[i] = c.at + i
      /\ m = ItemsReturned(f) => ToSet(more) = (c.at + 1) .. (c.at + m)
  BY <1>0, <1>2, ShownOnPage
<1>w. whole \in BOOLEAN /\ (whole <=> c.whole /\ m = ItemsReturned(f))
  BY <1>0
<1> HIDE DEF m, more, next, whole
<1>6. /\ seen \in Seq(1 .. n) /\ Len(seen) = Len(c.seen) + m /\ ToSet(seen) = ToSet(c.seen) \cup ToSet(more)
      /\ \A i \in 1 .. Len(c.seen) + m : seen[i] = IF i <= Len(c.seen) THEN c.seen[i] ELSE more[i - Len(c.seen)]
  <2>1. c.seen \in Seq(1 .. n) /\ more \in Seq(1 .. n) /\ Len(more) = m
    BY <1>0, <1>4
  <2>2. ToSet(seen) = ToSet(c.seen) \cup ToSet(more)
    BY <2>1, ToSetConcat
  <2>3. /\ seen \in Seq(1 .. n) /\ Len(seen) = Len(c.seen) + Len(more)
        /\ \A i \in 1 .. Len(c.seen) + Len(more) : seen[i] = IF i <= Len(c.seen) THEN c.seen[i] ELSE more[i - Len(c.seen)]
    BY <2>1, ConcatProperties
  <2> HIDE DEF seen
  <2> QED
    BY <2>1, <2>2, <2>3
<1> HIDE DEF seen
<1>7. /\ d \in Clients(n) /\ d.at = (IF next = 0 THEN c.at ELSE next) /\ d.seen = seen /\ d.whole = whole
      /\ d.done = (next = 0)
  <2>1. (IF next = 0 THEN c.at ELSE next) \in 0 .. n
    BY <1>0, <1>3
  <2> QED
    BY <1>6, <1>w, <2>1 DEF Clients
<1> HIDE DEF d
<1>8. NextPage(sizes, columns, p, c) \in Clients(n)
  BY <1>1, <1>7
<1>9. ASSUME NEW k \in Nat, ClientSound(n, p, k, c) PROVE ClientSound(n, p, k + 1, NextPage(sizes, columns, p, c))
  <2>1. CASE c.done
    BY <1>1, <1>9, <2>1 DEF ClientSound
  <2>2. CASE ~c.done
    <3>1. c.at >= k /\ Len(c.seen) = c.at /\ DOMAIN c.seen = 1 .. Len(c.seen) /\ DOMAIN seen = 1 .. (c.at + m)
      BY <1>0, <1>6, <1>9, <2>2, LenProperties DEF ClientSound
    <3>3. ASSUME p.kind # "undocumented", NEW i \in 1 .. (c.at + m) PROVE seen[i] = i
      <4>0. \A j \in 1 .. Len(c.seen) : c.seen[j] = j
        BY <1>9, <3>1, <3>3 DEF ClientSound
      <4>1. CASE i <= Len(c.seen)
        <5>1. i \in 1 .. Len(c.seen) /\ seen[i] = c.seen[i]
          BY <1>0, <1>3, <1>6, <3>1, <4>1
        <5> QED
          BY <4>0, <5>1
      <4>2. CASE ~(i <= Len(c.seen))
        <5>1. i - Len(c.seen) \in 1 .. m
          BY <1>0, <1>3, <3>1, <4>2
        <5>2. seen[i] = more[i - Len(c.seen)]
          BY <1>6, <3>1, <4>2
        <5>3. more[i - Len(c.seen)] = c.at + (i - Len(c.seen))
          BY <1>4, <3>3, <5>1
        <5> QED
          BY <1>0, <3>1, <5>2, <5>3
      <4> QED
        BY <4>1, <4>2
    <3>4. p.kind # "undocumented" => \A i \in DOMAIN d.seen : d.seen[i] = i
      BY <1>7, <3>1, <3>3
    <3>5. ~d.done => d.at >= k + 1 /\ Len(d.seen) = d.at
      <4>1. ~d.done => next # 0
        BY <1>7
      <4>2. next # 0 => next = c.at + m /\ m > 0 /\ d.at = next
        BY <1>3, <1>7
      <4>3. Len(d.seen) = c.at + m
        BY <1>6, <1>7, <3>1
      <4>4. m > 0 => c.at + m >= k + 1
        BY <1>0, <1>3, <3>1
      <4> QED
        BY <4>1, <4>2, <4>3, <4>4
    <3>6. p.budget = 0 => d.whole /\ (d.done => Len(d.seen) = n)
      <4> SUFFICES ASSUME p.budget = 0 PROVE d.whole /\ (d.done => Len(d.seen) = n)
        OBVIOUS
      <4>1. c.whole
        BY <1>9 DEF ClientSound
      <4> QED
        BY <1>3, <1>6, <1>7, <1>w, <3>1, <4>1
    <3>7. d.whole => ToSet(d.seen) = 1 .. Len(d.seen)
      <4> SUFFICES ASSUME whole PROVE ToSet(seen) = 1 .. Len(seen)
        BY <1>7
      <4>1. ToSet(c.seen) = 1 .. c.at /\ ToSet(more) = (c.at + 1) .. (c.at + m)
        BY <1>4, <1>9, <1>w, <3>1 DEF ClientSound
      <4>2. (1 .. c.at) \cup ((c.at + 1) .. (c.at + m)) = 1 .. (c.at + m)
        BY <1>0, <1>3
      <4> QED
        BY <1>6, <3>1, <4>1, <4>2
    <3>8. ClientSound(n, p, k + 1, d)
      BY <1>7, <3>4, <3>5, <3>6, <3>7 DEF ClientSound
    <3> QED
      BY <1>1, <2>2, <3>8
  <2> QED
    BY <1>0, <2>1, <2>2
<1> QED
  BY <1>8, <1>9

\* What Followed computes.
LEMMA FollowedAlong ==
  ASSUME NEW n \in Nat, NEW sizes \in [1 .. n -> Nat], NEW columns, NEW p \in PageRequests
  PROVE  \E F : /\ Followed(sizes, columns, p) = F[n + 1] /\ F[0] = NewClient
                /\ \A i \in 1 .. (n + 1) : F[i] = NextPage(sizes, columns, p, F[i - 1])
<1> DEFINE N == n + 1
           P(f) == f = [i \in 0 .. N |-> IF i = 0 THEN NewClient ELSE NextPage(sizes, columns, p, f[i - 1])]
           g == [i \in 1 .. N |-> [x \in Clients(n) |-> NextPage(sizes, columns, p, x)]]
           followed == CHOOSE f : P(f)
<1>0. Len(sizes) = n
  OBVIOUS
<1>1. Followed(sizes, columns, p) = followed[N]
  BY <1>0 DEF Followed, NextPage, NewClient
<1>2. NewClient \in Clients(n)
  BY EmptySeq DEF NewClient, Clients
<1>3. g \in [1 .. N -> [Clients(n) -> Clients(n)]] /\ N \in Nat
  BY PageTaken
<1>4. PICK F \in [0 .. N -> Clients(n)] : F[0] = NewClient /\ \A i \in 1 .. N : F[i] = g[i][F[i - 1]]
  <2> HIDE DEF g, P, followed, N
  <2>1. \E F : Iterates(F, Clients(n), NewClient, N, g)
    BY <1>2, <1>3, Recursion
  <2> QED
    BY <2>1 DEF Iterates
<1> HIDE DEF N
<1>5. \A i \in 1 .. N : F[i] = NextPage(sizes, columns, p, F[i - 1])
  <2>1. \A i \in 1 .. N : F[i - 1] \in Clients(n)
    BY <1>3, <1>4
  <2> QED
    BY <1>4, <2>1
<1>6. P(F)
  BY <1>4, <1>5
<1>7. P(followed)
  <2> HIDE DEF P
  <2> QED
    BY <1>6
<1>8. followed[0] = NewClient /\ \A i \in 1 .. N : followed[i] = NextPage(sizes, columns, p, followed[i - 1])
  <2> HIDE DEF followed
  <2> QED
    BY <1>3, <1>7
<1> HIDE DEF followed, P, g
<1> QED
  BY <1>1, <1>8 DEF N

LEMMA PagingHolds ==
  ASSUME NEW n \in Nat, NEW sizes \in [1 .. n -> Nat], NEW columns, NEW p \in PageRequests
  PROVE  PagingIsComplete(sizes, columns, p)
<1>1. Len(sizes) = n
  OBVIOUS
<1>2. PICK F : /\ Followed(sizes, columns, p) = F[n + 1] /\ F[0] = NewClient
               /\ \A i \in 1 .. (n + 1) : F[i] = NextPage(sizes, columns, p, F[i - 1])
  BY FollowedAlong
<1> DEFINE S == {k \in Nat : k <= n + 1 => ClientSound(n, p, k, F[k])}
<1>3. ClientSound(n, p, 0, F[0])
  <2>1. <<>> \in Seq(Nat) /\ Len(<<>>) = 0 /\ DOMAIN <<>> = {}
    BY EmptySeq
  <2> QED
    BY <1>2, <2>1 DEF ClientSound, NewClient, Clients, ToSet
<1>4. S \in SUBSET Nat /\ 0 \in S
  BY <1>3
<1>5. ASSUME NEW k \in S PROVE k + 1 \in S
  <2> SUFFICES ASSUME k + 1 <= n + 1 PROVE ClientSound(n, p, k + 1, F[k + 1])
    OBVIOUS
  <2>1. k \in Nat /\ k + 1 \in 1 .. (n + 1) /\ (k + 1) - 1 = k /\ ClientSound(n, p, k, F[k])
    OBVIOUS
  <2>2. F[k + 1] = NextPage(sizes, columns, p, F[k])
    BY <1>2, <2>1
  <2>3. F[k] \in Clients(n)
    BY <2>1 DEF ClientSound
  <2> HIDE DEF S
  <2> QED
    BY <2>1, <2>2, <2>3, PageTaken
<1> HIDE DEF S
<1>6. S = Nat
  BY <1>4, <1>5, SetInduction
<1>7. ClientSound(n, p, n + 1, Followed(sizes, columns, p))
  <2>1. n + 1 \in S /\ n + 1 <= n + 1
    BY <1>6
  <2>2. ClientSound(n, p, n + 1, F[n + 1])
    BY <2>1 DEF S
  <2> QED
    BY <1>2, <2>2
<1> DEFINE client == Followed(sizes, columns, p)
<1>8. /\ client.done
      /\ p.kind # "undocumented" => \A i \in DOMAIN client.seen : client.seen[i] = i
      /\ client.whole => ToSet(client.seen) = 1 .. Len(client.seen)
      /\ p.budget = 0 => client.whole /\ Len(client.seen) = n
  <2> HIDE DEF client
  <2>1. ClientSound(n, p, n + 1, client)
    BY <1>7 DEF client
  <2>2. client.done
    BY <2>1 DEF ClientSound, Clients
  <2> QED
    BY <2>1, <2>2 DEF ClientSound
<1>9. \A offset \in 0 .. n : PageSound(Page(sizes, columns, offset, p), Found(n, columns, offset, p), n, offset, p)
  BY Paged
<1>10. \A offset \in 0 .. n :
         LET v == Page(sizes, columns, offset, p)
         IN  ItemsReturned(v) < p.limit /\ offset + ItemsReturned(v) < n => v.truncated
  BY <1>9 DEF PageSound
<1> QED
  BY <1>1, <1>8, <1>10 DEF PagingIsComplete

-----------------------------------------------------------------------------
(* The inputs the runs take.                                               *)

InputsTaken == part \in Algorithms => input \in SUBSET Inputs(part)

LEMMA InputsKept == MCInit => InputsTaken
BY DEF MCInit, InputsTaken

LEMMA InputTaken == InputsTaken /\ [MCNext]_mcVars => InputsTaken'
<1> SUFFICES ASSUME InputsTaken, [MCNext]_mcVars, part' \in Algorithms PROVE input' \in SUBSET Inputs(part')
  BY DEF InputsTaken
<1>1. part' = part /\ part \in Algorithms
  BY DEF MCNext, mcVars
<1>2. input' = input \/ \E x \in Inputs(part) : input' = {x}
  BY DEF MCNext, mcVars, Take
<1>3. input \in SUBSET Inputs(part)
  BY <1>1 DEF InputsTaken
<1>4. input' \in SUBSET Inputs(part)
  BY <1>2, <1>3
<1> QED
  BY <1>1, <1>4

\* Statements before they are executed (rewrite_named_parameters of both clients,
\* validate_sql_statement_for_provider, preflight.rs), for statements of any
\* length over any characters: both clients see the same parameters unless a
\* statement uses Snowflake's own syntax, none is left or made up by the
\* replacement, a colon in a string is none. For queries of any shape: what is let
\* through writes nowhere outside of derived tables and subqueries, which the
\* check leaves alone, and nothing that only reads is refused. And a report is
\* ready exactly for a warehouse that can be used.
THEOREM SqlCorrect == MCSpec => []SqlSound
<1>1. ASSUME InputsTaken PROVE SqlSound
  <2>1. PlaceholdersAlike
    <3> SUFFICES ASSUME part = "placeholders", NEW s \in input PROVE PlaceholdersAgree(s)
      BY DEF PlaceholdersAlike
    <3>1. s \in Statements
      BY <1>1 DEF InputsTaken, Inputs, Algorithms
    <3>2. PICK n \in 0 .. MaxStatement : s \in [1 .. n -> Chars]
      BY <3>1 DEF Statements
    <3>3. n \in Nat
      BY PagesAssumption
    <3> QED
      BY <3>2, <3>3, PlaceholdersSound
  <2>2. OnlyReads
    <3> SUFFICES ASSUME part = "sql", NEW x \in input PROVE AllowedIsReadOnly(x.statements, x.provider)
      BY DEF OnlyReads
    <3>1. x \in Requested
      BY <1>1 DEF InputsTaken, Inputs, Algorithms
    <3> QED
      BY <3>1, AllowedReads
  <2>3. ReadyMeansUsable
    <3> SUFFICES ASSUME part = "preflight", NEW x \in input PROVE ReadyIsUsable(x)
      BY DEF ReadyMeansUsable
    <3>1. x \in Probes
      BY <1>1 DEF InputsTaken, Inputs, Algorithms
    <3> QED
      BY <3>1, ReadyUsable
  <2> QED
    BY <2>1, <2>2, <2>3 DEF SqlSound
<1> QED
  BY <1>1, InputsKept, InputTaken, PTL DEF MCSpec

\* Pages under a byte budget (apply_mcp_response_budget,
\* apply_mcp_next_offset_meta), for results of any length and items of any sizes,
\* any limit, budget and cuts: an answer keeps to its budget or has nothing left
\* to cut, one that leaves out items says so, and a client that follows
\* next_offset sees the items once, in their order, and comes to an end; of the two
\* arrays of get_undocumented it sees each item once if no page was cut, and comes
\* to an end in any case.
THEOREM AnswersCorrect == MCSpec => []AnswersFit
<1>1. ASSUME InputsTaken PROVE AnswersFit
  <2> SUFFICES ASSUME part = "pages", NEW x \in input 
               PROVE  WithinBudget(x.sizes, x.columns, x.p) /\ PagingIsComplete(x.sizes, x.columns, x.p)
    BY DEF AnswersFit, BudgetKept, PagesComplete
  <2>1. x \in Results
    BY <1>1 DEF InputsTaken, Inputs, Algorithms
  <2>2. PICK n \in 0 .. MaxItems : x.sizes \in [1 .. n -> ItemSizes]
    BY <2>1 DEF Results, Lists
  <2>3. n \in Nat /\ x.sizes \in [1 .. n -> Nat]
    <3>1. MaxItems \in Nat /\ ItemSizes \subseteq Nat
      BY PagesAssumption
    <3>2. n \in Nat
      BY <3>1
    <3> DEFINE sizes == x.sizes
    <3>3. sizes \in [1 .. n -> ItemSizes]
      BY <2>2
    <3> HIDE DEF sizes
    <3>4. sizes \in [1 .. n -> Nat]
      BY <3>1, <3>3
    <3> QED
      BY <3>2, <3>4 DEF sizes
  <2>4. x.p \in PageRequests
    <3>1. PICK kinds \in SUBSET CollectionKinds : x.p \in Asked(kinds)
      BY <2>1 DEF Results, CollectionKinds
    <3>2. Asked(kinds) \subseteq PageRequests
      BY PagesAssumption DEF Asked, PageRequests, CutPlans
    <3> QED
      BY <3>1, <3>2
  <2> QED
    BY <2>3, <2>4, BudgetHolds, PagingHolds
<1> QED
  BY <1>1, InputsKept, InputTaken, PTL DEF MCSpec

-----------------------------------------------------------------------------
(* The server as TLC runs it.                                              *)

\* The properties of the server under the specification of the runs, whose
\* behaviours are those of tool calls, of verification, of the trace, or of one
\* input of what is done to statements and answers.
THEOREM ServerCorrect ==
  MCSpec => [](CallsAccounted /\ IdentitySound /\ SqlSound /\ AnswersFit) /\ StartsInTime /\ TraceSound
<1>1. MCInit => ToolsInit /\ Identity!Init /\ Trace!Init
  BY DEF MCInit
<1>2. [MCNext]_mcVars => [ToolsNext]_allVars /\ [Identity!Next]_(Identity!vars) /\ [Trace!Next]_(Trace!vars)
  BY DEF MCNext, mcVars, identityVars, traceVars, Identity!vars, Trace!vars
<1>3. MCSpec => ToolsSpec /\ Identity!Spec /\ Trace!Spec
  BY <1>1, <1>2, PTL DEF MCSpec, ToolsSpec, Identity!Spec, Trace!Spec
<1> QED
  BY <1>3, CallsCorrect, InTime, IdentityCorrect, TraceCorrect, SqlCorrect, AnswersCorrect, PTL

=============================================================================
