---------------------------- MODULE ManifestSource ----------------------------
(***************************************************************************)
(* What resolving a remote manifest promises, without the cache: the       *)
(* producer publishes manifests one after the other; a resolution fails or *)
(* hands out one of those published so far, whole if the remote answers in *)
(* one piece.                                                              *)
(***************************************************************************)
EXTENDS Naturals

CONSTANTS Resolvers, MaxPub

VARIABLES
  published,  \* number of manifests published so far; the last is current
  served,     \* what each resolver was last handed, 0 for nothing
  whole       \* whether the remote answers in one piece

Init ==
  /\ published = 1
  /\ served = [p \in Resolvers |-> 0]
  /\ whole \in BOOLEAN

Publish ==
  /\ published < MaxPub
  /\ published' = published + 1
  /\ UNCHANGED <<served, whole>>

\* MaxPub + 1 stands for a copy put together from several manifests, or cut short.
Resolve(p) ==
  /\ \E c \in 1 .. published \cup (IF whole THEN {} ELSE {MaxPub + 1}) :
       served' = [served EXCEPT ![p] = c]
  /\ UNCHANGED <<published, whole>>

Fail(p) ==
  /\ served' = [served EXCEPT ![p] = 0]
  /\ UNCHANGED <<published, whole>>

Next == Publish \/ \E p \in Resolvers : Resolve(p) \/ Fail(p)

Spec == Init /\ [][Next]_<<published, served, whole>>
=============================================================================
