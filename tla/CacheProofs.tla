------------------------------ MODULE CacheProofs ------------------------------
(***************************************************************************)
(* Theorems about the caches: the entry of a remote manifest, which        *)
(* resolutions share without a lock, and the caches of embeddings, which   *)
(* builders share without one, for any number of either.                   *)
(***************************************************************************)
EXTENDS MCCache, FiniteSetTheorems, SequenceTheorems, TLAPS

-----------------------------------------------------------------------------
(* The entry of a manifest.                                                *)

\* A body is a sequence of at most Pieces publications.
LEMMA BodiesAreSequences == \A b : b \in Bodies <=> b \in Seq(0 .. MaxPub) /\ Len(b) <= Pieces
<1>1. ASSUME NEW b \in Bodies PROVE b \in Seq(0 .. MaxPub) /\ Len(b) <= Pieces
  <2>1. PICK n \in 0 .. Pieces : b \in [1 .. n -> 0 .. MaxPub]
    BY DEF Bodies
  <2> QED
    BY <2>1, CacheAssumption
<1>2. ASSUME NEW b \in Seq(0 .. MaxPub), Len(b) <= Pieces PROVE b \in Bodies
  <2>1. Len(b) \in 0 .. Pieces /\ b \in [1 .. Len(b) -> 0 .. MaxPub]
    BY <1>2, CacheAssumption
  <2> QED
    BY <2>1 DEF Bodies
<1> QED
  BY <1>1, <1>2

\* No body, an empty one, a whole download and a longer partial one are bodies.
LEMMA SomeBodies ==
  /\ <<>> \in Bodies /\ EmptyFile \in Bodies
  /\ \A c \in 1 .. MaxPub : Whole(c) \in Bodies /\ Whole(c) # <<>> /\ Whole(c)[1] = c
  /\ \A b \in Bodies, c \in 1 .. MaxPub : Len(b) < Pieces => Append(b, c) \in Bodies
<1>1. <<>> \in Bodies
  <2>1. <<>> \in Seq(0 .. MaxPub) /\ Len(<<>>) = 0
    OBVIOUS
  <2>2. 0 <= Pieces
    BY CacheAssumption
  <2> QED
    BY <2>1, <2>2, BodiesAreSequences, Zenon
<1>2. ASSUME NEW c \in 1 .. MaxPub PROVE Whole(c) \in Bodies /\ Whole(c) # <<>> /\ Whole(c)[1] = c
  <2>1. Whole(c) \in [1 .. Pieces -> 0 .. MaxPub] /\ Pieces \in 0 .. Pieces /\ 1 \in 1 .. Pieces
    BY CacheAssumption DEF Whole
  <2>2. Whole(c) \in Bodies
    BY <2>1 DEF Bodies
  <2>3. Whole(c)[1] = c
    BY <2>1 DEF Whole
  <2>4. Whole(c) # <<>>
    BY <2>1
  <2> QED
    BY <2>2, <2>3, <2>4
<1>3. ASSUME NEW b \in Bodies, NEW c \in 1 .. MaxPub, Len(b) < Pieces PROVE Append(b, c) \in Bodies
  <2>1. b \in Seq(0 .. MaxPub) /\ Len(b) \in Nat
    BY BodiesAreSequences
  <2>2. Append(b, c) \in Seq(0 .. MaxPub) /\ Len(Append(b, c)) = Len(b) + 1
    BY <2>1, AppendProperties
  <2>3. Len(Append(b, c)) <= Pieces
    BY <1>3, <2>1, <2>2, CacheAssumption
  <2> QED
    BY <2>2, <2>3, BodiesAreSequences, Zenon
<1>4. EmptyFile \in Bodies
  <2>1. EmptyFile \in Seq(0 .. MaxPub) /\ Len(EmptyFile) = 1
    BY CacheAssumption DEF EmptyFile
  <2>2. 1 <= Pieces
    BY CacheAssumption
  <2> QED
    BY <2>1, <2>2, BodiesAreSequences, Zenon
<1> QED
  BY <1>1, <1>2, <1>3, <1>4

\* The types are kept.
LEMMA TypeStep == TypeOK /\ [Next]_vars => TypeOK'
<1> SUFFICES ASSUME TypeOK, [Next]_vars PROVE TypeOK'
  OBVIOUS
<1>0. /\ NoMeta \in Meta /\ MaxPub \in Nat \ {0} /\ MaxAttempts \in Nat \ {0} /\ 0 \in 0 .. MaxPub
      /\ \A m \in Meta : [m EXCEPT !.fresh = FALSE] \in Meta /\ [m EXCEPT !.fresh = TRUE] \in Meta
  <2>1. MaxPub \in Nat \ {0} /\ MaxAttempts \in Nat \ {0} /\ 0 \in 0 .. MaxPub
    BY CacheAssumption
  <2>2. NoMeta \in Meta
    BY <2>1 DEF NoMeta, Meta
  <2>3. \A m \in Meta : [m EXCEPT !.fresh = FALSE] \in Meta /\ [m EXCEPT !.fresh = TRUE] \in Meta
    BY DEF Meta
  <2> QED
    BY <2>1, <2>2, <2>3
<1> USE DEF TypeOK, config, cache, local
<1>1. ASSUME NEW p \in Resolvers, NEW f \in Bodies, NEW c \in 0 .. MaxPub, End(p, f, c), body' \in Bodies, meta' \in Meta,
             UNCHANGED <<config, remote>>
      PROVE  TypeOK'
  BY <1>0, <1>1, SomeBodies DEF End, Goto
<1>2. ASSUME NEW p \in Resolvers, ReturnCached(p) PROVE TypeOK'
  BY <1>0, <1>1, <1>2 DEF ReturnCached
<1>3. ASSUME NEW p \in Resolvers, End(p, <<>>, 0), UNCHANGED <<config, remote, cache>> PROVE TypeOK'
  BY <1>0, <1>1, <1>3, SomeBodies
<1>4. CASE Publish
  BY <1>0, <1>4 DEF Publish
<1>5. CASE GrowOld
  BY <1>0, <1>5 DEF GrowOld
<1>6. ASSUME NEW p \in Resolvers, ReadCacheMeta(p) \/ GetStatus(p) \/ StartFetch(p) PROVE TypeOK'
  BY <1>6 DEF ReadCacheMeta, GetStatus, StartFetch, Goto
<1>7. ASSUME NEW p \in Resolvers, NotModified(p) PROVE TypeOK'
  <2>1. CASE body # <<>>
    <3>1. remote \in 0 .. MaxPub
      BY <1>0
    <3> QED
      BY <1>7, <2>1, <3>1 DEF NotModified, Goto
  <2>2. CASE body = <<>>
    BY <1>2, <1>7, <2>2 DEF NotModified
  <2> QED
    BY <2>1, <2>2
<1>8. ASSUME NEW p \in Resolvers, Answer(p) PROVE TypeOK'
  <2>1. Whole(remote) \in Bodies /\ remote \in 0 .. MaxPub
    BY <1>0, SomeBodies
  <2>2. resp' \in [Resolvers -> Bodies] /\ tag' \in [Resolvers -> 0 .. MaxPub]
    BY <1>0, <1>8, <2>1 DEF Answer
  <2> QED
    BY <1>8, <2>2 DEF Answer, Goto
<1>9. ASSUME NEW p \in Resolvers, FetchSdk(p) PROVE TypeOK'
  <2>1. copy[p].etag \in 0 .. MaxPub
    BY DEF Meta
  <2> QED
    BY <1>9, <2>1, SomeBodies DEF FetchSdk, Goto
<1>10. ASSUME NEW p \in Resolvers, ReadPiece(p) PROVE TypeOK'
  <2>1. Append(resp[p], remote) \in Bodies
    BY <1>10, SomeBodies DEF ReadPiece
  <2>2. resp' \in [Resolvers -> Bodies]
    BY <1>10, <2>1 DEF ReadPiece
  <2> QED
    BY <1>0, <1>10, <2>2 DEF ReadPiece
<1>11. ASSUME NEW p \in Resolvers, ReadEnd(p) \/ ReadTruncated(p) \/ WriteBody(p) PROVE TypeOK'
  BY <1>11 DEF ReadEnd, ReadTruncated, WriteBody, Goto
<1>18. ASSUME NEW p \in Resolvers, ReadNothing(p) PROVE TypeOK'
  <2>1. resp' \in [Resolvers -> Bodies]
    BY <1>18, SomeBodies DEF ReadNothing
  <2> QED
    BY <1>18, <2>1 DEF ReadNothing, Goto
<1>12. ASSUME NEW p \in Resolvers, WriteCacheMeta(p) PROVE TypeOK'
  <2>1. meta' \in Meta
    BY <1>12 DEF WriteCacheMeta, Meta
  <2> QED
    BY <1>0, <1>1, <1>12, <2>1 DEF WriteCacheMeta
<1>13. ASSUME NEW p \in Resolvers, TouchCacheMeta(p) PROVE TypeOK'
  BY <1>0, <1>1, <1>13 DEF TouchCacheMeta
<1>14. ASSUME NEW p \in Resolvers, SendFails(p) PROVE TypeOK'
  BY <1>0, <1>2, <1>14 DEF SendFails
<1>15. ASSUME NEW p \in Resolvers, StatusFails(p) \/ ReturnFresh(p) \/ FetchFails(p) PROVE TypeOK'
  BY <1>2, <1>15 DEF StatusFails, ReturnFresh, FetchFails
<1>16. ASSUME NEW p \in Resolvers, StatusGarbled(p) \/ ReadGarbled(p) \/ Crash(p) PROVE TypeOK'
  BY <1>3, <1>16 DEF StatusGarbled, ReadGarbled, Crash
<1>17. CASE UNCHANGED vars
  BY <1>17 DEF vars
<1> QED
  BY <1>4, <1>5, <1>6, <1>7, <1>8, <1>9, <1>10, <1>11, <1>12, <1>13, <1>14, <1>15, <1>16, <1>17, <1>18 DEF Next, Step, Trouble

\* What the cached and the received bodies are made of: publications up to n, and
\* of a single one if the remote answers in one piece.
MadeOf(b, n, onePiece) ==
  /\ \A i \in DOMAIN b : b[i] \in 0 .. n
  /\ onePiece => b = <<>> \/ \E c \in 1 .. n : b = Whole(c)

BodiesPublished ==
  /\ TypeOK
  /\ MadeOf(body, remote, kind # "dbfs")
  /\ \A p \in Resolvers : MadeOf(resp[p], remote, kind # "dbfs")

\* A body made of publications so far is made of publications so far later on.
LEMMA MadeOfMore ==
  ASSUME NEW b, NEW n \in Nat, NEW m \in Nat, n <= m, NEW w, MadeOf(b, n, w)
  PROVE  MadeOf(b, m, w)
<1>1. (\A i \in 0 .. n : i \in 0 .. m) /\ (\A i \in 1 .. n : i \in 1 .. m)
  OBVIOUS
<1> QED
  BY <1>1 DEF MadeOf

\* The empty body and a whole download are made of what was published.
LEMMA MadeOfSome == \A n \in 1 .. MaxPub, w \in BOOLEAN : MadeOf(<<>>, n, w) /\ MadeOf(Whole(n), n, w)
<1> SUFFICES ASSUME NEW n \in 1 .. MaxPub, NEW w \in BOOLEAN PROVE MadeOf(<<>>, n, w) /\ MadeOf(Whole(n), n, w)
  OBVIOUS
<1>1. n \in 1 .. n /\ n \in 0 .. n
  BY CacheAssumption
<1>2. \A i \in DOMAIN Whole(n) : Whole(n)[i] = n
  BY DEF Whole
<1> QED
  BY <1>1, <1>2 DEF MadeOf

\* Every write of the cache file takes its pieces from a response, and every
\* response its own from what the source has published.
LEMMA PublishedStep == BodiesPublished /\ [Next]_vars => BodiesPublished'
<1> SUFFICES ASSUME BodiesPublished, [Next]_vars PROVE BodiesPublished'
  OBVIOUS
<1>0. TypeOK /\ TypeOK' /\ remote \in 1 .. MaxPub /\ remote \in Nat /\ (kind # "dbfs") \in BOOLEAN
  BY TypeStep, CacheAssumption DEF BodiesPublished, TypeOK
<1>1. ASSUME UNCHANGED <<kind, remote, body, resp>> PROVE BodiesPublished'
  BY <1>0, <1>1 DEF BodiesPublished
<1>2. ASSUME NEW p \in Resolvers, NEW f, NEW c, End(p, f, c), UNCHANGED <<kind, remote, body>> PROVE BodiesPublished'
  <2>1. \A q \in Resolvers : resp'[q] = IF q = p THEN <<>> ELSE resp[q]
    BY <1>0, <1>2 DEF End, TypeOK
  <2> QED
    BY <1>0, <1>2, <2>1, MadeOfSome DEF BodiesPublished
<1>3. ASSUME NEW p \in Resolvers, ReturnCached(p) PROVE BodiesPublished'
  BY <1>2, <1>3 DEF ReturnCached, config, cache
<1>4. CASE Publish
  <2>1. remote' \in Nat /\ remote <= remote' /\ UNCHANGED <<kind, body, resp>>
    BY <1>0, <1>4 DEF Publish, config, cache, local
  <2> QED
    BY <1>0, <2>1, MadeOfMore DEF BodiesPublished
<1>5. CASE GrowOld
  BY <1>1, <1>5 DEF GrowOld, config
<1>6. ASSUME NEW p \in Resolvers,
             ReadCacheMeta(p) \/ GetStatus(p) \/ StartFetch(p) \/ ReadEnd(p) \/ ReadTruncated(p)
      PROVE  BodiesPublished'
  BY <1>1, <1>6 DEF ReadCacheMeta, GetStatus, StartFetch, ReadEnd, ReadTruncated, config, cache
<1>7. ASSUME NEW p \in Resolvers, NotModified(p) \/ SendFails(p) PROVE BodiesPublished'
  BY <1>1, <1>3, <1>7 DEF NotModified, SendFails, config, cache
<1>8. ASSUME NEW p \in Resolvers, Answer(p) \/ FetchSdk(p) PROVE BodiesPublished'
  <2>1. UNCHANGED <<kind, remote, body>> /\ resp' = [resp EXCEPT ![p] = Whole(remote)]
    BY <1>8 DEF Answer, FetchSdk, config, cache
  <2>2. \A q \in Resolvers : resp'[q] = IF q = p THEN Whole(remote) ELSE resp[q]
    BY <1>0, <2>1 DEF TypeOK
  <2> QED
    BY <1>0, <2>1, <2>2, MadeOfSome DEF BodiesPublished
<1>9. ASSUME NEW p \in Resolvers, ReadPiece(p) PROVE BodiesPublished'
  <2>1. UNCHANGED <<kind, remote, body>> /\ resp' = [resp EXCEPT ![p] = Append(resp[p], remote)] /\ kind = "dbfs"
    BY <1>9 DEF ReadPiece, config, cache
  <2>2. \A q \in Resolvers : resp'[q] = IF q = p THEN Append(resp[p], remote) ELSE resp[q]
    BY <1>0, <2>1 DEF TypeOK
  <2>3. MadeOf(Append(resp[p], remote), remote, kind # "dbfs")
    <3>1. resp[p] \in Seq(0 .. MaxPub) /\ Len(resp[p]) \in Nat /\ DOMAIN resp[p] = 1 .. Len(resp[p])
      BY <1>0, BodiesAreSequences DEF TypeOK
    <3>2. /\ DOMAIN Append(resp[p], remote) = 1 .. Len(resp[p]) + 1
          /\ \A i \in 1 .. Len(resp[p]) : Append(resp[p], remote)[i] = resp[p][i]
          /\ Append(resp[p], remote)[Len(resp[p]) + 1] = remote
      BY <1>0, <3>1, AppendProperties
    <3>3. \A i \in 1 .. Len(resp[p]) : resp[p][i] \in 0 .. remote
      BY <3>1 DEF BodiesPublished, MadeOf
    <3>4. remote \in 0 .. remote
      BY <1>0
    <3>5. \A i \in 1 .. Len(resp[p]) + 1 : i \in 1 .. Len(resp[p]) \/ i = Len(resp[p]) + 1
      BY <3>1
    <3>6. \A i \in DOMAIN Append(resp[p], remote) : Append(resp[p], remote)[i] \in 0 .. remote
      BY <3>2, <3>3, <3>4, <3>5
    <3> QED
      BY <2>1, <3>6 DEF MadeOf
  <2> QED
    BY <1>0, <2>1, <2>2, <2>3 DEF BodiesPublished
<1>16. ASSUME NEW p \in Resolvers, ReadNothing(p) PROVE BodiesPublished'
  <2>1. UNCHANGED <<kind, remote, body>> /\ resp' = [resp EXCEPT ![p] = EmptyFile] /\ kind = "dbfs"
    BY <1>16 DEF ReadNothing, config, cache
  <2>2. \A q \in Resolvers : resp'[q] = IF q = p THEN EmptyFile ELSE resp[q]
    BY <1>0, <2>1 DEF TypeOK
  <2>3. MadeOf(EmptyFile, remote, kind # "dbfs")
    BY <1>0, <2>1 DEF MadeOf, EmptyFile
  <2> QED
    BY <1>0, <2>1, <2>2, <2>3 DEF BodiesPublished
<1>10. ASSUME NEW p \in Resolvers, WriteBody(p) PROVE BodiesPublished'
  BY <1>0, <1>10 DEF WriteBody, BodiesPublished, config
<1>11. ASSUME NEW p \in Resolvers, WriteCacheMeta(p) \/ TouchCacheMeta(p) PROVE BodiesPublished'
  BY <1>2, <1>11 DEF WriteCacheMeta, TouchCacheMeta, config
<1>12. ASSUME NEW p \in Resolvers, StatusFails(p) \/ ReturnFresh(p) \/ FetchFails(p) PROVE BodiesPublished'
  BY <1>3, <1>12 DEF StatusFails, ReturnFresh, FetchFails
<1>13. ASSUME NEW p \in Resolvers, StatusGarbled(p) \/ ReadGarbled(p) \/ Crash(p) PROVE BodiesPublished'
  BY <1>2, <1>13 DEF StatusGarbled, ReadGarbled, Crash, config, cache
<1>14. CASE UNCHANGED vars
  BY <1>1, <1>14 DEF vars, config, cache, local
<1>15. active \subseteq Resolvers
  BY <1>0 DEF TypeOK
<1> QED
  BY <1>4, <1>5, <1>6, <1>7, <1>8, <1>9, <1>10, <1>11, <1>12, <1>13, <1>14, <1>15, <1>16 DEF Next, Step, Trouble

\* The initial state.
LEMMA CacheInitially == Init => BodiesPublished
<1> SUFFICES ASSUME Init PROVE BodiesPublished
  OBVIOUS
<1>0. MaxPub \in Nat \ {0} /\ MaxAttempts \in Nat \ {0} /\ 0 \in 0 .. MaxPub /\ 1 \in 1 .. MaxPub /\ 1 \in 1 .. MaxAttempts
  BY CacheAssumption
<1>1. NoMeta \in Meta
  BY <1>0 DEF NoMeta, Meta
<1>2. TypeOK
  BY <1>0, <1>1, SomeBodies DEF Init, TypeOK
<1>3. (kind # "dbfs") \in BOOLEAN
  OBVIOUS
<1>4. MadeOf(<<>>, 1, kind # "dbfs")
  BY <1>0, <1>3, MadeOfSome
<1> QED
  BY <1>2, <1>4 DEF Init, BodiesPublished

\* What a resolution returns is what ManifestSource hands out.
LEMMA EndIsResolve ==
  ASSUME BodiesPublished, NEW p \in Resolvers, NEW f \in Bodies, NEW c, End(p, f, c), MadeOf(f, remote, kind # "dbfs"),
         UNCHANGED <<kind, remote>>
  PROVE  Source!Next
<1>1. result \in [Resolvers -> Bodies] /\ remote \in 1 .. MaxPub
  BY DEF BodiesPublished, TypeOK
<1>2. \A q \in Resolvers : result'[q] = IF q = p THEN f ELSE result[q]
  BY <1>1 DEF End
<1>3. [q \in Resolvers |-> Publication(result[q])]'
        = [[q \in Resolvers |-> Publication(result[q])] EXCEPT ![p] = Publication(f)]
  BY <1>2
<1>4. CASE f = <<>>
  <2>1. Publication(f) = 0
    BY <1>4 DEF Publication
  <2>2. Source!Fail(p)
    BY <1>3, <2>1 DEF Source!Fail
  <2> QED
    BY <2>2 DEF Source!Next
<1>5. CASE f # <<>>
  <2>1. Publication(f) \in 1 .. remote \cup (IF kind # "dbfs" THEN {} ELSE {MaxPub + 1})
    <3>1. CASE f[1] # 0 /\ f = Whole(f[1])
      <4>1. 1 \in DOMAIN f
        BY <3>1, CacheAssumption DEF Whole
      <4>2. f[1] \in 1 .. remote
        BY <1>1, <3>1, <4>1, CacheAssumption DEF MadeOf
      <4> QED
        BY <1>5, <3>1, <4>2 DEF Publication
    <3>2. CASE ~(f[1] # 0 /\ f = Whole(f[1]))
      <4>1. kind = "dbfs"
        <5> SUFFICES ASSUME kind # "dbfs" PROVE FALSE
          OBVIOUS
        <5>1. PICK d \in 1 .. remote : f = Whole(d)
          BY <1>5 DEF MadeOf
        <5>2. d \in 1 .. MaxPub
          BY <1>1, CacheAssumption
        <5> QED
          BY <3>2, <5>1, <5>2, SomeBodies
      <4> QED
        BY <1>5, <3>2, <4>1 DEF Publication
    <3> QED
      BY <3>1, <3>2
  <2>2. Source!Resolve(p)
    BY <1>3, <2>1 DEF Source!Resolve
  <2> QED
    BY <2>2 DEF Source!Next
<1> QED
  BY <1>4, <1>5

\* The cache implements ManifestSource, for every number of resolvers,
\* publications, attempts and pieces: however resolutions that share the entry
\* overwrite each other, crash, retry and fall back, what one returns is nothing,
\* or a manifest published by then, whole unless it was read from DBFS in pieces.
THEOREM CacheImplementsSource == Spec => ImplementsSource
<1>1. Init => Source!Init
  <2> SUFFICES ASSUME Init PROVE Source!Init
    OBVIOUS
  <2>1. \A p \in Resolvers : Publication(result[p]) = 0
    BY DEF Init, Publication
  <2> QED
    BY <2>1 DEF Init, Source!Init
<1>2. BodiesPublished /\ [Next]_vars
        => [Source!Next]_<<remote, [p \in Resolvers |-> Publication(result[p])], kind # "dbfs">>
  <2> SUFFICES ASSUME BodiesPublished, Next
               PROVE  \/ Source!Next
                      \/ UNCHANGED <<remote, [p \in Resolvers |-> Publication(result[p])], kind # "dbfs">>
    BY DEF vars, config, local
  <2>0. TypeOK /\ active \subseteq Resolvers /\ body \in Bodies /\ <<>> \in Bodies /\ MadeOf(body, remote, kind # "dbfs")
        /\ MadeOf(<<>>, remote, kind # "dbfs")
    <3>1. TypeOK /\ (kind # "dbfs") \in BOOLEAN
      BY DEF BodiesPublished
    <3> QED
      BY <3>1, SomeBodies, MadeOfSome DEF BodiesPublished, TypeOK
  <2>1. CASE UNCHANGED <<kind, remote, result>>
    BY <2>1
  <2>2. CASE Publish
    BY <2>2 DEF Publish, config, local, Source!Publish, Source!Next
  <2>3. ASSUME NEW p \in Resolvers, ReturnCached(p) PROVE Source!Next
    BY <2>0, <2>3, EndIsResolve DEF ReturnCached, config
  <2>4. ASSUME NEW p \in Resolvers, End(p, <<>>, 0), UNCHANGED <<config, remote>> PROVE Source!Next
    BY <2>0, <2>4, EndIsResolve DEF config
  <2>5. ASSUME NEW p \in Resolvers, WriteCacheMeta(p) \/ TouchCacheMeta(p) PROVE Source!Next
    BY <2>0, <2>5, EndIsResolve DEF WriteCacheMeta, TouchCacheMeta, config
  <2>6. ASSUME NEW p \in Resolvers, Step(p), ~(WriteCacheMeta(p) \/ TouchCacheMeta(p))
        PROVE  UNCHANGED <<kind, remote, result>> \/ ReturnCached(p)
    BY <2>6 DEF Step, GetStatus, ReturnFresh, StartFetch, NotModified, Answer, FetchSdk, ReadPiece, ReadEnd, WriteBody, config
  <2>7. ASSUME NEW p \in Resolvers, Trouble(p)
        PROVE  \/ UNCHANGED <<kind, remote, result>> \/ ReturnCached(p)
               \/ End(p, <<>>, 0) /\ UNCHANGED <<config, remote>>
    BY <2>7 DEF Trouble, StatusFails, StatusGarbled, SendFails, FetchFails, ReadTruncated, ReadNothing, ReadGarbled, Crash, config
  <2>8. CASE GrowOld
    BY <2>1, <2>8 DEF GrowOld, config
  <2>9. ASSUME NEW p \in Resolvers, ReadCacheMeta(p) PROVE UNCHANGED <<kind, remote, result>>
    BY <2>9 DEF ReadCacheMeta, config
  <2> QED
    BY <2>0, <2>1, <2>2, <2>3, <2>4, <2>5, <2>6, <2>7, <2>8, <2>9 DEF Next
<1> QED
  BY <1>1, <1>2, CacheInitially, PublishedStep, PTL DEF Spec, ImplementsSource, Source!Spec

-----------------------------------------------------------------------------
(* What a 304 confirms.                                                    *)

\* No etag is of a manifest not published yet.
EtagsKnown ==
  /\ meta.etag <= remote
  /\ \A p \in Resolvers : copy[p].etag <= remote /\ tag[p] <= remote

\* Only http resolutions are confirmed.
OnlyHttpConfirms == kind # "http" => \A p \in Resolvers : confirmed[p] = 0 /\ pc[p] # "touch"

\* The entry as a lone resolution finds and leaves it: a body newer than its etag
\* (after a crash between the two renames) is possible, but then the etag is of an
\* older publication than the current one, which no 304 will be about.
LoneEntry(p) ==
  /\ meta.etag = remote => body = Whole(remote)
  /\ pc[p] # "idle" => copy[p].etag = meta.etag
  /\ pc[p] \in {"write", "meta"} =>
       \E x \in 1 .. remote : resp[p] = Whole(x) /\ meta.etag < x /\ tag[p] \in {0, x}
  /\ pc[p] = "meta" => body = resp[p]
  /\ pc[p] = "touch" => body = Whole(confirmed[p])
  /\ pc[p] = "idle" /\ confirmed[p] # 0 => result[p] = Whole(confirmed[p])

ConfirmInv ==
  /\ TypeOK /\ EtagsKnown /\ OnlyHttpConfirms
  /\ Alone /\ kind = "http" => \A p \in active : LoneEntry(p)

\* A resolver that is alone is the only one active.
LEMMA LoneIsOne == ASSUME TypeOK, Alone, NEW p \in active PROVE active = {p}
<1>1. IsFiniteSet(active)
  BY CacheAssumption, FS_Subset DEF TypeOK
<1>2. PICK x : active = {x}
  BY <1>1, FS_Singleton DEF Alone
<1> QED
  BY <1>2

\* A lone resolver of an HTTP source keeps the cache file and its metadata
\* together through every step, its own crashes included.
LEMMA ConfirmStep == ConfirmInv /\ [Next]_vars => ConfirmInv'
<1> SUFFICES ASSUME ConfirmInv, [Next]_vars PROVE ConfirmInv'
  OBVIOUS
<1>0. TypeOK /\ TypeOK' /\ EtagsKnown /\ OnlyHttpConfirms
  BY TypeStep DEF ConfirmInv
<1>a. /\ remote \in 1 .. MaxPub /\ remote \in Nat /\ meta.etag \in Nat
      /\ \A p \in Resolvers : copy[p] \in Meta /\ copy[p].etag \in Nat /\ tag[p] \in Nat
      /\ NoMeta.etag = 0
  BY <1>0, CacheAssumption DEF TypeOK, Meta, NoMeta
<1>b. ASSUME NEW p \in active, active' = active, kind' = kind, EtagsKnown', OnlyHttpConfirms',
             kind = "http" /\ LoneEntry(p) => LoneEntry(p)'
      PROVE  ConfirmInv'
  <2>1. Alone' = Alone
    BY <1>b DEF Alone
  <2>2. ASSUME Alone, kind = "http" PROVE \A q \in active : LoneEntry(q)'
    <3>1. active = {p} /\ LoneEntry(p)
      BY <1>0, <2>2, LoneIsOne DEF ConfirmInv
    <3> QED
      BY <1>b, <2>2, <3>1
  <2> QED
    BY <1>0, <1>b, <2>1, <2>2 DEF ConfirmInv
\* A resolution that ends, having written the metadata or not.
<1>c. ASSUME NEW p \in active, NEW f, End(p, f, 0), UNCHANGED <<config, remote, body>>,
             meta'.etag \in Nat, meta'.etag <= remote,
             kind = "http" /\ LoneEntry(p) => (meta'.etag = remote => body = Whole(remote))
      PROVE  ConfirmInv'
  <2>1. p \in Resolvers
    BY <1>0 DEF TypeOK
  <2>2. /\ pc'[p] = "idle" /\ confirmed'[p] = 0 /\ copy'[p] = NoMeta /\ tag'[p] = 0
        /\ \A q \in Resolvers \ {p} : pc'[q] = pc[q] /\ confirmed'[q] = confirmed[q] /\ copy'[q] = copy[q] /\ tag'[q] = tag[q]
    BY <1>0, <1>c, <2>1 DEF End, Goto, TypeOK
  <2>3. EtagsKnown'
    BY <1>0, <1>a, <1>c, <2>1, <2>2 DEF EtagsKnown
  <2>4. OnlyHttpConfirms'
    BY <1>0, <1>c, <2>2 DEF OnlyHttpConfirms, config
  <2>5. kind = "http" /\ LoneEntry(p) => LoneEntry(p)'
    BY <1>c, <2>2 DEF LoneEntry
  <2> QED
    BY <1>b, <1>c, <2>3, <2>4, <2>5 DEF config
<1>d. ASSUME NEW p \in active, ReturnCached(p) PROVE ConfirmInv'
  BY <1>0, <1>a, <1>c, <1>d DEF ReturnCached, cache, EtagsKnown, LoneEntry
<1>1. CASE Publish
  <2>1. /\ remote' = remote + 1
        /\ UNCHANGED <<kind, active, body, meta, pc, copy, resp, tag, confirmed, result>>
    BY <1>1 DEF Publish, config, cache, local
  <2>2. EtagsKnown' /\ OnlyHttpConfirms' /\ Alone' = Alone
    BY <1>0, <1>a, <2>1 DEF EtagsKnown, OnlyHttpConfirms, Alone
  <2>3. ASSUME NEW p \in active, LoneEntry(p) PROVE LoneEntry(p)'
    <3>1. meta.etag # remote'
      BY <1>0, <1>a, <2>1 DEF EtagsKnown
    <3>2. \A x \in 1 .. remote : x \in 1 .. remote'
      BY <1>a, <2>1
    <3> QED
      BY <2>1, <2>3, <3>1, <3>2 DEF LoneEntry
  <2> QED
    BY <1>0, <2>1, <2>2, <2>3 DEF ConfirmInv
<1>2. CASE GrowOld
  <2>1. UNCHANGED <<kind, active, remote, body, pc, resp, tag, confirmed, result>>
    BY <1>2 DEF GrowOld, config
  <2>2. meta'.etag = meta.etag /\ \A p \in Resolvers : copy'[p].etag = copy[p].etag
    BY <1>0, <1>2 DEF GrowOld, TypeOK, Meta
  <2>3. EtagsKnown' /\ OnlyHttpConfirms' /\ Alone' = Alone
    BY <1>0, <2>1, <2>2 DEF EtagsKnown, OnlyHttpConfirms, Alone
  <2>4. ASSUME NEW p \in active, LoneEntry(p) PROVE LoneEntry(p)'
    BY <1>0, <2>1, <2>2, <2>4 DEF LoneEntry, TypeOK
  <2> QED
    BY <1>0, <2>1, <2>3, <2>4 DEF ConfirmInv
<1>3. ASSUME NEW p \in active, ReadCacheMeta(p) PROVE ConfirmInv'
  <2> p \in Resolvers
    BY <1>0 DEF TypeOK
  <2>1. EtagsKnown' /\ OnlyHttpConfirms'
    BY <1>0, <1>3 DEF ReadCacheMeta, Goto, At, EtagsKnown, OnlyHttpConfirms, TypeOK, config, cache
  <2>2. LoneEntry(p) => LoneEntry(p)'
    BY <1>0, <1>3 DEF ReadCacheMeta, Goto, At, LoneEntry, TypeOK, config, cache
  <2> QED
    BY <1>3, <1>b, <2>1, <2>2 DEF ReadCacheMeta, config
<1>4. ASSUME NEW p \in active, GetStatus(p) \/ StartFetch(p) PROVE ConfirmInv'
  <2> p \in Resolvers
    BY <1>0 DEF TypeOK
  <2>1. EtagsKnown' /\ OnlyHttpConfirms'
    BY <1>0, <1>4 DEF GetStatus, StartFetch, Goto, At, EtagsKnown, OnlyHttpConfirms, TypeOK, config, cache
  <2>2. LoneEntry(p) => LoneEntry(p)'
    BY <1>0, <1>4 DEF GetStatus, StartFetch, Goto, At, LoneEntry, TypeOK, config, cache
  <2> QED
    BY <1>4, <1>b, <2>1, <2>2 DEF GetStatus, StartFetch, config
<1>5. ASSUME NEW p \in active, NotModified(p), body # <<>> PROVE ConfirmInv'
  <2> p \in Resolvers
    BY <1>0 DEF TypeOK
  <2>1. EtagsKnown' /\ OnlyHttpConfirms'
    BY <1>0, <1>5 DEF NotModified, Goto, At, EtagsKnown, OnlyHttpConfirms, TypeOK, config, cache
  <2>2. LoneEntry(p) => LoneEntry(p)'
    BY <1>0, <1>5 DEF NotModified, Goto, At, LoneEntry, TypeOK, config, cache
  <2> QED
    BY <1>5, <1>b, <2>1, <2>2 DEF NotModified, config
<1>6. ASSUME NEW p \in active, Answer(p) PROVE ConfirmInv'
  <2> p \in Resolvers
    BY <1>0 DEF TypeOK
  <2>1. EtagsKnown' /\ OnlyHttpConfirms'
    BY <1>0, <1>a, <1>6 DEF Answer, Goto, At, EtagsKnown, OnlyHttpConfirms, TypeOK, config, cache
  <2>2. LoneEntry(p) => LoneEntry(p)'
    <3> HAVE LoneEntry(p)
    <3>1. /\ pc'[p] = "write" /\ resp'[p] = Whole(remote) /\ tag'[p] \in {0, remote} /\ pc[p] = "ask"
          /\ copy[p].etag # remote /\ UNCHANGED <<remote, body, meta, copy, confirmed, result>>
      BY <1>0, <1>6 DEF Answer, Goto, At, TypeOK, config, cache
    <3>2. copy[p].etag = meta.etag /\ meta.etag < remote /\ remote \in 1 .. remote
      BY <1>0, <1>a, <3>1 DEF LoneEntry, EtagsKnown
    <3> QED
      BY <3>1, <3>2 DEF LoneEntry
  <2> QED
    BY <1>6, <1>b, <2>1, <2>2 DEF Answer, config
<1>7. ASSUME NEW p \in active, FetchSdk(p) \/ ReadPiece(p) \/ ReadEnd(p) \/ ReadTruncated(p) \/ ReadNothing(p) PROVE ConfirmInv'
  <2> p \in Resolvers
    BY <1>0 DEF TypeOK
  <2>1. kind # "http" /\ kind' = kind /\ active' = active
    BY <1>7 DEF FetchSdk, ReadPiece, ReadEnd, ReadTruncated, ReadNothing, config
  <2>2. /\ UNCHANGED <<remote, meta, copy, confirmed>>
        /\ tag'[p] \in {tag[p], copy[p].etag} /\ pc'[p] # "touch"
        /\ \A q \in Resolvers \ {p} : tag'[q] = tag[q] /\ pc'[q] = pc[q]
    <3>1. CASE FetchSdk(p)
      BY <1>0, <3>1 DEF FetchSdk, Goto, At, TypeOK, cache
    <3>2. CASE ReadPiece(p)
      BY <1>0, <3>2 DEF ReadPiece, At, TypeOK, cache
    <3>3. CASE ReadEnd(p) \/ ReadTruncated(p) \/ ReadNothing(p)
      BY <1>0, <3>3 DEF ReadEnd, ReadTruncated, ReadNothing, Goto, At, TypeOK, cache
    <3> QED
      BY <1>7, <3>1, <3>2, <3>3
  <2>3. EtagsKnown'
    BY <1>0, <2>2 DEF EtagsKnown
  <2>4. OnlyHttpConfirms'
    BY <1>0, <2>1, <2>2 DEF OnlyHttpConfirms
  <2> QED
    BY <1>b, <2>1, <2>3, <2>4
<1>8. ASSUME NEW p \in active, WriteBody(p) PROVE ConfirmInv'
  <2> p \in Resolvers
    BY <1>0 DEF TypeOK
  <2>1. EtagsKnown' /\ OnlyHttpConfirms'
    BY <1>0, <1>8 DEF WriteBody, Goto, At, EtagsKnown, OnlyHttpConfirms, TypeOK, config
  <2>2. LoneEntry(p) => LoneEntry(p)'
    <3> HAVE LoneEntry(p)
    <3>1. /\ pc[p] = "write" /\ pc'[p] = "meta" /\ body' = resp[p]
          /\ UNCHANGED <<remote, meta, copy, resp, tag, confirmed, result>>
      BY <1>0, <1>8 DEF WriteBody, Goto, At, TypeOK, config
    <3>2. meta.etag # remote
      BY <1>a, <3>1 DEF LoneEntry
    <3> QED
      BY <3>1, <3>2 DEF LoneEntry
  <2> QED
    BY <1>8, <1>b, <2>1, <2>2 DEF WriteBody, config
<1>9. ASSUME NEW p \in active, WriteCacheMeta(p) PROVE ConfirmInv'
  <2> p \in Resolvers
    BY <1>0 DEF TypeOK
  <2>1. End(p, body, 0) /\ UNCHANGED <<config, remote, body>> /\ meta'.etag = tag[p] /\ pc[p] = "meta"
    BY <1>9 DEF WriteCacheMeta, At
  <2>2. tag[p] \in Nat /\ tag[p] <= remote
    BY <1>0, <1>a DEF EtagsKnown
  <2>3. LoneEntry(p) => (tag[p] = remote => body = Whole(remote))
    BY <1>a, <2>1 DEF LoneEntry
  <2> QED
    BY <1>c, <2>1, <2>2, <2>3
<1>10. ASSUME NEW p \in active, TouchCacheMeta(p) PROVE ConfirmInv'
  <2> p \in Resolvers
    BY <1>0 DEF TypeOK
  <2>1. End(p, body, confirmed[p]) /\ UNCHANGED <<config, remote, body>> /\ meta'.etag = copy[p].etag /\ pc[p] = "touch"
    BY <1>a, <1>10 DEF TouchCacheMeta, At, Meta
  <2>2. /\ pc'[p] = "idle" /\ confirmed'[p] = confirmed[p] /\ result'[p] = body /\ copy'[p] = NoMeta /\ tag'[p] = 0
        /\ \A q \in Resolvers \ {p} : pc'[q] = pc[q] /\ confirmed'[q] = confirmed[q] /\ copy'[q] = copy[q] /\ tag'[q] = tag[q]
    BY <1>0, <2>1 DEF End, Goto, TypeOK
  <2>3. EtagsKnown' /\ OnlyHttpConfirms'
    BY <1>0, <1>a, <2>1, <2>2 DEF EtagsKnown, OnlyHttpConfirms, config
  <2>4. LoneEntry(p) => LoneEntry(p)'
    BY <2>1, <2>2 DEF LoneEntry
  <2> QED
    BY <1>b, <2>1, <2>3, <2>4 DEF config
<1>11. ASSUME NEW p \in active, SendFails(p), ~ReturnCached(p) PROVE ConfirmInv'
  <2> p \in Resolvers
    BY <1>0 DEF TypeOK
  <2>1. UNCHANGED <<config, remote, cache, pc, copy, resp, tag, confirmed, result>>
    BY <1>11 DEF SendFails
  <2> QED
    BY <1>0, <1>b, <2>1 DEF EtagsKnown, OnlyHttpConfirms, LoneEntry, config, cache
<1>12. ASSUME NEW p \in active, StatusGarbled(p) \/ ReadGarbled(p) \/ Crash(p) PROVE ConfirmInv'
  <2>1. End(p, <<>>, 0) /\ UNCHANGED <<config, remote, cache>>
    BY <1>12 DEF StatusGarbled, ReadGarbled, Crash
  <2> QED
    BY <1>0, <1>a, <1>c, <2>1 DEF cache, EtagsKnown, LoneEntry
<1>13. CASE UNCHANGED vars
  BY <1>0, <1>13 DEF vars, config, cache, local, ConfirmInv, EtagsKnown, OnlyHttpConfirms, LoneEntry, Alone
<1>14. ASSUME NEW p \in active, Step(p) PROVE ConfirmInv'
  BY <1>d, <1>4, <1>5, <1>6, <1>7, <1>8, <1>9, <1>10, <1>14 DEF Step, ReturnFresh, NotModified
<1>15. ASSUME NEW p \in active, Trouble(p) PROVE ConfirmInv'
  BY <1>d, <1>7, <1>11, <1>12, <1>15 DEF Trouble, StatusFails, FetchFails
<1> QED
  BY <1>1, <1>2, <1>3, <1>13, <1>14, <1>15 DEF Next

\* A resolution that alone uses the entry and is told 304 returns the very
\* manifest the 304 was about, whatever crashes left between the renames of body
\* and metadata.
THEOREM ConfirmedCorrect == Spec => []ConfirmedIsServed
<1>1. Init => ConfirmInv
  <2> SUFFICES ASSUME Init PROVE ConfirmInv
    OBVIOUS
  <2>1. TypeOK
    BY CacheInitially DEF BodiesPublished
  <2>2. EtagsKnown /\ OnlyHttpConfirms
    BY DEF Init, NoMeta, EtagsKnown, OnlyHttpConfirms
  <2>3. \A p \in active : LoneEntry(p)
    BY <2>1 DEF Init, NoMeta, LoneEntry, TypeOK
  <2> QED
    BY <2>1, <2>2, <2>3 DEF ConfirmInv
<1>2. ConfirmInv => ConfirmedIsServed
  BY DEF ConfirmInv, ConfirmedIsServed, OnlyHttpConfirms, LoneEntry, At, TypeOK
<1> QED
  BY <1>1, <1>2, ConfirmStep, PTL DEF Spec

-----------------------------------------------------------------------------
(* The caches of embeddings.                                               *)

Steps == {"idle", "load", "load_raw", "init", "batch", "save", "rename", "ready", "disabled", "failed"}
Made == [kind : {"cache"}, schema : Nat, model : Models, hash : DOMAIN Manifests,
         ids : {Manifests[h] : h \in DOMAIN Manifests}, quantized : BOOLEAN]
Builds == [pc : Steps, schema : Nat, model : Models, manifest : DOMAIN Manifests, policy : {"degrade", "rebuild"},
           quantize : BOOLEAN, left : SUBSET UNION {Manifests[h] : h \in DOMAIN Manifests},
           ids : SUBSET UNION {Manifests[h] : h \in DOMAIN Manifests}, held : {Embeddings!None} \cup OldFiles \cup Made]

\* The files: a compressed one was renamed from a complete build, a raw one is
\* from an earlier release.
FilesKept ==
  /\ compressed \in [Embeddings!Slots -> {Embeddings!None} \cup Made]
  /\ raw \in [Embeddings!Slots -> {Embeddings!None} \cup OldFiles]
  /\ \A s \in Embeddings!Slots :
       compressed[s] # Embeddings!None => /\ compressed[s].hash = s[1] /\ Slug(compressed[s].model) = s[2]
                                          /\ compressed[s].ids = Manifests[s[1]]

\* What a builder has at each step.
BuildKept(b) ==
  /\ build[b].pc \in {"save", "rename", "ready"} => build[b].ids = Manifests[build[b].manifest]
  /\ build[b].pc = "rename" => build[b].held = Embeddings!Made(b)
  /\ build[b].pc = "ready" => build[b].held.model = build[b].model /\ build[b].held.hash = build[b].manifest

\* The query model of a process is loaded under its lock, and only while there is
\* none.
ModelKept(b) ==
  /\ inits[b] <= 1
  /\ build[b].pc \in {"idle", "load", "load_raw", "init"} => inits[b] = 0
  /\ build[b].pc # "ready" => \A s \in Searches : query[<<b, s>>] = "idle"
  /\ \A s \in Searches :
       /\ query[<<b, s>>] \in {"locked", "loading"} => modelLock[b] = [kind |-> "held", by |-> s]
       /\ query[<<b, s>>] = "loading" => inits[b] = 0

EmbeddingTypes ==
  /\ build \in [Builders -> Builds]
  /\ query \in [Builders \X Searches -> {"idle", "lock", "locked", "loading"}]
  /\ modelLock \in [Builders -> {Embeddings!None} \cup [kind : {"held"}, by : Searches]]
  /\ inits \in [Builders -> Nat]

EmbeddingInv == EmbeddingTypes /\ FilesKept /\ \A b \in Builders : BuildKept(b) /\ ModelKept(b)

\* The files left by earlier versions and the processes not started are sound.
LEMMA EmbeddingsInitially == ASSUME Embeddings!CacheInit PROVE EmbeddingInv
<1>1. Embeddings!Idle \in Builds /\ Embeddings!Idle.pc = "idle"
  BY EmbeddingAssumption DEF Embeddings!Idle, Builds, Steps
<1>2. EmbeddingTypes
  BY <1>1 DEF Embeddings!CacheInit, EmbeddingTypes
<1>3. FilesKept
  BY DEF Embeddings!CacheInit, FilesKept
<1>4. ASSUME NEW b \in Builders PROVE BuildKept(b) /\ ModelKept(b)
  <2>1. build[b] = Embeddings!Idle /\ inits[b] = 0 /\ \A s \in Searches : query[<<b, s>>] = "idle"
    BY DEF Embeddings!CacheInit
  <2> QED
    BY <1>1, <2>1 DEF BuildKept, ModelKept
<1> QED
  BY <1>2, <1>3, <1>4 DEF EmbeddingInv

\* A file that passes the check has a vector for every entity: a part of a finite
\* set that is as large as the set is the set.
LEMMA ValidIsComplete ==
  ASSUME NEW b, build[b].manifest \in DOMAIN Manifests, NEW c, Embeddings!Valid(b, c), c.ids \subseteq Manifests[c.hash]
  PROVE  c.ids = Manifests[build[b].manifest] /\ c.model = build[b].model /\ c.hash = build[b].manifest
<1>1. /\ c.model = build[b].model /\ c.hash = build[b].manifest
      /\ Embeddings!Cardinality(c.ids) = Embeddings!Cardinality(Manifests[build[b].manifest])
  BY DEF Embeddings!Valid
<1>2. Cardinality(c.ids) = Cardinality(Manifests[build[b].manifest])
  BY <1>1, Zenon DEF Embeddings!Cardinality, Cardinality
<1>3. IsFiniteSet(Manifests[build[b].manifest])
  BY EmbeddingAssumption
<1> QED
  BY <1>1, <1>2, <1>3, FS_Subset

\* A step of builder b that leaves the other builders and their searches alone.
Only(b) ==
  /\ \A c \in Builders \ {b} : build'[c] = build[c] /\ inits'[c] = inits[c] /\ modelLock'[c] = modelLock[c]
  /\ \A c \in Builders \ {b}, s \in Searches : query'[<<c, s>>] = query[<<c, s>>]

\* A step of one process concerns the others through the files only.
LEMMA OthersKept ==
  ASSUME EmbeddingInv, NEW b \in Builders, Only(b), EmbeddingTypes', FilesKept', BuildKept(b)', ModelKept(b)'
  PROVE  EmbeddingInv'
<1>1. ASSUME NEW c \in Builders \ {b} PROVE BuildKept(c)'
  BY <1>1 DEF EmbeddingInv, Only, BuildKept, Embeddings!Made
<1>2. ASSUME NEW c \in Builders \ {b} PROVE ModelKept(c)'
  BY <1>2 DEF EmbeddingInv, Only, ModelKept
<1> QED
  BY <1>1, <1>2 DEF EmbeddingInv

\* A build writes, renames and loads only vectors of its own manifest and model.
LEMMA BuildStepKept == ASSUME EmbeddingInv, NEW b \in Builders, Embeddings!Start(b) \/ Embeddings!BuildStep(b) PROVE EmbeddingInv'
<1>0. /\ EmbeddingTypes /\ FilesKept /\ BuildKept(b) /\ ModelKept(b)
      /\ build[b] \in Builds /\ Embeddings!At(b) \in Embeddings!Slots
  BY DEF EmbeddingInv, EmbeddingTypes, Builds, Embeddings!At, Embeddings!Slots
<1>a. ASSUME NEW r \in Builds, Embeddings!Now(b, r), UNCHANGED Embeddings!queries, FilesKept',
             r.pc \in {"save", "rename", "ready"} => r.ids = Manifests[r.manifest],
             r.pc = "rename" => r.held = Embeddings!Content(r.schema, r.model, r.manifest, r.ids, r.quantize),
             r.pc = "ready" => r.held.model = r.model /\ r.held.hash = r.manifest,
             build[b].pc # "ready",
             r.pc \in {"idle", "load", "load_raw", "init"} => inits[b] = 0
      PROVE  EmbeddingInv'
  <2>1. build' = [build EXCEPT ![b] = r] /\ build'[b] = r /\ UNCHANGED <<query, modelLock, inits>>
    BY <1>0, <1>a DEF Embeddings!Now, Embeddings!queries, EmbeddingTypes
  <2>2. EmbeddingTypes' /\ Only(b)
    BY <1>0, <2>1 DEF EmbeddingTypes, Only
  <2>3. BuildKept(b)'
    BY <1>a, <2>1 DEF BuildKept, Embeddings!Made
  <2>4. ModelKept(b)'
    BY <1>0, <1>a, <2>1 DEF ModelKept
  <2> QED
    BY <1>a, <2>2, <2>3, <2>4, OthersKept
<1>b. ASSUME UNCHANGED Embeddings!files PROVE FilesKept'
  BY <1>0, <1>b DEF FilesKept, Embeddings!files
<1>1. CASE Embeddings!Start(b)
  <2>1. PICK c \in Configs :
          Embeddings!Now(b, [pc |-> IF c.force THEN "init" ELSE "load", schema |-> c.schema, model |-> c.model, manifest |-> c.manifest,
               policy |-> c.policy, quantize |-> c.quantize, left |-> Manifests[c.manifest], ids |-> {}, held |-> Embeddings!None])
    BY <1>1 DEF Embeddings!Start
  <2>2. c \in [schema : Nat, model : Models, manifest : DOMAIN Manifests, policy : {"degrade", "rebuild"}, force : BOOLEAN, quantize : BOOLEAN]
    BY EmbeddingAssumption
  <2> DEFINE r == [pc |-> IF c.force THEN "init" ELSE "load", schema |-> c.schema, model |-> c.model, manifest |-> c.manifest,
               policy |-> c.policy, quantize |-> c.quantize, left |-> Manifests[c.manifest], ids |-> {}, held |-> Embeddings!None]
  <2>3. r \in Builds /\ r.pc \in {"init", "load"}
    BY <2>2 DEF Builds, Steps
  <2>4. build[b].pc = "idle" /\ UNCHANGED Embeddings!files /\ UNCHANGED Embeddings!queries
    BY <1>1 DEF Embeddings!Start
  <2>5. inits[b] = 0
    BY <1>0, <2>4 DEF ModelKept
  <2>6. Embeddings!Now(b, r)
    BY <2>1
  <2> HIDE DEF r
  <2> QED
    BY <1>a, <1>b, <2>3, <2>4, <2>5, <2>6
<1>c. ASSUME NEW c, c.ids \subseteq Manifests[c.hash], c \in OldFiles \cup Made, Embeddings!Valid(b, c), Embeddings!Hit(b, c),
             build[b].pc \in {"load", "load_raw"}, UNCHANGED Embeddings!files, UNCHANGED Embeddings!queries
      PROVE  EmbeddingInv'
  <2>1. c.ids = Manifests[build[b].manifest] /\ c.model = build[b].model /\ c.hash = build[b].manifest
    BY <1>0, <1>c, ValidIsComplete DEF Builds
  <2> DEFINE r == [build[b] EXCEPT !.pc = "ready", !.ids = c.ids, !.held = c]
  <2>2. r \in Builds /\ r.pc = "ready" /\ r.ids = c.ids /\ r.held = c /\ r.manifest = build[b].manifest /\ r.model = build[b].model
    BY <1>0, <1>c, <2>1 DEF Builds, Steps
  <2>3. Embeddings!Now(b, r)
    BY <1>c DEF Embeddings!Hit
  <2> HIDE DEF r
  <2> QED
    BY <1>a, <1>b, <1>c, <2>1, <2>2, <2>3
<1>d. ASSUME NEW to \in Steps \ {"save", "rename", "ready"}, Embeddings!Step(b, to), build[b].pc # "ready", UNCHANGED Embeddings!files,
             UNCHANGED Embeddings!queries, to \in {"idle", "load", "load_raw", "init"} => inits[b] = 0
      PROVE  EmbeddingInv'
  <2> DEFINE r == [build[b] EXCEPT !.pc = to]
  <2>1. r \in Builds /\ r.pc = to
    BY <1>0, <1>d DEF Builds
  <2>2. Embeddings!Now(b, r)
    BY <1>d DEF Embeddings!Step
  <2> HIDE DEF r
  <2> QED
    BY <1>a, <1>b, <1>d, <2>1, <2>2
<1>2. CASE Embeddings!LoadCompressed(b)
  <2> DEFINE c == compressed[Embeddings!At(b)]
  <2>1. /\ build[b].pc = "load" /\ UNCHANGED Embeddings!files /\ UNCHANGED Embeddings!queries
        /\ IF Embeddings!Valid(b, c) THEN Embeddings!Hit(b, c) ELSE Embeddings!Step(b, "load_raw")
    BY <1>2 DEF Embeddings!LoadCompressed
  <2>2. CASE Embeddings!Valid(b, c)
    <3>1. c # Embeddings!None
      BY <2>2 DEF Embeddings!Valid, Embeddings!None
    <3>2. c \in Made /\ c.ids = Manifests[c.hash]
      BY <1>0, <3>1 DEF FilesKept
    <3> HIDE DEF c
    <3> QED
      BY <1>c, <2>1, <2>2, <3>2
  <2>3. CASE ~Embeddings!Valid(b, c)
    <3>1. inits[b] = 0
      BY <1>0, <2>1 DEF ModelKept
    <3> QED
      BY <1>d, <2>1, <2>3, <3>1 DEF Steps
  <2> QED
    BY <2>2, <2>3
<1>3. CASE Embeddings!LoadRaw(b)
  <2> DEFINE c == raw[Embeddings!At(b)]
  <2>1. /\ build[b].pc = "load_raw" /\ UNCHANGED Embeddings!files /\ UNCHANGED Embeddings!queries
        /\ IF Embeddings!Valid(b, c) THEN Embeddings!Hit(b, c) ELSE Embeddings!Step(b, Embeddings!Missed(b))
    BY <1>3 DEF Embeddings!LoadRaw
  <2>2. CASE Embeddings!Valid(b, c)
    <3>1. c # Embeddings!None
      BY <2>2 DEF Embeddings!Valid, Embeddings!None
    <3>2. c \in OldFiles
      BY <1>0, <3>1 DEF FilesKept
    <3>3. c.hash \in DOMAIN Manifests
      BY <1>0, <2>2 DEF Embeddings!Valid, Builds
    <3>4. c.ids \subseteq Manifests[c.hash]
      BY <3>2, <3>3, EmbeddingAssumption
    <3> HIDE DEF c
    <3> QED
      BY <1>c, <2>1, <2>2, <3>2, <3>4
  <2>3. CASE ~Embeddings!Valid(b, c)
    <3>1. inits[b] = 0
      BY <1>0, <2>1 DEF ModelKept
    <3>2. Embeddings!Missed(b) \in {"disabled", "init"}
      BY DEF Embeddings!Missed
    <3> QED
      BY <1>d, <2>1, <2>3, <3>1, <3>2 DEF Steps
  <2> QED
    BY <2>2, <2>3
<1>4. CASE Embeddings!InitModel(b)
  <2>1. build[b].pc = "init" /\ inits[b] = 0 /\ UNCHANGED Embeddings!files
    BY <1>0, <1>4 DEF Embeddings!InitModel, ModelKept
  <2>2. CASE Embeddings!Step(b, "disabled") /\ UNCHANGED Embeddings!queries
    BY <1>d, <2>1, <2>2 DEF Steps
  <2>3. CASE Embeddings!Step(b, "batch") /\ inits' = [inits EXCEPT ![b] = @ + 1] /\ UNCHANGED <<query, modelLock>>
    <3>1. /\ build' = [build EXCEPT ![b] = [build[b] EXCEPT !.pc = "batch"]] /\ build'[b] = [build[b] EXCEPT !.pc = "batch"]
          /\ inits'[b] = 1 /\ UNCHANGED <<query, modelLock>>
      BY <1>0, <2>1, <2>3 DEF Embeddings!Step, Embeddings!Now, EmbeddingTypes
    <3>2. [build[b] EXCEPT !.pc = "batch"] \in Builds /\ build'[b].pc = "batch"
      BY <1>0, <3>1 DEF Builds, Steps
    <3>3. EmbeddingTypes' /\ Only(b)
      BY <1>0, <2>3, <3>1, <3>2 DEF EmbeddingTypes, Only
    <3>4. BuildKept(b)'
      BY <3>2 DEF BuildKept
    <3>5. ModelKept(b)'
      BY <1>0, <2>1, <3>1, <3>2 DEF ModelKept
    <3> QED
      BY <1>b, <2>1, <3>3, <3>4, <3>5, OthersKept
  <2> QED
    BY <1>4, <2>2, <2>3 DEF Embeddings!InitModel
<1>5. CASE Embeddings!Batch(b)
  <2>1. PICK batch \in SUBSET build[b].left :
          /\ build[b].pc = "batch" /\ UNCHANGED Embeddings!files /\ UNCHANGED Embeddings!queries
          /\ \/ Embeddings!Now(b, [build[b] EXCEPT !.left = @ \ batch, !.ids = @ \cup batch])
             \/ Embeddings!Now(b, [build[b] EXCEPT !.left = @ \ batch])
    BY <1>5 DEF Embeddings!Batch
  <2> DEFINE r == [build[b] EXCEPT !.left = @ \ batch, !.ids = @ \cup batch]
             q == [build[b] EXCEPT !.left = @ \ batch]
  <2>2. r \in Builds /\ q \in Builds /\ r.pc = "batch" /\ q.pc = "batch"
    BY <1>0, <2>1 DEF Builds
  <2>3. Embeddings!Now(b, r) \/ Embeddings!Now(b, q)
    BY <2>1
  <2> HIDE DEF r, q
  <2> QED
    BY <1>a, <1>b, <2>1, <2>2, <2>3
<1>6. CASE Embeddings!BatchesEnd(b)
  <2>1. /\ build[b].pc = "batch" /\ UNCHANGED Embeddings!files /\ UNCHANGED Embeddings!queries
        /\ Embeddings!Step(b, Embeddings!Produced(b))
    BY <1>6 DEF Embeddings!BatchesEnd
  <2>2. CASE build[b].ids = Manifests[build[b].manifest]
    <3> DEFINE r == [build[b] EXCEPT !.pc = "save"]
    <3>1. r \in Builds /\ r.pc = "save" /\ r.ids = build[b].ids /\ r.manifest = build[b].manifest
      BY <1>0 DEF Builds, Steps
    <3>2. Embeddings!Produced(b) = "save"
      BY <2>2 DEF Embeddings!Produced
    <3>3. Embeddings!Now(b, r)
      BY <2>1, <3>2 DEF Embeddings!Step
    <3> HIDE DEF r
    <3> QED
      BY <1>a, <1>b, <2>1, <2>2, <3>1, <3>3
  <2>3. CASE build[b].ids # Manifests[build[b].manifest]
    <3>1. Embeddings!Produced(b) \in {"disabled", "failed"}
      BY <2>3 DEF Embeddings!Produced
    <3> QED
      BY <1>d, <2>1, <3>1 DEF Steps
  <2> QED
    BY <2>2, <2>3
<1>7. CASE Embeddings!WriteTmp(b)
  <2>1. /\ build[b].pc = "save" /\ UNCHANGED <<compressed, raw>> /\ UNCHANGED Embeddings!queries
        /\ \E to \in {"rename", "ready"} : Embeddings!Now(b, [build[b] EXCEPT !.pc = to, !.held = Embeddings!Made(b)])
    BY <1>7 DEF Embeddings!WriteTmp
  <2>2. PICK to \in {"rename", "ready"} : Embeddings!Now(b, [build[b] EXCEPT !.pc = to, !.held = Embeddings!Made(b)])
    BY <2>1
  <2>3. build[b].ids = Manifests[build[b].manifest]
    BY <1>0, <2>1 DEF BuildKept
  <2>4. /\ Embeddings!Made(b) \in Made
        /\ Embeddings!Made(b).model = build[b].model /\ Embeddings!Made(b).hash = build[b].manifest
    BY <1>0, <2>3 DEF Made, Embeddings!Made, Embeddings!Content, Builds
  <2> DEFINE r == [build[b] EXCEPT !.pc = to, !.held = Embeddings!Made(b)]
  <2>5. /\ r \in Builds /\ r.pc = to /\ r.held = Embeddings!Made(b) /\ r.ids = build[b].ids /\ r.manifest = build[b].manifest
        /\ r.model = build[b].model /\ r.schema = build[b].schema /\ r.quantize = build[b].quantize
    BY <1>0, <2>2, <2>4 DEF Builds, Steps
  <2>6. r.held = Embeddings!Content(r.schema, r.model, r.manifest, r.ids, r.quantize)
    BY <2>5 DEF Embeddings!Made
  <2>7. Embeddings!Now(b, r)
    BY <2>2
  <2>8. FilesKept'
    BY <1>0, <2>1 DEF FilesKept
  <2> HIDE DEF r
  <2> QED
    BY <1>a, <2>1, <2>2, <2>3, <2>4, <2>5, <2>6, <2>7, <2>8
<1>8. CASE Embeddings!Rename(b)
  <2>1. /\ build[b].pc = "rename" /\ raw' = raw /\ UNCHANGED Embeddings!queries /\ Embeddings!Step(b, "ready")
        /\ \/ compressed' = [compressed EXCEPT ![Embeddings!At(b)] = build[b].held]
           \/ compressed' = compressed
    BY <1>8 DEF Embeddings!Rename
  <2>2. build[b].ids = Manifests[build[b].manifest] /\ build[b].held = Embeddings!Made(b)
    BY <1>0, <2>1 DEF BuildKept
  <2>3. /\ build[b].held \in Made /\ build[b].held # Embeddings!None
        /\ build[b].held.model = build[b].model /\ build[b].held.hash = build[b].manifest
        /\ build[b].held.ids = Manifests[build[b].manifest]
    BY <1>0, <2>2 DEF Made, Embeddings!Made, Embeddings!Content, Builds, Embeddings!None
  <2>4. FilesKept'
    <3>1. CASE compressed' = compressed
      BY <1>0, <2>1, <3>1 DEF FilesKept
    <3>2. CASE compressed' = [compressed EXCEPT ![Embeddings!At(b)] = build[b].held]
      <4>1. compressed'[Embeddings!At(b)] = build[b].held /\ \A s \in Embeddings!Slots : s # Embeddings!At(b) => compressed'[s] = compressed[s]
        BY <1>0, <3>2 DEF FilesKept
      <4>2. Embeddings!At(b)[1] = build[b].manifest /\ Embeddings!At(b)[2] = Slug(build[b].model)
        BY DEF Embeddings!At
      <4>3. ASSUME NEW s \in Embeddings!Slots, compressed'[s] # Embeddings!None
            PROVE  /\ compressed'[s].hash = s[1] /\ Slug(compressed'[s].model) = s[2] /\ compressed'[s].ids = Manifests[s[1]]
        <5>1. CASE s = Embeddings!At(b)
          BY <2>3, <4>1, <4>2, <5>1
        <5>2. CASE s # Embeddings!At(b)
          BY <1>0, <4>1, <4>3, <5>2 DEF FilesKept
        <5> QED
          BY <5>1, <5>2
      <4>4. compressed' \in [Embeddings!Slots -> {Embeddings!None} \cup Made]
        BY <1>0, <2>3, <3>2 DEF FilesKept
      <4> QED
        BY <1>0, <2>1, <4>3, <4>4 DEF FilesKept
    <3> QED
      BY <2>1, <3>1, <3>2
  <2> DEFINE r == [build[b] EXCEPT !.pc = "ready"]
  <2>5. /\ r \in Builds /\ r.pc = "ready" /\ r.held = build[b].held /\ r.ids = build[b].ids /\ r.manifest = build[b].manifest
        /\ r.model = build[b].model
    BY <1>0 DEF Builds, Steps
  <2>6. Embeddings!Now(b, r)
    BY <2>1 DEF Embeddings!Step
  <2> HIDE DEF r
  <2> QED
    BY <1>a, <2>1, <2>2, <2>3, <2>4, <2>5, <2>6
<1> QED
  BY <1>1, <1>2, <1>3, <1>4, <1>5, <1>6, <1>7, <1>8 DEF Embeddings!BuildStep

\* A process that ends or crashes leaves the files as they were and forgets its
\* model.
LEMMA ProcessEndsKept == ASSUME EmbeddingInv, NEW b \in Builders, Embeddings!End(b) \/ Embeddings!CrashBuild(b) PROVE EmbeddingInv'
<1>0. EmbeddingTypes /\ FilesKept /\ BuildKept(b) /\ ModelKept(b)
  BY DEF EmbeddingInv
<1>1. Embeddings!Idle \in Builds /\ Embeddings!Idle.pc = "idle"
  BY EmbeddingAssumption DEF Embeddings!Idle, Builds, Steps
<1>2. /\ build' = [build EXCEPT ![b] = Embeddings!Idle] /\ inits' = [inits EXCEPT ![b] = 0] /\ UNCHANGED <<compressed, raw>>
  BY DEF Embeddings!End, Embeddings!CrashBuild, Embeddings!Now, Embeddings!files
<1>3. /\ query' \in [Builders \X Searches -> {"idle", "lock", "locked", "loading"}]
      /\ \A s \in Searches : query'[<<b, s>>] = "idle"
      /\ \A c \in Builders \ {b}, s \in Searches : query'[<<c, s>>] = query[<<c, s>>]
  <2>1. CASE Embeddings!End(b)
    BY <1>0, <2>1 DEF Embeddings!End, EmbeddingTypes
  <2>2. CASE Embeddings!CrashBuild(b)
    <3>1. query' = [q \in Builders \X Searches |-> IF q[1] = b THEN "idle" ELSE query[q]]
      BY <1>0, <2>2 DEF Embeddings!CrashBuild, EmbeddingTypes
    <3>2. \A c \in Builders, s \in Searches : query'[<<c, s>>] = IF c = b THEN "idle" ELSE query[<<c, s>>]
      BY <3>1
    <3>3. query' \in [Builders \X Searches -> {"idle", "lock", "locked", "loading"}]
      BY <1>0, <3>1 DEF EmbeddingTypes
    <3> QED
      BY <3>2, <3>3
  <2> QED
    BY <2>1, <2>2
<1>4. modelLock' = modelLock \/ modelLock' = [modelLock EXCEPT ![b] = Embeddings!None]
  BY DEF Embeddings!End, Embeddings!CrashBuild
<1>5. EmbeddingTypes'
  BY <1>0, <1>1, <1>2, <1>3, <1>4 DEF EmbeddingTypes
<1>6. FilesKept'
  BY <1>0, <1>2 DEF FilesKept
<1>7. Only(b) /\ build'[b] = Embeddings!Idle /\ inits'[b] = 0
  BY <1>0, <1>2, <1>3, <1>4 DEF Only, EmbeddingTypes
<1>8. BuildKept(b)' /\ ModelKept(b)'
  BY <1>1, <1>3, <1>7 DEF BuildKept, ModelKept
<1> QED
  BY <1>5, <1>6, <1>7, <1>8, OthersKept

\* The searches of a process take their turns at the lock.
LEMMA SearchStepKept ==
  ASSUME EmbeddingInv, NEW b \in Builders, NEW s \in Searches, Embeddings!Ask(b, s) \/ Embeddings!SearchStep(b, s)
  PROVE  EmbeddingInv'
<1>0. EmbeddingTypes /\ FilesKept /\ BuildKept(b) /\ ModelKept(b) /\ inits[b] \in Nat
  BY DEF EmbeddingInv, EmbeddingTypes
<1>1. PICK to \in {"idle", "lock", "locked", "loading"} : query' = [query EXCEPT ![<<b, s>>] = to]
  BY DEF Embeddings!Ask, Embeddings!SearchStep, Embeddings!LockModel, Embeddings!CheckModel, Embeddings!LoadModel, Embeddings!To
<1>2. /\ query'[<<b, s>>] = to
      /\ \A t \in Searches \ {s} : query'[<<b, t>>] = query[<<b, t>>]
      /\ \A c \in Builders \ {b}, t \in Searches : query'[<<c, t>>] = query[<<c, t>>]
  BY <1>0, <1>1 DEF EmbeddingTypes
<1>3. UNCHANGED <<compressed, raw, build>>
  BY DEF Embeddings!Ask, Embeddings!SearchStep, Embeddings!LockModel, Embeddings!CheckModel, Embeddings!LoadModel, Embeddings!files
<1>4. /\ modelLock' \in {modelLock, [modelLock EXCEPT ![b] = Embeddings!None], [modelLock EXCEPT ![b] = [kind |-> "held", by |-> s]]}
      /\ inits' \in {inits, [inits EXCEPT ![b] = @ + 1]}
  BY DEF Embeddings!Ask, Embeddings!SearchStep, Embeddings!LockModel, Embeddings!CheckModel, Embeddings!LoadModel
<1>5. EmbeddingTypes' /\ Only(b)
  <2>1. \A m : modelLock' = [modelLock EXCEPT ![b] = m] /\ m \in {Embeddings!None} \cup [kind : {"held"}, by : Searches]
          => modelLock' \in [Builders -> {Embeddings!None} \cup [kind : {"held"}, by : Searches]]
             /\ \A c \in Builders \ {b} : modelLock'[c] = modelLock[c]
    BY <1>0 DEF EmbeddingTypes
  <2>2. [kind |-> "held", by |-> s] \in [kind : {"held"}, by : Searches]
    OBVIOUS
  <2>3. modelLock' \in [Builders -> {Embeddings!None} \cup [kind : {"held"}, by : Searches]] /\ \A c \in Builders \ {b} : modelLock'[c] = modelLock[c]
    BY <1>0, <1>4, <2>1, <2>2 DEF EmbeddingTypes
  <2>4. inits' \in [Builders -> Nat] /\ \A c \in Builders \ {b} : inits'[c] = inits[c]
    BY <1>0, <1>4 DEF EmbeddingTypes
  <2>5. query' \in [Builders \X Searches -> {"idle", "lock", "locked", "loading"}]
    BY <1>0, <1>1 DEF EmbeddingTypes
  <2> QED
    BY <1>0, <1>2, <1>3, <2>3, <2>4, <2>5 DEF EmbeddingTypes, Only
<1>6. FilesKept' /\ BuildKept(b)'
  BY <1>0, <1>3 DEF FilesKept, BuildKept, Embeddings!Made
<1>7. ASSUME NEW t \in Searches, query[<<b, t>>] \in {"locked", "loading"}, query[<<b, s>>] \in {"locked", "loading"} PROVE t = s
  <2>1. [kind |-> "held", by |-> t] = [kind |-> "held", by |-> s]
    BY <1>0, <1>7 DEF ModelKept
  <2> QED
    BY <2>1
<1>8. build[b].pc = "ready"
  BY <1>0 DEF ModelKept, Embeddings!Ask, Embeddings!SearchStep, Embeddings!LockModel, Embeddings!CheckModel, Embeddings!LoadModel
<1>9. ModelKept(b)'
  <2>1. CASE Embeddings!Ask(b, s)
    BY <1>0, <1>2, <1>3, <1>8, <2>1 DEF Embeddings!Ask, Embeddings!To, ModelKept, EmbeddingTypes
  <2>2. CASE Embeddings!LockModel(b, s)
    <3>1. /\ to = "locked" /\ modelLock[b] = Embeddings!None /\ inits' = inits /\ modelLock'[b] = [kind |-> "held", by |-> s]
      BY <1>0, <1>2, <2>2 DEF Embeddings!LockModel, Embeddings!To, EmbeddingTypes
    <3>2. \A t \in Searches : query[<<b, t>>] \notin {"locked", "loading"}
      <4>1. \A t \in Searches : [kind |-> "held", by |-> t].kind # Embeddings!None.kind
        BY DEF Embeddings!None
      <4> QED
        BY <1>0, <3>1, <4>1 DEF ModelKept
    <3> QED
      BY <1>0, <1>2, <1>3, <1>8, <3>1, <3>2 DEF ModelKept
  <2>3. CASE Embeddings!CheckModel(b, s)
    <3>1. /\ query[<<b, s>>] = "locked" /\ inits' = inits
          /\ to = "idle" \/ (to = "loading" /\ inits[b] = 0 /\ modelLock' = modelLock)
      BY <1>0, <1>2, <2>3 DEF Embeddings!CheckModel, Embeddings!To, EmbeddingTypes
    <3>2. \A t \in Searches \ {s} : query[<<b, t>>] \notin {"locked", "loading"}
      BY <1>7, <3>1
    <3> QED
      BY <1>0, <1>2, <1>3, <1>8, <3>1, <3>2 DEF ModelKept
  <2>4. CASE Embeddings!LoadModel(b, s)
    <3>1. /\ query[<<b, s>>] = "loading" /\ to = "idle" /\ inits'[b] \in {inits[b], inits[b] + 1}
      BY <1>0, <1>2, <2>4 DEF Embeddings!LoadModel, Embeddings!To, EmbeddingTypes
    <3>2. \A t \in Searches \ {s} : query[<<b, t>>] \notin {"locked", "loading"}
      BY <1>7, <3>1
    <3>3. inits[b] = 0
      BY <1>0, <3>1 DEF ModelKept
    <3>4. inits'[b] <= 1
      BY <3>1, <3>3
    <3> QED
      BY <1>0, <1>2, <1>3, <1>8, <3>1, <3>2, <3>4 DEF ModelKept
  <2> QED
    BY <2>1, <2>2, <2>3, <2>4 DEF Embeddings!SearchStep
<1> QED
  BY <1>5, <1>6, <1>9, OthersKept

\* Every step of every process keeps the files and the models sound.
LEMMA EmbeddingStep == ASSUME EmbeddingInv, [Embeddings!CacheNext]_embeddingVars PROVE EmbeddingInv'
<1>1. CASE Embeddings!CacheNext
  BY <1>1, BuildStepKept, ProcessEndsKept, SearchStepKept DEF Embeddings!CacheNext
<1>2. CASE UNCHANGED embeddingVars
  BY <1>2 DEF embeddingVars, EmbeddingInv, EmbeddingTypes, FilesKept, BuildKept, ModelKept, Embeddings!Made
<1> QED
  BY <1>1, <1>2

\* For any builders, searches, manifests, models and settings, and any files an
\* earlier release left: a ready searcher is complete, a cache file is complete
\* from the moment it is there, and a process loads its query model once.
THEOREM CachesCorrect == MCSpec => []CachesSound
<1>1. MCInit => TypeOK /\ EmbeddingInv
  BY CacheInitially, EmbeddingsInitially DEF MCInit, BodiesPublished
<1>2. TypeOK /\ EmbeddingInv /\ [MCNext]_mcVars => (TypeOK /\ EmbeddingInv)'
  <2> SUFFICES ASSUME TypeOK, EmbeddingInv, [MCNext]_mcVars PROVE TypeOK' /\ EmbeddingInv'
    OBVIOUS
  <2>1. [Next]_vars /\ [Embeddings!CacheNext]_embeddingVars
    BY DEF MCNext, mcVars
  <2> QED
    BY <2>1, TypeStep, EmbeddingStep
<1>3. TypeOK /\ EmbeddingInv => CachesSound
  <2> SUFFICES ASSUME TypeOK, EmbeddingInv PROVE CachesSound
    OBVIOUS
  <2>1. ReadyIsComplete
    BY DEF EmbeddingInv, BuildKept, ReadyIsComplete, Embeddings!ReadyIsComplete
  <2>2. CachesWhole
    BY DEF EmbeddingInv, FilesKept, CachesWhole, Embeddings!CachesWhole
  <2>3. LoadedOnce
    BY DEF EmbeddingInv, ModelKept, LoadedOnce, Embeddings!LoadedOnce
  <2> QED
    BY <2>1, <2>2, <2>3 DEF CachesSound
<1> QED
  BY <1>1, <1>2, <1>3, PTL DEF MCSpec

=============================================================================
