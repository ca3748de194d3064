---------------------------- MODULE ManifestCache ----------------------------
(***************************************************************************)
(* The cache of remote manifests, src/src/manifest/source/mod.rs: one URI  *)
(* and the two files of its entry, <hash>.json (the body) and              *)
(* <hash>.meta.json (etag and fetch time), each replaced by a rename, and  *)
(* the resolutions (`resolve_manifest`) of several threads or processes    *)
(* that share the directory without a lock.                                *)
(*                                                                         *)
(* Manifests are numbered in the order they are published. A body is the   *)
(* sequence of the publications its pieces were read from: the server of   *)
(* an http URI answers in one piece, DBFS is read in requests of 1 MiB.    *)
(* etag stands for both validators of an answer, etag and last_modified,   *)
(* which are kept and sent together; that a modification time may stay the *)
(* same within a second is left out.                                       *)
(* Time is whether manifest_refresh_secs have passed since the fetch.      *)
(***************************************************************************)
EXTENDS Naturals, Sequences, FiniteSets

CONSTANTS
  Resolvers,    \* threads and processes that resolve the URI
  MaxPub,       \* bound: manifests published in a behaviour
  MaxAttempts,  \* REMOTE_FETCH_MAX_ATTEMPTS
  Pieces        \* requests it takes to read a DBFS manifest

ASSUME CacheAssumption ==
  /\ IsFiniteSet(Resolvers)
  /\ MaxPub \in Nat \ {0} /\ MaxAttempts \in Nat \ {0} /\ Pieces \in Nat \ {0}

VARIABLES
  kind,      \* how the URI is fetched: "http", "sdk" (s3, gs) or "dbfs"
  polls,     \* manifest_refresh_secs > 0: copies grow old
  active,    \* the resolvers of this behaviour
  remote,    \* the current publication
  body,      \* the cached body, <<>> if there is none
  meta,      \* the cached metadata: [etag, fresh]
  pc, copy,  \* each resolution: its step, its copy of the metadata,
  attempt,   \*   the attempt it is at,
  resp,      \*   the pieces received,
  tag,       \*   the etag received,
  confirmed, \*   the publication a 304 answer was about,
  result     \*   what it returned: the body its caller finds at local_path

config == <<kind, polls, active>>
cache == <<body, meta>>
local == <<pc, copy, attempt, resp, tag, confirmed, result>>
vars == <<config, remote, cache, local>>

\* resolve_provider, fetch_s3_manifest, fetch_gcs_manifest: s3:// and gs:// are
\* fetched over https unless DBT_NOVA_S3_MODE or DBT_NOVA_GCS_MODE is "sdk".
Fetcher(scheme, sdk) ==
  CASE scheme \in {"s3", "gs"} -> IF sdk THEN "sdk" ELSE "http"
    [] OTHER -> scheme

Kinds == {Fetcher(s, sdk) : s \in {"http", "dbfs", "s3", "gs"}, sdk \in BOOLEAN}
Bodies == UNION {[1 .. n -> 0 .. MaxPub] : n \in 0 .. Pieces}
Meta == [etag : 0 .. MaxPub, fresh : BOOLEAN]
NoMeta == [etag |-> 0, fresh |-> FALSE]

\* A manifest in one piece, and a file without a byte.
Whole(c) == [i \in 1 .. Pieces |-> c]
EmptyFile == <<0>>

\* Every variable has its type.
TypeOK ==
  /\ kind \in Kinds /\ polls \in BOOLEAN /\ active \subseteq Resolvers
  /\ remote \in 1 .. MaxPub
  /\ body \in Bodies /\ meta \in Meta
  /\ pc \in [Resolvers -> {"idle", "status", "check", "ask", "write", "meta", "touch"}]
  /\ copy \in [Resolvers -> Meta]
  /\ attempt \in [Resolvers -> 1 .. MaxAttempts]
  /\ resp \in [Resolvers -> Bodies]
  /\ tag \in [Resolvers -> 0 .. MaxPub]
  /\ confirmed \in [Resolvers -> 0 .. MaxPub]
  /\ result \in [Resolvers -> Bodies]

Init ==
  /\ kind \in Kinds /\ polls \in BOOLEAN
  /\ active \in (SUBSET Resolvers) \ {{}}
  /\ remote = 1
  /\ body = <<>> /\ meta = NoMeta
  /\ pc = [p \in Resolvers |-> "idle"]
  /\ copy = [p \in Resolvers |-> NoMeta]
  /\ attempt = [p \in Resolvers |-> 1]
  /\ resp = [p \in Resolvers |-> <<>>]
  /\ tag = [p \in Resolvers |-> 0]
  /\ confirmed = [p \in Resolvers |-> 0]
  /\ result = [p \in Resolvers |-> <<>>]

-----------------------------------------------------------------------------
At(p, step) == pc[p] = step
Goto(p, step) == pc' = [pc EXCEPT ![p] = step]

\* A resolution ends, successfully with the file at local_path or with an
\* error; `c` is the publication a 304 confirmed, 0 if there was none.
End(p, found, c) ==
  /\ Goto(p, "idle")
  /\ result' = [result EXCEPT ![p] = found]
  /\ confirmed' = [confirmed EXCEPT ![p] = c]
  /\ copy' = [copy EXCEPT ![p] = NoMeta]
  /\ attempt' = [attempt EXCEPT ![p] = 1]
  /\ resp' = [resp EXCEPT ![p] = <<>>]
  /\ tag' = [tag EXCEPT ![p] = 0]

\* The cached copy is returned, of whatever age; without one it is an error.
ReturnCached(p) == End(p, body, 0) /\ UNCHANGED <<config, remote, cache>>

\* Mutant: the age of the copy is ignored.
IsCacheThere(p) == TRUE

\* is_cache_fresh, on the resolution's copy of the metadata.
IsCacheFresh(p) == ~polls \/ copy[p].fresh

-----------------------------------------------------------------------------
(* The outside.                                                            *)

\* The producer publishes a manifest.
Publish ==
  /\ remote < MaxPub
  /\ remote' = remote + 1
  /\ UNCHANGED <<config, cache, local>>

\* manifest_refresh_secs pass.
GrowOld ==
  /\ meta.fresh \/ \E p \in Resolvers : copy[p].fresh
  /\ meta' = [meta EXCEPT !.fresh = FALSE]
  /\ copy' = [p \in Resolvers |-> [copy[p] EXCEPT !.fresh = FALSE]]
  /\ UNCHANGED <<config, remote, body, pc, attempt, resp, tag, confirmed, result>>

\* The process dies in the middle of a resolution, or cannot write the
\* metadata; the temporary file it leaves is not the cached body.
Crash(p) ==
  /\ ~At(p, "idle")
  /\ End(p, <<>>, 0)
  /\ UNCHANGED <<config, remote, cache>>

-----------------------------------------------------------------------------
(* fetch_http_manifest, fetch_sdk_manifest_with_cache, fetch_dbfs_manifest *)

\* cache_paths and read_cache_meta: an unreadable file counts as no metadata.
ReadCacheMeta(p) ==
  /\ At(p, "idle")
  /\ copy' = [copy EXCEPT ![p] = meta]
  /\ Goto(p, IF kind = "dbfs" THEN "status" ELSE "check")
  /\ UNCHANGED <<config, remote, cache, attempt, resp, tag, confirmed, result>>

\* DBFS first asks for the status of the file. The modification time it gets
\* is stored in the metadata before it is compared with it, so that the
\* comparison decides nothing; a refused request is passed over.
GetStatus(p) ==
  /\ At(p, "status")
  /\ Goto(p, "check")
  /\ UNCHANGED <<config, remote, cache, copy, attempt, resp, tag, confirmed, result>>

\* The status request times out or does not get through.
StatusFails(p) == At(p, "status") /\ ReturnCached(p)

\* Its answer is not JSON.
StatusGarbled(p) ==
  /\ At(p, "status")
  /\ End(p, <<>>, 0)
  /\ UNCHANGED <<config, remote, cache>>

\* A fresh copy is returned without a request for it ...
ReturnFresh(p) ==
  /\ At(p, "check")
  /\ body # <<>> /\ IsCacheFresh(p)
  /\ ReturnCached(p)

\* ... otherwise the manifest is asked for.
StartFetch(p) ==
  /\ At(p, "check")
  /\ ~(body # <<>> /\ IsCacheFresh(p))
  /\ Goto(p, "ask")
  /\ UNCHANGED <<config, remote, cache, copy, attempt, resp, tag, confirmed, result>>

\* Mutant: one attempt too many.
SendFailsOnceMore(p) ==
  /\ At(p, "ask")
  /\ \/ /\ attempt[p] <= MaxAttempts
        /\ attempt' = [attempt EXCEPT ![p] = @ + 1]
        /\ UNCHANGED <<config, remote, cache, pc, copy, resp, tag, confirmed, result>>
     \/ /\ attempt[p] > MaxAttempts
        /\ ReturnCached(p)

\* The request does not get through; it is tried MaxAttempts times.
SendFails(p) ==
  /\ At(p, "ask")
  /\ \/ /\ attempt[p] < MaxAttempts
        /\ attempt' = [attempt EXCEPT ![p] = @ + 1]
        /\ UNCHANGED <<config, remote, cache, pc, copy, resp, tag, confirmed, result>>
     \/ /\ attempt[p] = MaxAttempts
        /\ ReturnCached(p)

\* The deadline of the fetch has passed, the server refuses the request, or
\* the manifest is too large, whether the server says so or it turns out.
FetchFails(p) == pc[p] \in {"ask", "write"} /\ ReturnCached(p)

\* The server answers 304 to the etag of the copy. Without a cached body that
\* is an error status like any other.
NotModified(p) ==
  /\ At(p, "ask") /\ kind = "http"
  /\ copy[p].etag = remote
  /\ IF body # <<>>
       THEN /\ Goto(p, "touch")
            /\ confirmed' = [confirmed EXCEPT ![p] = remote]
            /\ UNCHANGED <<config, remote, cache, copy, attempt, resp, tag, result>>
       ELSE ReturnCached(p)

\* The server sends the manifest, with or without an etag.
Answer(p) ==
  /\ At(p, "ask") /\ kind = "http"
  /\ copy[p].etag # remote
  /\ resp' = [resp EXCEPT ![p] = Whole(remote)]
  /\ \E e \in {0, remote} : tag' = [tag EXCEPT ![p] = e]
  /\ Goto(p, "write")
  /\ UNCHANGED <<config, remote, cache, copy, attempt, confirmed, result>>

\* The client library of the store gets the object; no etag is kept.
FetchSdk(p) ==
  /\ At(p, "ask") /\ kind = "sdk"
  /\ resp' = [resp EXCEPT ![p] = Whole(remote)]
  /\ tag' = [tag EXCEPT ![p] = copy[p].etag]
  /\ Goto(p, "write")
  /\ UNCHANGED <<config, remote, cache, copy, attempt, confirmed, result>>

\* DBFS sends one piece; each has its own attempts.
ReadPiece(p) ==
  /\ At(p, "ask") /\ kind = "dbfs"
  /\ Len(resp[p]) < Pieces
  /\ resp' = [resp EXCEPT ![p] = Append(@, remote)]
  /\ attempt' = [attempt EXCEPT ![p] = 1]
  /\ UNCHANGED <<config, remote, cache, pc, copy, tag, confirmed, result>>

\* An empty piece ends the file ...
ReadEnd(p) ==
  /\ At(p, "ask") /\ kind = "dbfs"
  /\ Len(resp[p]) = Pieces
  /\ Goto(p, "write")
  /\ UNCHANGED <<config, remote, cache, copy, attempt, resp, tag, confirmed, result>>

\* ... and so does an answer without its data field: the file is cut short ...
ReadTruncated(p) ==
  /\ At(p, "ask") /\ kind = "dbfs"
  /\ Len(resp[p]) \in 1 .. Pieces - 1
  /\ Goto(p, "write")
  /\ UNCHANGED <<config, remote, cache, copy, attempt, resp, tag, confirmed, result>>

\* ... and empty if it was the first one.
ReadNothing(p) ==
  /\ At(p, "ask") /\ kind = "dbfs"
  /\ resp[p] = <<>>
  /\ resp' = [resp EXCEPT ![p] = EmptyFile]
  /\ Goto(p, "write")
  /\ UNCHANGED <<config, remote, cache, copy, attempt, tag, confirmed, result>>

\* A piece that is not JSON or not base64.
ReadGarbled(p) ==
  /\ At(p, "ask") /\ kind = "dbfs"
  /\ End(p, <<>>, 0)
  /\ UNCHANGED <<config, remote, cache>>

\* Mutant: the received body is not renamed as a whole.
WriteBodyInPlace(p) ==
  /\ At(p, "write")
  /\ \E n \in {1, Pieces} : body' = SubSeq(resp[p], 1, n)
  /\ Goto(p, "meta")
  /\ UNCHANGED <<config, remote, meta, copy, attempt, resp, tag, confirmed, result>>

\* Mutant: the metadata is written before the body.
WriteMetaFirst(p) ==
  /\ \/ /\ At(p, "write") /\ tag[p] # meta.etag
        /\ meta' = [etag |-> tag[p], fresh |-> TRUE]
        /\ UNCHANGED <<body, pc>>
     \/ /\ At(p, "write") /\ tag[p] = meta.etag
        /\ body' = resp[p]
        /\ Goto(p, "meta")
        /\ UNCHANGED meta
  /\ UNCHANGED <<config, remote, copy, attempt, resp, tag, confirmed, result>>

\* write_limited_reader_atomic, write_atomic: the body is renamed in place ...
WriteBody(p) ==
  /\ At(p, "write")
  /\ body' = resp[p]
  /\ Goto(p, "meta")
  /\ UNCHANGED <<config, remote, meta, copy, attempt, resp, tag, confirmed, result>>

\* ... then the metadata, and the resolution returns its path.
WriteCacheMeta(p) ==
  /\ At(p, "meta")
  /\ meta' = [etag |-> tag[p], fresh |-> TRUE]
  /\ End(p, body, 0)
  /\ UNCHANGED <<config, remote, body>>

\* After a 304 the resolution's metadata is written back with the time of now.
TouchCacheMeta(p) ==
  /\ At(p, "touch")
  /\ meta' = [copy[p] EXCEPT !.fresh = TRUE]
  /\ End(p, body, confirmed[p])
  /\ UNCHANGED <<config, remote, body>>

Step(p) ==
  \/ GetStatus(p) \/ ReturnFresh(p) \/ StartFetch(p)
  \/ NotModified(p) \/ Answer(p) \/ FetchSdk(p) \/ ReadPiece(p) \/ ReadEnd(p)
  \/ WriteBody(p) \/ WriteCacheMeta(p) \/ TouchCacheMeta(p)

Trouble(p) ==
  StatusFails(p) \/ StatusGarbled(p) \/ SendFails(p) \/ FetchFails(p) \/ ReadTruncated(p)
  \/ ReadNothing(p) \/ ReadGarbled(p) \/ Crash(p)

Next ==
  \/ Publish \/ GrowOld
  \/ \E p \in active : ReadCacheMeta(p) \/ Step(p) \/ Trouble(p)

Spec == Init /\ [][Next]_vars

\* A resolution under way goes on, the refresh loop resolves again and again,
\* and time passes.
Fairness ==
  /\ \A p \in Resolvers : WF_vars(p \in active /\ Step(p))
  /\ \A p \in Resolvers : WF_vars(p \in active /\ ReadCacheMeta(p))
  /\ WF_vars(GrowOld)

FairSpec == Spec /\ Fairness

-----------------------------------------------------------------------------
(* Properties.                                                             *)

\* A body as ManifestSource counts it.
Publication(b) ==
  IF b = <<>> THEN 0
  ELSE IF b[1] # 0 /\ b = Whole(b[1]) THEN b[1] ELSE MaxPub + 1

Source == INSTANCE ManifestSource WITH
            published <- remote,
            served <- [p \in Resolvers |-> Publication(result[p])],
            whole <- kind # "dbfs"

\* The cache implements ManifestSource: whatever two resolutions sharing the
\* entry, crashes, retries and fall-backs do, the file a resolution returns is
\* one published manifest, and a whole one unless DBFS was read piecewise
\* while it changed or left out its end.
ImplementsSource == Source!Spec

Alone == Cardinality(active) = 1

\* A 304 says that the cached copy is the current manifest, so the copy must be
\* the one its etag was received with: true for a lone resolver whatever
\* crashes come between the renames of body and metadata. (With two, the
\* slower may rename its older body between the two renames of the faster.)
ConfirmedIsServed ==
  \A p \in active :
    Alone /\ confirmed[p] # 0 /\ At(p, "idle") => result[p] = Whole(confirmed[p])

\* Once the remote keeps still and answers, a lone resolver that polls ends up
\* returning the current manifest, however interrupted its earlier fetches
\* were: no combination of body, etag and age left on disk holds it back.
LoneResolverConverges ==
  Alone /\ polls =>
    (<>[][~(Publish \/ \E p \in active : Trouble(p))]_vars
       => <>[](\A p \in active : result[p] = Whole(remote)))
=============================================================================
