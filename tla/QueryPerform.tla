--------------------------- MODULE QueryPerform ---------------------------
(***************************************************************************)
(* The query orchestrator of pyignite/queries/query.py: Query.perform and  *)
(* Query.perform_async, with query_perform, CacheInfo.from_python and      *)
(* Query.__post_process_response.  Several callers share one client        *)
(* context; each uses a connection of its own.  A response whose flags     *)
(* carry RHF_TOPOLOGY_CHANGED raises the client's shared                   *)
(* affinity_version to the version it reports if that version is greater.  *)
(*                                                                         *)
(* The two execution models run the same protocol code under different     *)
(* schedulers.  With Cooperative = TRUE the callers are asyncio tasks: a   *)
(* task gives up control only at `await conn.request(...)`, so no other    *)
(* task runs between the read of the affinity version and its write.      *)
(* With Cooperative = FALSE the callers are threads using the blocking     *)
(* path, which may be preempted between any two statements.               *)
(*                                                                         *)
(* The server and the cluster are the environment: the cluster's topology *)
(* version advances, and the server answers each request with a status    *)
(* and, when the topology changed since the last response on that         *)
(* connection, the flag and the current version.                          *)
(***************************************************************************)
EXTENDS Integers

CONSTANTS
    Procs,            \* the callers (threads or asyncio tasks)
    Cooperative,      \* TRUE: asyncio path; FALSE: blocking path in threads
    ExpirySupported,  \* protocol_context.is_expiry_policy_supported()
    MaxQueries,       \* queries a caller performs, bound of the model
    MaxMajor,         \* bound on the cluster's major topology version
    MaxMinor          \* bound on the cluster's minor topology version

ASSUME ConstantsAssumption ==
    /\ Cooperative \in BOOLEAN
    /\ ExpirySupported \in BOOLEAN
    /\ MaxQueries \in Nat
    /\ MaxMajor \in Nat \ {0}
    /\ MaxMinor \in Nat

VARIABLES
    pc,       \* pc[p]: where caller p is in perform
    sent,     \* sent[p]: the number of queries p has started
    resp,     \* resp[p]: the response the server returned to p, or NoResp
    old,      \* old[p]: the local old_affinity of __post_process_response
    result,   \* result[p]: what p's last perform returned or raised
    aff,      \* conn.client.affinity_version, shared by all callers
    topVer,   \* the cluster's current affinity topology version
    lastVer,  \* lastVer[p]: the version the server last reported to p
    applied   \* history: versions of flagged responses whose
              \* post-processing has finished

vars == <<pc, sent, resp, old, result, aff, topVer, lastVer, applied>>

(***************************************************************************)
(* Affinity versions are (major, minor) pairs compared as Python tuples.  *)
(***************************************************************************)
Version == Nat \X Nat

VerGT(a, b) == a[1] > b[1] \/ (a[1] = b[1] /\ a[2] > b[2])

VerLE(a, b) == ~VerGT(a, b)

InitAff == <<0, 0>>

\* The versions the cluster reaches within the model's bounds.
Versions == (0..MaxMajor) \X (0..MaxMinor)

\* The statuses the model distinguishes: success and one error status.
Statuses == {0, 1}

NoResp == [status |-> -1, flag |-> FALSE, ver |-> InitAff]

Response == [status : Statuses, flag : BOOLEAN, ver : Versions]

\* perform raised instead of returning: NotSupportedByClusterError from
\* CacheInfo.from_python, or an error of response_struct.to_python.
Raised == [status |-> -2, hasValue |-> FALSE]

NoResult == [status |-> -1, hasValue |-> FALSE]

\* An APIResult holds a value exactly when its status is 0.
Result == {[status |-> s, hasValue |-> s = 0] : s \in Statuses}
              \cup {Raised, NoResult}

PCs == {"idle", "waiting", "update"}

(***************************************************************************)
(* The scheduler.  An asyncio task runs undisturbed from the return of    *)
(* `await conn.request` to the end of perform_async: nothing in           *)
(* __post_process_response awaits.  A thread may always be preempted.     *)
(***************************************************************************)
Runnable(p) ==
    Cooperative => \A q \in Procs \ {p} : pc[q] # "update"

TypeOK ==
    /\ pc \in [Procs -> PCs]
    /\ sent \in [Procs -> 0..MaxQueries]
    /\ resp \in [Procs -> Response \cup {NoResp}]
    /\ old \in [Procs -> Versions]
    /\ result \in [Procs -> Result]
    /\ aff \in Versions
    /\ topVer \in Versions
    /\ lastVer \in [Procs -> Versions]
    /\ applied \in SUBSET Versions

Init ==
    /\ pc = [p \in Procs |-> "idle"]
    /\ sent = [p \in Procs |-> 0]
    /\ resp = [p \in Procs |-> NoResp]
    /\ old = [p \in Procs |-> InitAff]
    /\ result = [p \in Procs |-> NoResult]
    /\ aff = InitAff
    /\ topVer = <<1, 0>>
    /\ lastVer = [p \in Procs |-> InitAff]
    /\ applied = {}

(***************************************************************************)
(* perform up to `conn.request`: from_python serializes the request.  A   *)
(* CacheInfo carrying an expiry policy on a cluster that does not support *)
(* it raises NotSupportedByClusterError before anything is sent.          *)
(* Otherwise the bytes go out and the caller blocks (or awaits).          *)
(***************************************************************************)
\* CacheInfo.from_python raises when an expiry policy is requested from a
\* cluster whose protocol version does not support it.
CacheInfoRaises(withExpiry) ==
    withExpiry /\ ~ExpirySupported

Send(p) ==
    /\ pc[p] = "idle"
    /\ sent[p] < MaxQueries
    /\ Runnable(p)
    /\ sent' = [sent EXCEPT ![p] = @ + 1]
    /\ \E withExpiry \in BOOLEAN :
          IF CacheInfoRaises(withExpiry)
          THEN /\ result' = [result EXCEPT ![p] = Raised]
               /\ UNCHANGED <<pc, resp>>
          ELSE /\ pc' = [pc EXCEPT ![p] = "waiting"]
               /\ resp' = [resp EXCEPT ![p] = NoResp]
               /\ result' = [result EXCEPT ![p] = NoResult]
    /\ UNCHANGED <<old, aff, topVer, lastVer, applied>>

(***************************************************************************)
(* The environment.  The cluster's topology version advances: a node      *)
(* joins or leaves (next major, minor 0) or the affinity changes within   *)
(* the topology (next minor).                                             *)
(***************************************************************************)
ClusterChange ==
    /\ \/ topVer[1] < MaxMajor /\ topVer' = <<topVer[1] + 1, 0>>
       \/ topVer[2] < MaxMinor /\ topVer' = <<topVer[1], topVer[2] + 1>>
    /\ UNCHANGED <<pc, sent, resp, old, result, aff, lastVer, applied>>

\* The server answers p's request.  It sets the topology-changed flag when
\* the version differs from the one it last reported on p's connection.
ServerReply(p) ==
    /\ pc[p] = "waiting"
    /\ resp[p] = NoResp
    /\ \E s \in Statuses :
          resp' = [resp EXCEPT ![p] = [status |-> s,
                                       flag |-> topVer # lastVer[p],
                                       ver |-> topVer]]
    /\ lastVer' = [lastVer EXCEPT ![p] = topVer]
    /\ UNCHANGED <<pc, sent, old, result, aff, topVer, applied>>

\* A plausible bug, used as a mutant of Complete: the value is decoded
\* whatever the status.
CompleteAlwaysDecodes(p) ==
    [status |-> resp[p].status, hasValue |-> TRUE]

(***************************************************************************)
(* The rest of perform, as far as the first read of the shared state:     *)
(* the response is parsed and __post_process_response reads the flags and *)
(* old_affinity = conn.client.affinity_version.  Without the flag it      *)
(* builds the APIResult and decodes the value when the status is 0       *)
(* (to_python, which may raise); post_process_fun passes a non-zero       *)
(* status through.                                                        *)
(***************************************************************************)
Complete(p) ==
    [status |-> resp[p].status, hasValue |-> resp[p].status = 0]

\* What perform ends with: the APIResult, or, on status 0, the exception
\* response_struct.to_python raises when the fields do not decode (the
\* codecs are outside the model, so either may happen).
Decoded(p) ==
    {Complete(p)} \cup {r \in {Raised} : resp[p].status = 0}

Receive(p) ==
    /\ pc[p] = "waiting"
    /\ resp[p] # NoResp
    /\ Runnable(p)
    /\ IF resp[p].flag
       THEN /\ pc' = [pc EXCEPT ![p] = "update"]
            /\ old' = [old EXCEPT ![p] = aff]
            /\ UNCHANGED result
       ELSE /\ pc' = [pc EXCEPT ![p] = "idle"]
            /\ \E r \in Decoded(p) : result' = [result EXCEPT ![p] = r]
            /\ UNCHANGED old
    /\ UNCHANGED <<sent, resp, aff, topVer, lastVer, applied>>

(***************************************************************************)
(* A plausible bug in Update below, used as a mutant: the comparison      *)
(* looks at the major version only.                                       *)
(***************************************************************************)
UpdateMajorOnly(p) ==
    /\ pc[p] = "update"
    /\ Runnable(p)
    /\ aff' = IF resp[p].ver[1] > old[p][1] THEN resp[p].ver ELSE aff
    /\ pc' = [pc EXCEPT ![p] = "idle"]
    /\ \E r \in Decoded(p) : result' = [result EXCEPT ![p] = r]
    /\ applied' = applied \cup {resp[p].ver}
    /\ UNCHANGED <<sent, resp, old, topVer, lastVer>>

\* A plausible bug in Update, used as a mutant: the new version is written
\* without comparing it with the one read.
UpdateUnguarded(p) ==
    /\ pc[p] = "update"
    /\ Runnable(p)
    /\ aff' = resp[p].ver
    /\ pc' = [pc EXCEPT ![p] = "idle"]
    /\ \E r \in Decoded(p) : result' = [result EXCEPT ![p] = r]
    /\ applied' = applied \cup {resp[p].ver}
    /\ UNCHANGED <<sent, resp, old, topVer, lastVer>>

(***************************************************************************)
(* `if new_affinity > old_affinity: conn.client.affinity_version =        *)
(* new_affinity`, compared with the value read in Receive; then the       *)
(* APIResult, the decoded value and post_process_fun as in Receive.        *)
(***************************************************************************)
Update(p) ==
    /\ pc[p] = "update"
    /\ Runnable(p)
    /\ aff' = IF VerGT(resp[p].ver, old[p]) THEN resp[p].ver ELSE aff
    /\ pc' = [pc EXCEPT ![p] = "idle"]
    /\ \E r \in Decoded(p) : result' = [result EXCEPT ![p] = r]
    /\ applied' = applied \cup {resp[p].ver}
    /\ UNCHANGED <<sent, resp, old, topVer, lastVer>>

\* Every caller has performed all its queries: the program has finished.
Terminated ==
    /\ \A p \in Procs : pc[p] = "idle" /\ sent[p] = MaxQueries
    /\ UNCHANGED vars

Next ==
    \/ \E p \in Procs : Send(p) \/ ServerReply(p) \/ Receive(p) \/ Update(p)
    \/ ClusterChange
    \/ Terminated

Spec == Init /\ [][Next]_vars

-----------------------------------------------------------------------------
(***************************************************************************)
(* Properties.                                                             *)
(***************************************************************************)

(***************************************************************************)
(* No lost update (spec sections 3, 5 and 8): once a caller has finished  *)
(* post-processing a response that announced a topology change, the       *)
(* client's affinity_version is at least the version it announced, however *)
(* the callers' read-compare-write sequences in __post_process_response    *)
(* interleave.                                                             *)
(***************************************************************************)
NoLostUpdate ==
    \A v \in applied : VerLE(v, aff)

(***************************************************************************)
(* The client's affinity_version never decreases (spec section 3: the     *)
(* state is monotonic; concurrent updates must never regress it).         *)
(***************************************************************************)
AffinityNeverRegresses ==
    [][VerLE(aff, aff')]_aff

(***************************************************************************)
(* The affinity version is updated transactionally with the decoding of   *)
(* the response (spec sections 1 and 4.4: the response is parsed, fields  *)
(* decoded by their codecs, before the version is replaced): a perform    *)
(* that raises after its request went out leaves the client's             *)
(* affinity_version as it found it.  The code raises the version in       *)
(* __post_process_response and only then calls to_python.                *)
(***************************************************************************)
DecodeFailureLeavesAffinity ==
    [][\A p \in Procs :
          pc[p] # "idle" /\ result'[p] = Raised => aff' = aff]_vars

\* The specification of the affinity version, on the same variables.
Affinity == INSTANCE AffinityVersion

(***************************************************************************)
(* Every step of perform changes affinity_version and the versions        *)
(* applied only as one atomic "raise if greater" with the version its     *)
(* response announced (spec section 9): QueryPerform implements           *)
(* AffinityVersion under the refinement mapping that keeps aff and        *)
(* applied.                                                               *)
(***************************************************************************)
ImplementsAffinity == Affinity!Spec

=============================================================================
