# Verification of the pyignite query/response core

TLA+ models, TLC runs and TLAPS proofs for the protocol core in `src/`:
`pyignite/queries/query.py` (the query orchestrator), `pyignite/api/sql.py`
(the cursor/paging API) and `pyignite/api/binary.py` (binary type registration
and the schema-id hash). `spec.md` describes the intended behaviour.

## 1. Inventory

### Components, their state and their operations

| Component | Source | State | Operations |
|---|---|---|---|
| Query orchestrator | `query.py` `Query.perform`, `perform_async`, `query_perform`, `__post_process_response` | per call: the request stream, the response, the local `old_affinity`; shared: `conn.client.affinity_version` | build request, `conn.request` (the one suspension point), parse, raise affinity if greater, build `APIResult`, decode the value when status is 0, apply `post_process_fun` |
| Request builder | `query.py` `Query.from_python`, `_build_header`, `__write_header`, `ConfigQuery`, `CacheInfo.from_python` | the output stream and its position | reserve header, encode fields, back-patch length; CacheInfo writes cache id and flags and raises `NotSupportedByClusterError` for an unsupported expiry policy |
| Response reader | `pyignite/queries/response.py` (not in `src/`) | none | parse header, flags, affinity version, error or fields |
| Cursor/paging API | `sql.py` `scan`, `sql`, `sql_fields`, `*_cursor_get_page`, `resource_close` | none in the client; the cursor handle and `more` are held by the caller and the cursor by the server | open (handle, first page, `more`), next page by handle, close by handle; post-processing turns a Map into a dict, or StructArray rows into lists, only when status is 0 |
| Type-identity hasher | `binary.py` `put_binary_type` lines 147-167 | none | FNV fold of field ids with 32-bit signed wraparound; 0 for an empty schema |
| Binary type API | `binary.py` `get_binary_type`, `put_binary_type` | none | build and send the type description |

### How the components interact

The API functions of `sql.py` and `binary.py` build a `Query` and call
`query_perform` or `Query.perform`. The orchestrator serialises the request,
calls the connection, and parses the response. It then updates the one piece of
state that outlives a call, the client's `affinity_version`, and builds the
result. Callers drive the cursor protocol across several such calls, keyed by
the server's cursor handle. The server is the other party. It assigns handles,
pages the rows, sets the topology-changed flag, and can fail any request.

### The hard behaviours

* **Concurrency on the shared affinity version.** Several callers share one
  client, each on its own connection. `__post_process_response` reads
  `affinity_version` (line 208), compares it (210) and writes it (211).
  * asyncio tasks cannot be suspended between those lines.
  * Threads using the blocking path can be preempted between them.
* **Out-of-order responses.** Responses on different connections are processed
  in any order, so an older topology version can arrive last.
* **Multi-call protocols.** A cursor is read through one open, several page
  requests and a close. Any of them can fail on the server. The `sql_fields`
  row width is a parameter the caller carries from the first response to the
  later calls.
* **Bit-exact arithmetic.** The schema id wraps to signed 32 bits after every
  multiply.

### What makes each component correct

* Orchestrator:
  * `affinity_version` never regresses, and no announced version is lost.
  * An `APIResult` has a value exactly when its status is 0.
  * Errors come back as results, not exceptions.
* Cursor protocol: the pages concatenate to the query's rows, each row once
  and in order, and the caller stops at `more = false`.
* Request builder:
  * The length prefix equals the frame length minus 4.
  * The correlation id is the one supplied.
  * `config_length` spans the configuration.
* Hasher: equal to the FNV-1a reference fold over the little-endian bytes of
  the field ids, modulo 2^32 and read as signed.

`PROJECT.json` lists the hazards, each at its source line, with the properties
that cover it.

## 2. Modules

| Module | Models | Proofs |
|---|---|---|
| `QueryPerform` (+ `MCQueryPerform`) | the orchestrator and the shared affinity version, under either scheduler (`Cooperative`) | `QueryPerformProofs` |
| `AffinityVersion` | the abstract affinity version: one atomic "raise if greater" per response | refinement proved in `QueryPerformProofs` |
| `CursorProtocol` (+ `MCCursorProtocol`) | the `sql.py` functions, a caller that follows spec 4.5, a server that can fail | `CursorProtocolProofs` (all but the liveness property) |
| `CursorService` | the abstract paged query: rows arrive in order, at most a page at a time, with the end reported at the last row | refinement proved in `CursorProtocolProofs` |
| `RequestFrame` (+ `MCRequestFrame`) | `Query.from_python`, `_build_header`, `__write_header`, `ConfigQuery`, `CacheInfo.from_python` | `RequestFrameProofs` |
| `BinaryType` (+ `MCBinaryType`, which holds the reference) | `put_binary_type` with its FNV schema-id loop, and `get_binary_type` | `BinaryTypeProofs` (type correctness; the schema id itself is model-checked) |

## 3. Modules and how they correspond to the code

### QueryPerform (`query.py`)

Variables:
* `pc[p]`: the caller's place in `perform`: idle, waiting on `conn.request`,
  or between the read and the write of the affinity version.
* `resp[p]`: the parsed response.
* `old[p]`: the local `old_affinity`.
* `result[p]`: the `APIResult`, or the exception.
* `aff`: `conn.client.affinity_version`.
* `applied`: a history of the versions whose post-processing finished.
* The environment: `topVer` is the cluster version and `lastVer[p]` is the
  version the server last reported on p's connection.

Actions:
* `Send` models `from_python` plus the send, and the CacheInfo raise.
* `Receive` covers the parse and the read of `old_affinity`. A response
  without the flag completes here.
* `Update` covers the compare-and-write, then the result and post-processing.
* Both end with `Decoded`: the `APIResult`, or, on status 0, the exception
  `response_struct.to_python` raises when the fields do not decode. The codecs
  are outside `src/`, so the model lets either happen.
* `Runnable` is the scheduler. With `Cooperative` no other task runs while one
  is inside `Update`'s section, because `perform_async` only suspends at
  `await conn.request`.

Environment actions: `ClusterChange` and `ServerReply`.

### CursorProtocol (`sql.py`)

The caller's moves are `Open`, `Fetch`, `Close` and `Leave`. The functions'
decoding is in `OpenDone`, `ScanPageDone`, `FieldsPageDone` and `CloseDone`:

* `QueryResultPostProcess` converts the value only when the status is 0.
* `Columns` is the `StructArray` width built from `field_count`.
* `FieldsRows` and `FieldsMore` say what a page decodes to when that width is
  wrong. Fewer columns give misaligned rows and a `more` read from a type code.
  More columns run past the end of the values and raise.

The server (`ServeOpen`, `ServePage`, `ServeClose`) pages rows 1..NRows and
can fail any request with status 1.

The caller is outside `src/` and follows spec 4.5: it passes
`sql_fields_cursor_get_page` the field count of the open (`fc` is set to
`Width` in `OpenDone`). So the branches of `FieldsRows`, `FieldsMore` and
`FieldsRaises` for a wrong width are reached only through a wrong `Columns`
(`range(field_count)` at sql.py:463), as its mutant shows, never through a
wrong caller.

Besides `PagesExact` and `NoFault`:
* `ImplementsService`: `CursorProtocol` implements `CursorService` under the
  mapping `rows <- got` and `done <- (phase = "drained")`. `Open` is `Start`.
  Decoding a first page (`OpenDone`) or a later one (`ScanPageDone`,
  `FieldsPageDone`) with status 0 is `Deliver`. `Close` or `Leave` of a
  drained cursor is `Stop`. Everything else is a stutter: requests, the
  server's steps, failed answers, and closing a cursor early.

### CursorService (abstract)

Variables `rows[c]` and `done[c]`. `Start(c)` empties the rows. `Deliver(c)`
appends the next k <= PageSize rows and sets `done` exactly when the last row
has arrived. `Stop(c)` ends a finished query. Handles, positions, failures and
the other callers are left out.

### AffinityVersion (abstract)

Variables `aff` and `applied`, one action `RaiseIfGreater(v)`: the version
becomes `v` if greater, and `v` joins `applied`, in one step. `QueryPerform`
instantiates it with the identity mapping (`Affinity == INSTANCE
AffinityVersion`, its `Versions` being the model's version pairs) and states
`ImplementsAffinity == Affinity!Spec`. `Update` is the abstract step; `Send`,
`Receive`, `ServerReply`, `ClusterChange` and `Terminated` are stutters.

### RequestFrame (`query.py`)

The stream is abstracted to its position `pos` and length `len`; a field to
the byte count its codec writes, or to a CacheInfo with or without an expiry
policy on a cluster with or without support.
* `BuildHeader` is `_build_header`: seek past the header (14 bytes, or 18 for a
  ConfigQuery, `HeaderLen`), a zeroed header whose `query_id` is random only
  when none was supplied; for a ConfigQuery `ConfigBuildHeader` then sets
  `config_length = header.length - 18` while `length` is still 0.
* `WriteField` is one iteration of the fields loop; `WriteCacheInfo` writes the
  cache id and raises `NotSupportedByClusterError` for an unsupported policy.
* `WriteHeader` is `__write_header`: `PatchedLength` (`tell() - init_pos - 4`),
  seek back, write the header; `out` is the frame `perform` sends.

### BinaryType (`binary.py`)

`Prepare` is `put_binary_type` up to the loop (enum: `schema_id` stays None;
otherwise the offset basis, or 0 for an empty schema). `HashField` is one
iteration: `FieldStep` XORs each of the four bytes of the field id, low byte
first, and multiplies by the FNV prime with `int_overflow`. TLC's integers are
32-bit, so `MulPrime` computes the wrapped product on 16-bit limbs and the
accumulator is kept signed. `Perform` sends the query and fills the result's
value on status 0. `GetBinaryType` raises: line 52 passes a dict where
`from_python` expects a stream. Python's `^=` is `XorByte`: the low byte is
replaced by `ByteXor`, the XOR computed bit by bit with `\div` and `%`, so
that the module needs no `Bitwise` and the prover can reason about it. In
`MCBinaryType` the assumption `ByteXorIsXor`, evaluated by TLC on every run,
checks that `ByteXor` equals `Bitwise`'s `^^` on all 65536 pairs of bytes.
The reference `RefSchemaId`, in `MCBinaryType`, is FNV over the
field ids' little-endian byte string with unsigned schoolbook multiplication
on four bytes, read as signed at the end.

## 4. Runs

| Run | Checks | Bounds | Shows |
|---|---|---|---|
| `async_no_lost_update` | TypeOK, NoLostUpdate, ImplementsAffinity, AffinityNeverRegresses | 3 tasks, 2 queries each, topology up to (2,1) | asyncio callers never lose or undo an update, whatever order the responses arrive in; no step lowers `affinity_version`; perform implements `AffinityVersion` |
| `threads_affinity_regresses` (violation) | AffinityNeverRegresses | 2 threads, 2 queries each | the blocking path from threads lets `affinity_version` go back: the finding below |
| `decode_failure_after_update` (violation) | DecodeFailureLeavesAffinity | 2 tasks, 1 query each | a call that raises in `to_python` has already raised `affinity_version`: the finding below |
| `cursor_paging` | TypeOK, PagesExact, NoFault, ImplementsService | 2 callers, 2 queries each, 5 rows, page size 2, width 2 | every page sequence of scan, sql and sql_fields cursors yields the rows once and in order; server errors are results; the protocol implements `CursorService` |
| `cursor_liveness` | QueryCompletes, under `LiveSpec` | 2 callers, 1 query each, 5 rows, page size 2 | every query a caller opens ends with the caller idle again: it drains the cursor or closes it |
| `binary_schema_id` | TypeOK, SchemaIdMatchesReference | up to 3 fields from {0, 255, -1, 2^31-1, -2^31, 97} | the schema id is bit-exact with FNV: byte order, field order, wraparound, empty schema, and it is the value returned |
| `binary_enum_schema_id` (violation) | EnumSchemaIdZero | as above | an enum's schema id is None, the spec says 0 |
| `binary_get_raises` (violation) | GetBinaryTypeAnswers | as above | `get_binary_type` raises |
| `request_frame_length` | TypeOK, FrameLengthCorrect | up to 2 fields of 1 or 4 bytes or CacheInfo (policy of 24 bytes, supported or not), query and config query | the back-patched length is always the frame size minus 4 |
| `request_query_id` (violation) | QueryIdSent | as above, supplied id 5 | a supplied `query_id` is not sent: the header carries 0 |
| `request_config_query` (violation) | ConfigLengthSpansBody | as above | ConfigQuery sends `config_length = -18` |

The async run also checks `ImplementsAffinity` as a PROPERTY: with asyncio
tasks `perform` implements the abstract `AffinityVersion`.

**Why the bounds are enough.**
* Affinity runs:
  * Three tasks let a task's response be overtaken by two others.
  * Two topology steps give both a major and a minor change, so the tuple
    comparison is exercised.
  * Two queries per caller let a caller see the flag both set and clear.
* Cursor run: 5 rows in pages of 2 is the scenario of spec section 8.
  * It has a full page, a second full page, and a short last page with
    `more = false`.
  * Two callers keep two cursors live at once.
  * A second query per caller opens a new handle after close or drain.
* Each property is broken by its mutant within these bounds (listed in
  PROJECT.json).

* Liveness run: one query per caller keeps the state space small for the
  temporal check (with two it takes close to three minutes); the cursor paths
  (drain, close early, server error) all occur with one query. A wrong
  width does not occur: the caller passes the width of the open.
* Schema-id run: the field ids are the boundaries of the byte arithmetic: 0,
  one full low byte, all-ones (-1), the largest and the smallest int, and a
  typical id. Up to 3 fields exercise the field order and repeated wraps.
* Request run: sizes 1 and 4 give distinct frame sizes; CacheInfo covers the
  raise after 4 bytes, and the policy payload.

**Fairness (liveness run).** `LiveSpec` adds weak fairness per caller of:
* the server's answers (`ServeOpen`, `ServePage`, `ServeClose`), because
  `conn.request` blocks until the response arrives;
* the caller's decoding of a returned call (`OpenDone`, `ScanPageDone`,
  `FieldsPageDone`, `CloseDone`), which is ordinary code after the call;
* the caller's next move while it holds a cursor (`Fetch`, `Close`, `Leave`),
  which is spec 4.5's reading loop.

Opening a query is not assumed fair: callers may stop.

**Deadlock checking.** Deadlock is checked. The only terminal states are those
where every caller has done all its queries; the `Terminated` step marks them.

## 5. Findings

1. **Affinity version regresses under threads** (`threads_affinity_regresses`).
   `__post_process_response` reads `affinity_version` at line 208 and writes it
   at line 211, and takes no lock. Suppose two threads use the blocking path on
   one client: both read (0,0), one writes (2,0), the other writes (1,0). The
   version has gone back. Spec sections 3 and 5 require a single atomic
   "raise if greater". The asyncio path is safe: it is proved.
2. **A failed decode has already changed the affinity version**
   (`decode_failure_after_update`). `perform` calls
   `__post_process_response` (query.py:164), which raises
   `affinity_version`, and only then decodes the fields with
   `response_struct.to_python` (line 167). If the codecs raise, the call
   fails but the shared version has moved. Spec section 1 asks for the
   version to be updated transactionally with the decoding, and section 4.4
   parses the response before replacing the version.
3. **Supplied `query_id` is dropped** (`request_query_id`). `_build_header`
   (query.py:129) sets `header.query_id` only when `self.query_id` is None, so
   a supplied id is never written and the frame carries 0.
4. **`config_length` is -18** (`request_config_query`).
   `ConfigQuery._build_header` (query.py:243) computes it from `header.length`
   before `__write_header` has set it, and nothing patches it later.
5. **Enum schema id is None** (`binary_enum_schema_id`). For `is_enum`,
   `put_binary_type` (binary.py:138) never sets `schema_id`, and sends and
   returns None; the spec says 0.
6. **`get_binary_type` raises** (`binary_get_raises`). Line 52 passes the
   values dict as the stream; `from_python`'s `stream.tell()` raises
   `AttributeError`. The remaining lines (55-102) use an older connection API
   and are unreachable.

## 6. What is proved

`QueryPerformProofs` (TLAPS, all obligations checked):

* `TypeCorrect`: `Spec => []TypeOK`, for every set of callers and every bound.
  * The lemmas `CompleteTyped` and `DecodedTyped` show that a completed call
    builds an `APIResult` with a value exactly when its status is 0, or
    raises.
  * The lemma `TypeOKStep` is the inductive step.
* `CooperativeNoLostUpdate`: if `Cooperative` holds, `Spec => []NoLostUpdate`.
  * `NoLostUpdate` alone is not inductive. A task between its read and its
    write must see a value that is still current.
  * The inductive invariant `IInv` adds `SingleUpdater` (at most one task in
    that section) and `ReadIsCurrent` (its `old_affinity` equals `aff`).
  * Both follow from `Runnable`. With them, `Update` sets `aff` to the greater
    of `aff` and the response's version.
  * The lemmas `RaiseBounds` and `LETransitive` on the tuple order then finish
    the step.
* `CooperativeImplementsAffinity`: if `Cooperative` holds,
  `Spec => ImplementsAffinity`. The initial state maps to the abstract one;
  by `IInv`, `Update` is `RaiseIfGreater(resp[p].ver)` because `ReadIsCurrent`
  makes the task's `old_affinity` the current version, and every other step
  leaves `aff` and `applied` unchanged. `IInvInit` and `IInvStep` are the
  lemmas shared with `CooperativeNoLostUpdate`.
* `CooperativeNeverRegresses`: if `Cooperative` holds,
  `Spec => AffinityNeverRegresses`, the action property that no step lowers
  `affinity_version`. The lemma `NeverRegressesStep` shows it of every step
  under `IInv`: by `ReadIsCurrent`, `Update` writes the greater of the current
  version and the response's (`RaiseBounds`), and no other action writes
  `aff`. The same property fails for threads (`threads_affinity_regresses`).
* The assumption used is `ConstantsAssumption`: the booleans are booleans and
  the bounds are naturals.

`RequestFrameProofs` (all obligations checked):

* `TypeCorrect` and `FrameCorrect`: `Spec => []TypeOK` and
  `Spec => []FrameLengthCorrect`, for any fields, field sizes and query ids.
* `FrameLengthCorrect` alone says nothing before the frame is written. The
  invariant `IInv` adds what the fields loop keeps:
  * `StreamAtEnd`: the position is past the reserved header. The stream either
    ends at the position or is still empty, because the header was only seeked
    over.
  * `NothingSentYet`: the state before `_build_header`.
* With `IInv`, `__write_header`'s `max(tell, header)` is the position, so the
  patched length is the size minus 4. The lemma `WriteAppends` covers one
  write.

`CursorProtocolProofs` (all obligations checked):

* `TypeCorrect` and `NoFaultHolds`: `Spec => []TypeOK` and
  `Spec => []NoFault`.
  * `NoFault` needs `FcWidth`: the `field_count` a caller passes for its next
    page is the width the open returned.
  * With `FcWidth`, `FieldsAtWidth` shows that a page decodes to its rows with
    its own `more`.
* `PagesExactHolds`: `Spec => []PagesExact`. `PagesExact` is not inductive:
  whether the next page continues a caller's rows depends on the server's
  cursor, the request in flight and the answer waiting. The inductive
  invariant `IInv` adds:
  * `CallerOK(c)`, per phase of the caller:
    * what it has sent and what may be waiting for it;
    * that the server's cursor stands at the number of rows the caller has
      (`CursorAt`);
    * that a waiting status-0 answer `Continues` those rows, with `more`
      true exactly when rows remain.
  * `HandlesDistinct`: no two callers hold the same handle, so a page or
    close request by one caller never moves another caller's cursor.
  * `FcWidth`.

  `IInvStep` has one lemma per action (`OpenKeeps` ... `ServeCloseKeeps`).
  The caller-independent facts are the lemmas `CallerStep`,
  `ServerTouchesOne`, `DistinctFresh`, `AnsweredOK`, `ContinuesOK`,
  `RunConcat` and `LastPageEnds`. TLC also checked `IInv` as an invariant on
  3 callers and 4 rows before it was proved.
* `ImplementsServiceHolds`: `Spec => ImplementsService`. The initial states
  map to `CursorService!Init`. `ServiceStep` shows that every step under
  `IInv` is a `Start`, a `Deliver`, a `Stop` or a stutter. `DeliverStep`
  uses the `Continues` clause of `IInv`: the rows delivered are the next ones,
  and `done` is set exactly at the last row.
* The assumption `CursorAssumption` is used:
  * `Callers` is finite, so the number of handles `MaxId` is a natural.
  * `NRows` and `MaxQueries` are naturals.
  * `PageSize` and `Width` are positive.

`BinaryTypeProofs` (all obligations checked):

* `TypeCorrect`: `Spec => []TypeOK`, for every set of signed 32-bit field ids
  and every bound on the schema's length. In particular the schema id the
  loop computes is signed 32-bit, and the value returned on status 0 is that
  id, or None for an enum (finding 5).
  * `TypeOK` is not inductive: it allows `HashField` on a None schema id. The
    inductive invariant `IInv` adds that in the loop the schema id is a
    signed 32-bit integer; TLC checked `IInv` on the `binary_schema_id`
    instance before it was proved.
  * The lemmas on the arithmetic: `MulPrimeInt32` (the wrapped product is
    signed 32-bit for any integer), `ByteInt`, `XorByteInt`, `ByteStepInt32`
    and `FieldStepInt32` (one iteration maps any integer to a signed 32-bit
    one).
* The assumption `BinaryTypeAssumption` is used: field ids are signed 32-bit,
  `MaxFields` is a natural, and None is not an integer.

Only model-checked:
* The liveness property `QueryCompletes` of the cursor protocol.
* That the schema id equals the FNV reference (`SchemaIdMatchesReference`).
  The reference in `MCBinaryType` uses `Bitwise` and a recursive function
  over the byte string, and what the loop computes for every schema is
  induction over data, beyond the prover. `ByteXorIsXor` is likewise checked
  by TLC on all bytes.
* Everything about the threaded scheduler: there it is a violation, not a
  theorem.

Liveness, ENABLED and induction over data are beyond the prover and stay with
TLC.

## 7. Not modelled

* The response parser and the codecs (`pyignite/queries/response.py`,
  `pyignite/datatypes`) are outside `src/`. Their outcome is the response
  record the environment produces.
* Transport, handshake, reconnection and the high-level Cache/Cursor classes
  are outside `src/`. The cursor caller follows spec 4.5.
* `entity_id` (the hash of a name, `pyignite/utils`) is outside `src/`: field
  ids are inputs to the schema-id model.
* Which status-0 payloads fail to decode is decided by the codecs outside
  `src/`; the model lets any of them fail (`Decoded`).
