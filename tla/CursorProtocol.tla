-------------------------- MODULE CursorProtocol --------------------------
(***************************************************************************)
(* The cursor/paging protocol of pyignite/api/sql.py.  A caller opens a   *)
(* query (scan, the deprecated sql, or sql_fields), receives a cursor      *)
(* handle with the first page and the `more` flag, fetches further pages  *)
(* with *_cursor_get_page while `more` is true, and may release the       *)
(* cursor with resource_close.                                            *)
(*                                                                         *)
(* Each API function is one request/response exchange through             *)
(* query_perform (QueryPerform models that exchange and its shared        *)
(* affinity state; here each exchange is a request step and a response    *)
(* step).  What this module keeps of each function is the decoding of the *)
(* response and its post-processing: key-value pages (scan, sql) decode   *)
(* as a Map and are turned into a dict when the status is 0; sql_fields   *)
(* pages decode as a StructArray whose row width is the field_count the   *)
(* caller passes in.                                                      *)
(*                                                                         *)
(* The caller (the Cursor classes of pyignite, outside this repository)   *)
(* follows the policy of the spec, section 4.5: it stops fetching once    *)
(* `more` is false and may close the cursor early or after the last page. *)
(* The server is the environment: it pages the rows of a cache, frees a   *)
(* cursor once it is closed, and may fail any request with a non-zero     *)
(* status.  The rows of the cache are 1..NRows; a row of a fields query   *)
(* has Width columns.                                                     *)
(***************************************************************************)
EXTENDS Integers, Sequences, FiniteSets

CONSTANTS
    Callers,     \* concurrent callers, each with its own cursor
    NRows,       \* rows in the queried cache
    PageSize,    \* page_size of the query
    Width,       \* columns of a sql_fields row
    MaxQueries,  \* queries a caller opens, bound of the model
    Garbled      \* a row decoded from the wrong bytes

ASSUME CursorAssumption ==
    /\ IsFiniteSet(Callers)
    /\ NRows \in Nat
    /\ PageSize \in Nat \ {0}
    /\ Width \in Nat \ {0}
    /\ MaxQueries \in Nat
    /\ Garbled \notin Nat

VARIABLES
    phase,    \* phase[c]: where caller c is in its query
    kind,     \* kind[c]: "scan", "sql" or "fields"
    cur,      \* cur[c]: the cursor handle c holds, 0 before it has one
    fc,       \* fc[c]: field_count c passes to sql_fields_cursor_get_page
    got,      \* got[c]: the rows c has received, in order
    res,      \* res[c]: the result of c's last API call
    opened,   \* opened[c]: queries c has opened
    req,      \* req[c]: the request c has sent and not had answered
    rsp,      \* rsp[c]: the server's answer to req[c]
    cursors,  \* server: cursors[id] = [pos, state] for ids issued so far
    nextId    \* server: the next cursor handle

vars == <<phase, kind, cur, fc, got, res, opened, req, rsp, cursors, nextId>>

Kinds == {"scan", "sql", "fields"}

Phases == {"idle", "opening", "reading", "fetching", "drained", "closing"}

MaxId == Cardinality(Callers) * MaxQueries

NoReq == [op |-> "none", kind |-> "scan", cursor |-> 0]

Request == [op : {"open", "page", "close"}, kind : Kinds, cursor : 0..MaxId]

NoRsp == [status |-> -1, cursor |-> 0, rows |-> <<>>, more |-> FALSE]

\* A response: status, the cursor of an open, a page of rows and `more`.
Page == UNION {[1..n -> 1..NRows] : n \in 0..PageSize}

Response == [status : {0, 1}, cursor : 0..MaxId, rows : Page,
             more : BOOLEAN]

\* What an API call returned: an APIResult, or an exception it raised.
NoRes == [status |-> -1, hasValue |-> FALSE]

Raised == [status |-> -2, hasValue |-> FALSE]

Result == {[status |-> s, hasValue |-> s = 0] : s \in {0, 1}}
              \cup {NoRes, Raised}

TypeOK ==
    /\ phase \in [Callers -> Phases]
    /\ kind \in [Callers -> Kinds]
    /\ cur \in [Callers -> 0..MaxId]
    /\ fc \in [Callers -> Nat]
    /\ got \in [Callers -> Seq(1..NRows \cup {Garbled})]
    /\ res \in [Callers -> Result]
    /\ opened \in [Callers -> 0..MaxQueries]
    /\ req \in [Callers -> Request \cup {NoReq}]
    /\ rsp \in [Callers -> Response \cup {NoRsp}]
    /\ nextId \in 1..MaxId + 1
    /\ cursors \in [1..nextId - 1 -> [pos : 0..NRows,
                                      state : {"open", "closed"}]]

Init ==
    /\ phase = [c \in Callers |-> "idle"]
    /\ kind = [c \in Callers |-> "scan"]
    /\ cur = [c \in Callers |-> 0]
    /\ fc = [c \in Callers |-> 0]
    /\ got = [c \in Callers |-> <<>>]
    /\ res = [c \in Callers |-> NoRes]
    /\ opened = [c \in Callers |-> 0]
    /\ req = [c \in Callers |-> NoReq]
    /\ rsp = [c \in Callers |-> NoRsp]
    /\ cursors = <<>>
    /\ nextId = 1

-----------------------------------------------------------------------------
(***************************************************************************)
(* Decoding and post-processing, one operator per API function.           *)
(***************************************************************************)

\* A plausible bug, used as a mutant of PerformResult: the value is decoded
\* whatever the status.
PerformResultAlwaysValue(status) ==
    [status |-> status, hasValue |-> TRUE]

\* Query.perform: the APIResult gets a value only when the status is 0.
PerformResult(status) ==
    [status |-> status, hasValue |-> status = 0]

\* A plausible bug, used as a mutant of QueryResultPostProcess: the status
\* check is dropped, and dict(None) raises TypeError on an error result.
QueryResultPostProcessUnguarded(status) ==
    IF status = 0 THEN PerformResult(status) ELSE Raised

\* __query_result_post_process, and the same lines inlined in sql and
\* sql_cursor_get_page: only when the status is 0 is the decoded value
\* rebuilt as a dict; an error result passes through untouched.
QueryResultPostProcess(status) ==
    IF status = 0 THEN [status |-> 0, hasValue |-> TRUE]
    ELSE PerformResult(status)

\* A plausible bug, used as a mutant of Columns: range(field_count - 1).
ColumnsShort(field_count) ==
    0..(field_count - 2)

\* The columns field_0 .. field_{field_count-1} of the StructArray that
\* __sql_fields_cursor_get_page declares for a row.
Columns(field_count) ==
    0..(field_count - 1)

\* Decoding a sql_fields page with the columns cols.  On the wire a page
\* holds its row count and then Width typed values per row.  With Width
\* columns the rows come out as sent.  With fewer, each row takes the next
\* values left, so the rows are cut from the wrong places, and `more` is
\* read from the type code of the next value, which is non-zero.  With
\* more, the decoder runs past the end of the values and raises.  An empty
\* page decodes alike for every row width.
FieldsRows(rows, cols) ==
    IF Cardinality(cols) = Width \/ rows = <<>> THEN rows
    ELSE [i \in DOMAIN rows |-> Garbled]

\* A plausible bug, used as a mutant of FieldsMore: the post-processing
\* reports `more` as true whatever the page said.
FieldsMoreStuck(rows, more, cols) ==
    TRUE

FieldsMore(rows, more, cols) ==
    IF Cardinality(cols) = Width \/ rows = <<>> THEN more ELSE TRUE

FieldsRaises(rows, cols) ==
    Cardinality(cols) > Width /\ rows # <<>>

-----------------------------------------------------------------------------
(***************************************************************************)
(* The caller: opening a query.  __scan / sql / __sql_fields build the     *)
(* request and send it through query_perform.                             *)
(***************************************************************************)
Open(c) ==
    /\ phase[c] = "idle"
    /\ opened[c] < MaxQueries
    /\ \E k \in Kinds :
          /\ kind' = [kind EXCEPT ![c] = k]
          /\ req' = [req EXCEPT ![c] = [op |-> "open", kind |-> k,
                                        cursor |-> 0]]
    /\ phase' = [phase EXCEPT ![c] = "opening"]
    /\ opened' = [opened EXCEPT ![c] = @ + 1]
    /\ got' = [got EXCEPT ![c] = <<>>]
    /\ cur' = [cur EXCEPT ![c] = 0]
    /\ UNCHANGED <<fc, res, rsp, cursors, nextId>>

\* The response to an open: cursor, first page and `more`.  For sql_fields
\* the response carries the field count, which the caller keeps for the
\* following pages.  A failed open leaves the caller without a cursor.
OpenDone(c) ==
    /\ phase[c] = "opening"
    /\ rsp[c] # NoRsp
    /\ res' = [res EXCEPT ![c] =
                  IF kind[c] = "fields" THEN PerformResult(rsp[c].status)
                  ELSE QueryResultPostProcess(rsp[c].status)]
    /\ IF rsp[c].status = 0
       THEN /\ cur' = [cur EXCEPT ![c] = rsp[c].cursor]
            /\ got' = [got EXCEPT ![c] = rsp[c].rows]
            /\ fc' = [fc EXCEPT ![c] = Width]
            /\ phase' = [phase EXCEPT ![c] =
                            IF rsp[c].more THEN "reading" ELSE "drained"]
       ELSE /\ phase' = [phase EXCEPT ![c] = "idle"]
            /\ UNCHANGED <<cur, got, fc>>
    /\ req' = [req EXCEPT ![c] = NoReq]
    /\ rsp' = [rsp EXCEPT ![c] = NoRsp]
    /\ UNCHANGED <<kind, opened, cursors, nextId>>

\* scan_cursor_get_page, sql_cursor_get_page or
\* sql_fields_cursor_get_page(cursor, field_count): the request carries
\* only the cursor handle.
Fetch(c) ==
    /\ phase[c] = "reading"
    /\ req' = [req EXCEPT ![c] = [op |-> "page", kind |-> kind[c],
                                  cursor |-> cur[c]]]
    /\ phase' = [phase EXCEPT ![c] = "fetching"]
    /\ UNCHANGED <<kind, cur, fc, got, res, opened, rsp, cursors, nextId>>

\* A page of sql_cursor_get_page decoded with its `more` flag ignored.
ScanPageDoneIgnoresMore(c) ==
    /\ phase[c] = "fetching"
    /\ kind[c] \in {"scan", "sql"}
    /\ rsp[c] # NoRsp
    /\ res' = [res EXCEPT ![c] = QueryResultPostProcess(rsp[c].status)]
    /\ IF rsp[c].status = 0
       THEN /\ got' = [got EXCEPT ![c] = @ \o rsp[c].rows]
            /\ phase' = [phase EXCEPT ![c] = "reading"]
       ELSE /\ phase' = [phase EXCEPT ![c] = "idle"]
            /\ UNCHANGED got
    /\ req' = [req EXCEPT ![c] = NoReq]
    /\ rsp' = [rsp EXCEPT ![c] = NoRsp]
    /\ UNCHANGED <<kind, cur, fc, opened, cursors, nextId>>

\* The response to a page request, decoded by the function that sent it.
ScanPageDone(c) ==
    /\ phase[c] = "fetching"
    /\ kind[c] \in {"scan", "sql"}
    /\ rsp[c] # NoRsp
    /\ res' = [res EXCEPT ![c] = QueryResultPostProcess(rsp[c].status)]
    /\ IF rsp[c].status = 0
       THEN /\ got' = [got EXCEPT ![c] = @ \o rsp[c].rows]
            /\ phase' = [phase EXCEPT ![c] =
                            IF rsp[c].more THEN "reading" ELSE "drained"]
       ELSE /\ phase' = [phase EXCEPT ![c] = "idle"]
            /\ UNCHANGED got
    /\ req' = [req EXCEPT ![c] = NoReq]
    /\ rsp' = [rsp EXCEPT ![c] = NoRsp]
    /\ UNCHANGED <<kind, cur, fc, opened, cursors, nextId>>

FieldsPageDone(c) ==
    /\ phase[c] = "fetching"
    /\ kind[c] = "fields"
    /\ rsp[c] # NoRsp
    /\ LET r == rsp[c]
           cols == Columns(fc[c])
       IN
       IF r.status = 0 /\ FieldsRaises(r.rows, cols)
       THEN /\ res' = [res EXCEPT ![c] = Raised]
            /\ phase' = [phase EXCEPT ![c] = "idle"]
            /\ UNCHANGED got
       ELSE /\ res' = [res EXCEPT ![c] = PerformResult(r.status)]
            /\ IF r.status = 0
               THEN /\ got' = [got EXCEPT ![c] =
                                  @ \o FieldsRows(r.rows, cols)]
                    /\ phase' = [phase EXCEPT ![c] =
                                    IF FieldsMore(r.rows, r.more, cols)
                                    THEN "reading" ELSE "drained"]
               ELSE /\ phase' = [phase EXCEPT ![c] = "idle"]
                    /\ UNCHANGED got
    /\ req' = [req EXCEPT ![c] = NoReq]
    /\ rsp' = [rsp EXCEPT ![c] = NoRsp]
    /\ UNCHANGED <<kind, cur, fc, opened, cursors, nextId>>

\* resource_close(cursor): early, while more pages remain, or after the
\* last page (unnecessary but allowed).
Close(c) ==
    /\ phase[c] \in {"reading", "drained"}
    /\ req' = [req EXCEPT ![c] = [op |-> "close", kind |-> kind[c],
                                  cursor |-> cur[c]]]
    /\ phase' = [phase EXCEPT ![c] = "closing"]
    /\ UNCHANGED <<kind, cur, fc, got, res, opened, rsp, cursors, nextId>>

\* resource_close has no post-processing: the APIResult is returned as is.
CloseDone(c) ==
    /\ phase[c] = "closing"
    /\ rsp[c] # NoRsp
    /\ res' = [res EXCEPT ![c] = PerformResult(rsp[c].status)]
    /\ phase' = [phase EXCEPT ![c] = "idle"]
    /\ req' = [req EXCEPT ![c] = NoReq]
    /\ rsp' = [rsp EXCEPT ![c] = NoRsp]
    /\ UNCHANGED <<kind, cur, fc, got, opened, cursors, nextId>>

\* After the last page the caller may also leave the cursor to the server.
Leave(c) ==
    /\ phase[c] = "drained"
    /\ phase' = [phase EXCEPT ![c] = "idle"]
    /\ UNCHANGED <<kind, cur, fc, got, res, opened, req, rsp, cursors,
                   nextId>>

-----------------------------------------------------------------------------
(***************************************************************************)
(* The server.  A page holds the rows after the cursor's position, at     *)
(* most PageSize of them; `more` says whether rows remain.  Any request   *)
(* may fail with status 1 (a query error, a timeout, a lost node).        *)
(***************************************************************************)
PageFrom(pos) ==
    LET hi == IF pos + PageSize < NRows THEN pos + PageSize ELSE NRows
    IN  [i \in 1..(hi - pos) |-> pos + i]

\* The answer to a request that carries no cursor, rows or flag.
Answer(status) ==
    [status |-> status, cursor |-> 0, rows |-> <<>>, more |-> FALSE]

Fail(c) ==
    rsp' = [rsp EXCEPT ![c] = Answer(1)]

ServeOpen(c) ==
    /\ req[c].op = "open"
    /\ rsp[c] = NoRsp
    /\ \/ /\ nextId <= MaxId
          /\ LET page == PageFrom(0) IN
             /\ cursors' = [i \in 1..nextId |->
                              IF i = nextId
                              THEN [pos |-> Len(page), state |-> "open"]
                              ELSE cursors[i]]
             /\ rsp' = [rsp EXCEPT ![c] =
                          [status |-> 0, cursor |-> nextId, rows |-> page,
                           more |-> Len(page) < NRows]]
          /\ nextId' = nextId + 1
       \/ /\ Fail(c)
          /\ UNCHANGED <<cursors, nextId>>
    /\ UNCHANGED <<phase, kind, cur, fc, got, res, opened, req>>

ServePage(c) ==
    /\ req[c].op = "page"
    /\ rsp[c] = NoRsp
    /\ LET id == req[c].cursor IN
       \/ /\ id \in DOMAIN cursors
          /\ cursors[id].state = "open"
          /\ LET page == PageFrom(cursors[id].pos) IN
             /\ cursors' = [cursors EXCEPT ![id].pos = @ + Len(page)]
             /\ rsp' = [rsp EXCEPT ![c] =
                          [status |-> 0, cursor |-> 0, rows |-> page,
                           more |-> cursors[id].pos + Len(page) < NRows]]
       \/ /\ Fail(c)
          /\ UNCHANGED cursors
    /\ UNCHANGED <<phase, kind, cur, fc, got, res, opened, req, nextId>>

ServeClose(c) ==
    /\ req[c].op = "close"
    /\ rsp[c] = NoRsp
    /\ LET id == req[c].cursor IN
       \/ /\ id \in DOMAIN cursors
          /\ cursors[id].state = "open"
          /\ cursors' = [cursors EXCEPT ![id].state = "closed"]
          /\ rsp' = [rsp EXCEPT ![c] = Answer(0)]
       \/ /\ Fail(c)
          /\ UNCHANGED cursors
    /\ UNCHANGED <<phase, kind, cur, fc, got, res, opened, req, nextId>>

Terminated ==
    /\ \A c \in Callers : phase[c] = "idle" /\ opened[c] = MaxQueries
    /\ UNCHANGED vars

Next ==
    \/ \E c \in Callers :
          \/ Open(c) \/ OpenDone(c) \/ Fetch(c) \/ ScanPageDone(c)
          \/ FieldsPageDone(c) \/ Close(c) \/ CloseDone(c) \/ Leave(c)
          \/ ServeOpen(c) \/ ServePage(c) \/ ServeClose(c)
    \/ Terminated

Spec == Init /\ [][Next]_vars

(***************************************************************************)
(* Fairness.  The server answers every request: conn.request blocks until *)
(* the response arrives (a lost connection raises, which is not modelled).*)
(* A caller whose call has returned goes on decoding it.  A caller that   *)
(* holds a cursor follows spec 4.5: it fetches the next page or closes,   *)
(* and after the last page closes the cursor or leaves it.  Opening is    *)
(* the caller's choice and is not assumed.                                *)
(***************************************************************************)
Fairness ==
    \A c \in Callers :
        /\ WF_vars(ServeOpen(c) \/ ServePage(c) \/ ServeClose(c))
        /\ WF_vars(OpenDone(c) \/ ScanPageDone(c) \/ FieldsPageDone(c)
                   \/ CloseDone(c))
        /\ WF_vars(Fetch(c) \/ Close(c) \/ Leave(c))

LiveSpec == Spec /\ Fairness

-----------------------------------------------------------------------------
(***************************************************************************)
(* Properties.                                                             *)
(***************************************************************************)

(***************************************************************************)
(* Paged results are complete and exact (spec section 8, the page-size    *)
(* scenario): the rows a caller has gathered from the first page and the  *)
(* *_cursor_get_page calls are the cache's rows from the first on, each    *)
(* once and in order; once `more` is false, they are all of them.         *)
(***************************************************************************)
PagesExact ==
    \A c \in Callers :
        /\ got[c] = [i \in 1..Len(got[c]) |-> i]
        /\ phase[c] = "drained" => Len(got[c]) = NRows

(***************************************************************************)
(* Errors are results, not faults (spec section 7): no API call of a      *)
(* correct caller raises, whatever status the server returns.             *)
(***************************************************************************)
NoFault ==
    \A c \in Callers : res[c] # Raised

\* The promise of a paged query, seen through what each caller holds: its
\* rows, and whether it has been told that none remain.
Service == INSTANCE CursorService
               WITH rows <- got,
                    done <- [c \in Callers |-> phase[c] = "drained"]

(***************************************************************************)
(* The cursor protocol implements the paged-query service (spec sections  *)
(* 4.5 and 8): every first page of scan/sql/sql_fields and every          *)
(* *_cursor_get_page a caller decodes hands it the next rows of the cache *)
(* in order, no more than a page and none past the end, and the caller    *)
(* sees `more` false exactly with the last row, whatever other callers do *)
(* with their cursors and whichever requests fail.                        *)
(***************************************************************************)
ImplementsService == Service!Spec

(***************************************************************************)
(* Every query a caller opens comes to an end: the caller is idle again   *)
(* after the open fails, after it closes the cursor or after the page     *)
(* with `more` false.  It fails if a decoded `more` never turns false,    *)
(* or a response is never decoded.                                        *)
(***************************************************************************)
QueryCompletes ==
    \A c \in Callers : phase[c] = "opening" ~> phase[c] = "idle"

=============================================================================
