----------------------- MODULE CursorProtocolProofs -----------------------
(***************************************************************************)
(* Proofs about CursorProtocol for every set of callers, row count, page   *)
(* size, row width and number of queries.                                 *)
(*                                                                         *)
(* PagesExact is not inductive: whether the next page continues the rows  *)
(* a caller holds depends on the server's cursor, on the request the      *)
(* caller has sent and on the answer waiting for it.  The strengthening   *)
(* CallerOK says, per phase of the caller, what it has sent, what may be  *)
(* waiting for it and where its cursor on the server stands: the cursor's *)
(* position is the number of rows the caller has, or will have once it    *)
(* has decoded the page waiting for it.  HandlesDistinct says that no two *)
(* callers hold the same handle, so that one caller's page or close       *)
(* request never moves another caller's cursor.  NoFault needs FcWidth:   *)
(* the field_count a caller passes for its next page is the width the     *)
(* open returned.                                                          *)
(***************************************************************************)
EXTENDS CursorProtocol, FiniteSetTheorems, TLAPS

\* The rows n + 1, n + 2, ... in order.
IsRun(rows, n) == rows = [i \in 1..Len(rows) |-> n + i]

\* The server holds cursor id open at position n.
CursorAt(id, n) ==
    id \in DOMAIN cursors /\ cursors[id] = [pos |-> n, state |-> "open"]

\* The answer to an open or page request that continues n rows: a failure,
\* or the next rows, with the cursor past them and `more` true exactly when
\* rows remain.
Continues(r, id, n) ==
    \/ r.status = 1
    \/ /\ r.status = 0
       /\ IsRun(r.rows, n)
       /\ CursorAt(id, n + Len(r.rows))
       /\ n + Len(r.rows) <= NRows
       /\ (r.more <=> (n + Len(r.rows) < NRows))

\* The phases in which a caller holds a cursor handle.
Holding == {"reading", "fetching", "drained", "closing"}

\* The cursor handle caller c holds or is about to receive, 0 for none.
Holds(c) ==
    IF phase[c] \in Holding THEN cur[c]
    ELSE IF phase[c] = "opening" /\ rsp[c] # NoRsp /\ rsp[c].status = 0
         THEN rsp[c].cursor
         ELSE 0

CallerOK(c) ==
    /\ IsRun(got[c], 0)
    /\ phase[c] \in Holding => cur[c] \in DOMAIN cursors
    /\ phase[c] = "drained" => Len(got[c]) = NRows
    /\ phase[c] \in {"idle", "reading", "drained"} =>
          req[c] = NoReq /\ rsp[c] = NoRsp
    /\ phase[c] \in {"reading", "drained"} => CursorAt(cur[c], Len(got[c]))
    /\ phase[c] = "opening" =>
          /\ got[c] = <<>>
          /\ req[c] = [op |-> "open", kind |-> kind[c], cursor |-> 0]
          /\ rsp[c] # NoRsp => Continues(rsp[c], rsp[c].cursor, 0)
    /\ phase[c] = "fetching" =>
          /\ req[c] = [op |-> "page", kind |-> kind[c], cursor |-> cur[c]]
          /\ rsp[c] = NoRsp => CursorAt(cur[c], Len(got[c]))
          /\ rsp[c] # NoRsp => Continues(rsp[c], cur[c], Len(got[c]))
    /\ phase[c] = "closing" =>
          req[c] = [op |-> "close", kind |-> kind[c], cursor |-> cur[c]]

HandlesDistinct ==
    \A c, d \in Callers : c # d /\ Holds(c) # 0 => Holds(c) # Holds(d)

FcWidth ==
    \A c \in Callers : phase[c] \in {"reading", "fetching"} => fc[c] = Width

IInv ==
    /\ TypeOK
    /\ FcWidth
    /\ NoFault
    /\ \A c \in Callers : CallerOK(c)
    /\ HandlesDistinct

-----------------------------------------------------------------------------
(***************************************************************************)
(* Lemmas on the model's operators.                                       *)
(***************************************************************************)

\* The number of cursor handles the server may issue is a natural.
LEMMA MaxIdNat == MaxId \in Nat
<1>1. Cardinality(Callers) \in Nat
  BY CursorAssumption, FS_CardinalityType DEF CursorAssumption
<1>2. QED
  BY <1>1, CursorAssumption DEF MaxId, CursorAssumption

\* A page the server cuts at position p is a page of the next rows, and
\* leaves the position within the cache.
LEMMA PageFromProps ==
    ASSUME NEW p \in 0..NRows
    PROVE  LET pg == PageFrom(p)
           IN  /\ pg \in Page
               /\ IsRun(pg, p)
               /\ p + Len(pg) \in 0..NRows
<1> USE CursorAssumption DEF CursorAssumption
<1> DEFINE hi == IF p + PageSize < NRows THEN p + PageSize ELSE NRows
<1>1. hi - p \in 0..PageSize /\ hi \in 0..NRows
  OBVIOUS
<1>2. PageFrom(p) = [i \in 1..(hi - p) |-> p + i]
  BY DEF PageFrom
<1>3. PageFrom(p) \in [1..(hi - p) -> 1..NRows]
  BY <1>1, <1>2
<1>4. PageFrom(p) \in Page
  BY <1>1, <1>3 DEF Page
<1>5. Len(PageFrom(p)) = hi - p
  BY <1>1, <1>2
<1>6. QED
  BY <1>1, <1>2, <1>4, <1>5 DEF IsRun

\* The columns of a StructArray built from field_count = Width are Width.
LEMMA ColumnsWidth == Cardinality(Columns(Width)) = Width
<1>1. Width \in Nat \ {0}
  BY CursorAssumption DEF CursorAssumption
<1>2. QED
  BY <1>1, FS_Interval DEF Columns

\* A sequence is the function over its indices.
LEMMA SeqEta ==
    ASSUME NEW S, NEW x \in Seq(S)
    PROVE  x = [i \in 1..Len(x) |-> x[i]]
OBVIOUS

\* A run of the first rows followed by a run of the next rows is a run of
\* the first rows.
LEMMA RunConcat ==
    ASSUME NEW S, NEW a \in Seq(S), NEW b \in Seq(S),
           IsRun(a, 0), IsRun(b, Len(a))
    PROVE  IsRun(a \o b, 0)
<1>1. /\ a \o b \in Seq(S)
      /\ Len(a \o b) = Len(a) + Len(b)
      /\ \A i \in 1..Len(a) : (a \o b)[i] = a[i]
      /\ \A i \in Len(a) + 1..Len(a) + Len(b) : (a \o b)[i] = b[i - Len(a)]
  OBVIOUS
<1>2. \A i \in 1..Len(a) : a[i] = i
  BY DEF IsRun
<1>3. \A i \in 1..Len(b) : b[i] = Len(a) + i
  BY DEF IsRun
<1>4. \A i \in 1..Len(a \o b) : (a \o b)[i] = 0 + i
  <2> SUFFICES ASSUME NEW i \in 1..Len(a \o b) PROVE (a \o b)[i] = 0 + i
    OBVIOUS
  <2>1. CASE i <= Len(a)
    BY <1>1, <1>2, <2>1
  <2>2. CASE i > Len(a)
    <3>1. i \in Len(a) + 1..Len(a) + Len(b) /\ i - Len(a) \in 1..Len(b)
      BY <1>1, <2>2
    <3>2. QED
      BY <1>1, <1>3, <3>1
  <2>3. QED
    BY <2>1, <2>2
<1>5. a \o b = [i \in 1..Len(a \o b) |-> (a \o b)[i]]
  BY <1>1, SeqEta
<1>6. QED
  BY <1>4, <1>5 DEF IsRun

\* A page is a sequence of rows.
LEMMA PageSeq == Page \subseteq Seq(1..NRows \cup {Garbled})
BY CursorAssumption DEF Page, CursorAssumption

-----------------------------------------------------------------------------
(***************************************************************************)
(* Type correctness.                                                       *)
(***************************************************************************)

\* The result an API function builds from a status is an APIResult.
LEMMA ResultsTyped ==
    ASSUME NEW st \in {0, 1}
    PROVE  /\ PerformResult(st) \in Result
           /\ QueryResultPostProcess(st) \in Result
BY DEF PerformResult, QueryResultPostProcess, Result

\* The answer to a failed request, or to a close, is a response.
\* An answer with a status of 0, a handle, a page and a flag is a response.
LEMMA PageAnswerTyped ==
    ASSUME NEW id \in 0..MaxId, NEW pg \in Page, NEW P \in BOOLEAN
    PROVE  [status |-> 0, cursor |-> id, rows |-> pg, more |-> P] \in Response
BY DEF Response

LEMMA AnswerTyped ==
    ASSUME NEW st \in {0, 1}
    PROVE  Answer(st) \in Response
<1>1. <<>> \in Page
  <2>1. <<>> \in [1..0 -> 1..NRows]
    OBVIOUS
  <2>2. QED
    BY <2>1, CursorAssumption DEF Page, CursorAssumption
<1>2. QED
  BY <1>1, MaxIdNat DEF Answer, Response

LEMMA TypeOKInit == Init => TypeOK
<1> USE CursorAssumption, MaxIdNat DEF CursorAssumption
<1> SUFFICES ASSUME Init PROVE TypeOK
  OBVIOUS
<1>1. NoReq \in Request \cup {NoReq} /\ NoRes \in Result
  BY DEF NoRes, Result
<1>2. cursors \in [1..nextId - 1 -> [pos : 0..NRows,
                                     state : {"open", "closed"}]]
  BY DEF Init
<1>3. nextId \in 1..MaxId + 1
  BY DEF Init
<1>4. got \in [Callers -> Seq(1..NRows \cup {Garbled})]
  BY DEF Init
<1>5. QED
  BY <1>1, <1>2, <1>3, <1>4 DEF Init, TypeOK, Phases, Kinds

LEMMA TypeOKStep == TypeOK /\ [Next]_vars => TypeOK'
<1> USE CursorAssumption, MaxIdNat DEF CursorAssumption
<1> SUFFICES ASSUME TypeOK, [Next]_vars PROVE TypeOK'
  OBVIOUS
<1>1. ASSUME NEW c \in Callers, Open(c) PROVE TypeOK'
  BY <1>1 DEF Open, TypeOK, Request, Kinds, Phases
<1>2. ASSUME NEW c \in Callers, OpenDone(c) PROVE TypeOK'
  <2>1. rsp[c] \in Response
    BY <1>2 DEF OpenDone, TypeOK
  <2>2. /\ rsp[c].rows \in Seq(1..NRows \cup {Garbled})
        /\ rsp[c].cursor \in 0..MaxId
        /\ rsp[c].status \in {0, 1}
    BY <2>1, PageSeq DEF Response
  <2>3. res' \in [Callers -> Result]
    <3>1. PerformResult(rsp[c].status) \in Result
          /\ QueryResultPostProcess(rsp[c].status) \in Result
      BY <2>2, ResultsTyped
    <3>2. QED
      BY <1>2, <3>1 DEF OpenDone, TypeOK
  <2>4. /\ req' \in [Callers -> Request \cup {NoReq}]
        /\ rsp' \in [Callers -> Response \cup {NoRsp}]
    BY <1>2 DEF OpenDone, TypeOK
  <2>5. /\ phase' \in [Callers -> Phases]
        /\ cur' \in [Callers -> 0..MaxId]
        /\ got' \in [Callers -> Seq(1..NRows \cup {Garbled})]
        /\ fc' \in [Callers -> Nat]
    <3>1. CASE rsp[c].status = 0
      BY <1>2, <2>2, <3>1 DEF OpenDone, TypeOK, Phases
    <3>2. CASE rsp[c].status # 0
      BY <1>2, <3>2 DEF OpenDone, TypeOK, Phases
    <3>3. QED
      BY <3>1, <3>2
  <2>6. QED
    BY <1>2, <2>3, <2>4, <2>5 DEF OpenDone, TypeOK
<1>3. ASSUME NEW c \in Callers, Fetch(c) \/ Close(c) PROVE TypeOK'
  <2>0. kind[c] \in Kinds /\ cur[c] \in 0..MaxId
    BY DEF TypeOK
  <2>1. req'[c] \in Request
    <3>1. CASE Fetch(c)
      BY <2>0, <3>1 DEF Fetch, TypeOK, Request
    <3>2. CASE Close(c)
      BY <2>0, <3>2 DEF Close, TypeOK, Request
    <3>3. QED
      BY <1>3, <3>1, <3>2
  <2>2. phase'[c] \in Phases
    BY <1>3 DEF Fetch, Close, Phases, TypeOK
  <2>3. req' \in [Callers -> Request \cup {NoReq}]
        /\ phase' \in [Callers -> Phases]
    BY <1>3, <2>1, <2>2 DEF Fetch, Close, TypeOK
  <2>4. QED
    BY <1>3, <2>3, SMTT(60) DEF Fetch, Close, TypeOK
<1>4. ASSUME NEW c \in Callers, ScanPageDone(c) PROVE TypeOK'
  <2>1. rsp[c] \in Response
    BY <1>4 DEF ScanPageDone, TypeOK
  <2>2. /\ rsp[c].rows \in Seq(1..NRows \cup {Garbled})
        /\ rsp[c].status \in {0, 1}
    BY <2>1, PageSeq DEF Response
  <2>3. res' \in [Callers -> Result]
    <3>1. QueryResultPostProcess(rsp[c].status) \in Result
      BY <2>2, ResultsTyped
    <3>2. QED
      BY <1>4, <3>1 DEF ScanPageDone, TypeOK
  <2>4. /\ req' \in [Callers -> Request \cup {NoReq}]
        /\ rsp' \in [Callers -> Response \cup {NoRsp}]
    BY <1>4 DEF ScanPageDone, TypeOK
  <2>5. /\ phase' \in [Callers -> Phases]
        /\ got' \in [Callers -> Seq(1..NRows \cup {Garbled})]
    <3>1. CASE rsp[c].status = 0
      <4>1. got[c] \o rsp[c].rows \in Seq(1..NRows \cup {Garbled})
        BY <2>2 DEF TypeOK
      <4>2. /\ got' = [got EXCEPT ![c] = got[c] \o rsp[c].rows]
            /\ phase' = [phase EXCEPT ![c] =
                            IF rsp[c].more THEN "reading" ELSE "drained"]
        BY <1>4, <3>1 DEF ScanPageDone
      <4>3. QED
        BY <4>1, <4>2 DEF TypeOK, Phases
    <3>2. CASE rsp[c].status # 0
      BY <1>4, <3>2 DEF ScanPageDone, TypeOK, Phases
    <3>3. QED
      BY <3>1, <3>2
  <2>6. QED
    BY <1>4, <2>3, <2>4, <2>5 DEF ScanPageDone, TypeOK
<1>5. ASSUME NEW c \in Callers, FieldsPageDone(c) PROVE TypeOK'
  <2>1. rsp[c] \in Response
    BY <1>5 DEF FieldsPageDone, TypeOK
  <2>2. rsp[c].rows \in Seq(1..NRows \cup {Garbled})
    BY <2>1, PageSeq DEF Response
  <2> DEFINE r == rsp[c]
             cols == Columns(fc[c])
  <2>3. got[c] \o FieldsRows(r.rows, cols) \in Seq(1..NRows \cup {Garbled})
    <3>1. FieldsRows(r.rows, cols) \in Seq(1..NRows \cup {Garbled})
      BY <2>2 DEF FieldsRows
    <3>2. QED
      BY <3>1 DEF TypeOK
  <2>4. /\ req' \in [Callers -> Request \cup {NoReq}]
        /\ rsp' \in [Callers -> Response \cup {NoRsp}]
    BY <1>5 DEF FieldsPageDone, TypeOK
  <2>5. /\ res' \in [Callers -> Result]
        /\ phase' \in [Callers -> Phases]
        /\ got' \in [Callers -> Seq(1..NRows \cup {Garbled})]
    <3>0. r.status \in {0, 1}
      BY <2>1 DEF Response
    <3>1. CASE r.status = 0 /\ FieldsRaises(r.rows, cols)
      BY <1>5, <3>1 DEF FieldsPageDone, TypeOK, Phases, Result, Raised
    <3>2. CASE ~(r.status = 0 /\ FieldsRaises(r.rows, cols)) /\ r.status = 0
      <4>1. PerformResult(r.status) \in Result
        BY <3>0, ResultsTyped
      <4>2. /\ res' = [res EXCEPT ![c] = PerformResult(r.status)]
            /\ got' = [got EXCEPT ![c] = got[c] \o FieldsRows(r.rows, cols)]
            /\ phase' = [phase EXCEPT ![c] =
                            IF FieldsMore(r.rows, r.more, cols)
                            THEN "reading" ELSE "drained"]
        BY <1>5, <3>2 DEF FieldsPageDone
      <4>3. QED
        BY <2>3, <4>1, <4>2 DEF TypeOK, Phases
    <3>3. CASE ~(r.status = 0 /\ FieldsRaises(r.rows, cols)) /\ r.status # 0
      <4>1. PerformResult(r.status) \in Result
        BY <3>0, ResultsTyped
      <4>2. /\ res' = [res EXCEPT ![c] = PerformResult(r.status)]
            /\ got' = got
            /\ phase' = [phase EXCEPT ![c] = "idle"]
        BY <1>5, <3>3 DEF FieldsPageDone
      <4>3. QED
        BY <4>1, <4>2 DEF TypeOK, Phases
    <3>4. QED
      BY <3>1, <3>2, <3>3
  <2>6. QED
    BY <1>5, <2>4, <2>5 DEF FieldsPageDone, TypeOK
<1>6. ASSUME NEW c \in Callers, CloseDone(c) \/ Leave(c) PROVE TypeOK'
  <2>1. CASE CloseDone(c)
    <3>1. rsp[c] \in Response
      BY <2>1 DEF CloseDone, TypeOK
    <3>2. QED
      BY <2>1, <3>1, ResultsTyped DEF CloseDone, TypeOK, Response, Phases
  <2>2. CASE Leave(c)
    BY <2>2 DEF Leave, TypeOK, Phases
  <2>3. QED
    BY <1>6, <2>1, <2>2
<1>7. ASSUME NEW c \in Callers, ServeOpen(c) PROVE TypeOK'
  <2>1. CASE nextId <= MaxId /\ nextId' = nextId + 1
             /\ LET page == PageFrom(0) IN
                /\ cursors' = [i \in 1..nextId |->
                                 IF i = nextId
                                 THEN [pos |-> Len(page), state |-> "open"]
                                 ELSE cursors[i]]
                /\ rsp' = [rsp EXCEPT ![c] =
                             [status |-> 0, cursor |-> nextId, rows |-> page,
                              more |-> Len(page) < NRows]]
    <3>1. PageFrom(0) \in Page /\ 0 + Len(PageFrom(0)) \in 0..NRows
      BY PageFromProps
    <3>2. nextId' \in 1..MaxId + 1 /\ nextId \in 0..MaxId
      BY <2>1, MaxIdNat DEF TypeOK
    <3>3. cursors' \in [1..nextId' - 1 -> [pos : 0..NRows,
                                            state : {"open", "closed"}]]
      BY <2>1, <3>1 DEF TypeOK
    <3>4. [status |-> 0, cursor |-> nextId, rows |-> PageFrom(0),
           more |-> Len(PageFrom(0)) < NRows] \in Response
      <4>1. (Len(PageFrom(0)) < NRows) \in BOOLEAN
        OBVIOUS
      <4>2. QED
        BY <3>1, <3>2, <4>1, PageAnswerTyped, Zenon
    <3>5. rsp' \in [Callers -> Response \cup {NoRsp}]
      BY <2>1, <3>4 DEF TypeOK
    <3>6. QED
      BY <1>7, <3>2, <3>3, <3>5 DEF ServeOpen, TypeOK
  <2>2. CASE Fail(c) /\ UNCHANGED <<cursors, nextId>>
    BY <1>7, <2>2, AnswerTyped DEF ServeOpen, Fail, TypeOK
  <2>3. QED
    BY <1>7, <2>1, <2>2 DEF ServeOpen
<1>8. ASSUME NEW c \in Callers, ServePage(c) PROVE TypeOK'
  <2> DEFINE id == req[c].cursor
  <2>1. CASE /\ id \in DOMAIN cursors
             /\ cursors[id].state = "open"
             /\ LET page == PageFrom(cursors[id].pos) IN
                /\ cursors' = [cursors EXCEPT ![id].pos = @ + Len(page)]
                /\ rsp' = [rsp EXCEPT ![c] =
                             [status |-> 0, cursor |-> 0, rows |-> page,
                              more |-> cursors[id].pos + Len(page) < NRows]]
    <3>1. cursors[id].pos \in 0..NRows
      BY <2>1 DEF TypeOK
    <3>2. PageFrom(cursors[id].pos) \in Page
          /\ cursors[id].pos + Len(PageFrom(cursors[id].pos)) \in 0..NRows
      BY <3>1, PageFromProps
    <3> DEFINE page == PageFrom(cursors[id].pos)
    <3>3. cursors' \in [1..nextId - 1 -> [pos : 0..NRows,
                                          state : {"open", "closed"}]]
      BY <2>1, <3>2 DEF TypeOK
    <3>4. rsp' \in [Callers -> Response \cup {NoRsp}]
      BY <2>1, <3>2 DEF TypeOK, Response
    <3>5. QED
      BY <1>8, <3>3, <3>4 DEF ServePage, TypeOK
  <2>2. CASE Fail(c) /\ UNCHANGED cursors
    BY <1>8, <2>2, AnswerTyped DEF ServePage, Fail, TypeOK
  <2>3. QED
    BY <1>8, <2>1, <2>2 DEF ServePage
<1>9. ASSUME NEW c \in Callers, ServeClose(c) PROVE TypeOK'
  <2>1. CASE /\ req[c].cursor \in DOMAIN cursors
             /\ cursors[req[c].cursor].state = "open"
             /\ cursors' = [cursors EXCEPT ![req[c].cursor].state = "closed"]
             /\ rsp' = [rsp EXCEPT ![c] = Answer(0)]
    BY <1>9, <2>1, AnswerTyped DEF ServeClose, TypeOK
  <2>2. CASE Fail(c) /\ UNCHANGED cursors
    BY <1>9, <2>2, AnswerTyped DEF ServeClose, Fail, TypeOK
  <2>3. QED
    BY <1>9, <2>1, <2>2 DEF ServeClose
<1>10. CASE Terminated \/ UNCHANGED vars
  BY <1>10 DEF Terminated, vars, TypeOK
<1>11. QED
  BY <1>1, <1>2, <1>3, <1>4, <1>5, <1>6, <1>7, <1>8, <1>9, <1>10 DEF Next

(***************************************************************************)
(* Every reachable state is well typed (TypeOK, checked by cursor_paging): *)
(* the rows a caller gathers are rows of the cache or garbled rows, every *)
(* API call returns an APIResult or raises, and the server's cursors stay *)
(* within the cache, for any callers, rows, page size and width.          *)
(***************************************************************************)
THEOREM TypeCorrect == Spec => []TypeOK
BY TypeOKInit, TypeOKStep, PTL DEF Spec

-----------------------------------------------------------------------------
(***************************************************************************)
(* No fault.                                                               *)
(***************************************************************************)

NoFaultInv ==
    /\ TypeOK
    /\ FcWidth
    /\ NoFault

LEMMA NoFaultInit == Init => NoFaultInv
BY TypeOKInit DEF Init, NoFaultInv, FcWidth, NoFault, NoRes, Raised

\* With the width the open returned, a sql_fields page never runs past the
\* end of the values.
LEMMA WidthNeverRaises ==
    ASSUME NEW rows
    PROVE  ~FieldsRaises(rows, Columns(Width))
BY ColumnsWidth, CursorAssumption DEF FieldsRaises, CursorAssumption

\* The results the post-processing builds are never the exception.
LEMMA ResultsNotRaised ==
    ASSUME NEW st \in {0, 1}
    PROVE  PerformResult(st) # Raised /\ QueryResultPostProcess(st) # Raised
BY DEF PerformResult, QueryResultPostProcess, Raised

LEMMA NoFaultStep == NoFaultInv /\ [Next]_vars => NoFaultInv'
<1> SUFFICES ASSUME NoFaultInv, [Next]_vars PROVE NoFaultInv'
  OBVIOUS
<1>0. TypeOK'
  BY TypeOKStep DEF NoFaultInv
<1>1. ASSUME NEW c \in Callers, Open(c) \/ Fetch(c) \/ Close(c) \/ Leave(c)
      PROVE  NoFaultInv'
  BY <1>0, <1>1 DEF Open, Fetch, Close, Leave, NoFaultInv, FcWidth, NoFault,
                    TypeOK
<1>2. ASSUME NEW c \in Callers, OpenDone(c) \/ ScanPageDone(c) \/ CloseDone(c)
      PROVE  NoFaultInv'
  <2>1. rsp[c] # NoRsp /\ rsp[c] \in Response \cup {NoRsp}
    BY <1>2 DEF OpenDone, ScanPageDone, CloseDone, NoFaultInv, TypeOK
  <2>2. rsp[c].status \in {0, 1}
    BY <2>1 DEF Response
  <2>3. PerformResult(rsp[c].status) # Raised
        /\ QueryResultPostProcess(rsp[c].status) # Raised
    BY <2>2, ResultsNotRaised
  <2>4. res'[c] # Raised
    BY <1>2, <2>3 DEF OpenDone, ScanPageDone, CloseDone, TypeOK, NoFaultInv
  <2>5. \A d \in Callers \ {c} : res'[d] = res[d]
    BY <1>2 DEF OpenDone, ScanPageDone, CloseDone, TypeOK, NoFaultInv
  <2>6. FcWidth'
    <3>1. CASE OpenDone(c)
      BY <3>1 DEF OpenDone, NoFaultInv, FcWidth, TypeOK
    <3>2. CASE ScanPageDone(c) \/ CloseDone(c)
      BY <3>2 DEF ScanPageDone, CloseDone, NoFaultInv, FcWidth, TypeOK
    <3>3. QED
      BY <1>2, <3>1, <3>2
  <2>7. QED
    BY <1>0, <2>4, <2>5, <2>6 DEF NoFaultInv, NoFault
<1>3. ASSUME NEW c \in Callers, FieldsPageDone(c) PROVE NoFaultInv'
  <2>1. fc[c] = Width
    BY <1>3 DEF FieldsPageDone, NoFaultInv, FcWidth
  <2>2. ~FieldsRaises(rsp[c].rows, Columns(fc[c]))
    BY <2>1, WidthNeverRaises
  <2>3. res' = [res EXCEPT ![c] = PerformResult(rsp[c].status)]
    BY <1>3, <2>2 DEF FieldsPageDone
  <2>4. res'[c] # Raised
    <3>1. rsp[c].status \in {0, 1}
      BY <1>3 DEF FieldsPageDone, NoFaultInv, TypeOK, Response
    <3>2. QED
      BY <2>3, <3>1, ResultsNotRaised DEF NoFaultInv, TypeOK
  <2>5. QED
    BY <1>0, <1>3, <2>3, <2>4 DEF FieldsPageDone, NoFaultInv, FcWidth,
                                  NoFault, TypeOK
<1>4. ASSUME NEW c \in Callers, ServeOpen(c) \/ ServePage(c) \/ ServeClose(c)
      PROVE  NoFaultInv'
  BY <1>0, <1>4 DEF ServeOpen, ServePage, ServeClose, NoFaultInv, FcWidth,
                    NoFault
<1>5. CASE Terminated \/ UNCHANGED vars
  BY <1>0, <1>5 DEF Terminated, vars, NoFaultInv, FcWidth, NoFault
<1>6. QED
  BY <1>1, <1>2, <1>3, <1>4, <1>5 DEF Next

(***************************************************************************)
(* Errors are results, not faults (NoFault, checked by cursor_paging): no *)
(* API call of a caller that follows spec 4.5 raises, whatever the server *)
(* answers.  It rests on FcWidth: sql_fields_cursor_get_page is called    *)
(* with the field_count of the open, so its StructArray never runs past   *)
(* the values of a page.                                                   *)
(***************************************************************************)
THEOREM NoFaultHolds == Spec => []NoFault
BY NoFaultInit, NoFaultStep, PTL DEF Spec, NoFaultInv

-----------------------------------------------------------------------------
(***************************************************************************)
(* Pages are exact.                                                        *)
(***************************************************************************)

\* A step of caller or server c leaves every other caller's view alone.
OthersKept(c) ==
    \A d \in Callers \ {c} :
        /\ phase'[d] = phase[d] /\ kind'[d] = kind[d] /\ cur'[d] = cur[d]
        /\ got'[d] = got[d] /\ req'[d] = req[d] /\ rsp'[d] = rsp[d]

\* What a caller holds depends only on its own phase, handle and answer.
LEMMA HoldsFrame ==
    ASSUME NEW d, phase'[d] = phase[d], cur'[d] = cur[d], rsp'[d] = rsp[d]
    PROVE  Holds(d)' = Holds(d)
BY DEF Holds

\* A handle a caller holds is one the server has issued.
LEMMA HoldsIssued ==
    ASSUME TypeOK, NEW d \in Callers, CallerOK(d)
    PROVE  Holds(d) = 0 \/ Holds(d) \in DOMAIN cursors
<1>1. CASE phase[d] \in Holding
  BY <1>1 DEF Holds, CallerOK
<1>2. CASE phase[d] = "opening" /\ rsp[d] # NoRsp /\ rsp[d].status = 0
  BY <1>2 DEF Holds, CallerOK, Continues, CursorAt, Holding
<1>3. QED
  BY <1>1, <1>2 DEF Holds

\* The request a caller has outstanding tells its phase.
LEMMA RequestPhase ==
    ASSUME TypeOK, NEW d \in Callers, CallerOK(d)
    PROVE  /\ req[d].op = "open" => phase[d] = "opening"
           /\ req[d].op = "page" => phase[d] = "fetching"
           /\ req[d].op = "close" => phase[d] = "closing"
BY DEF CallerOK, TypeOK, Phases, NoReq

\* A caller whose view is unchanged stays consistent with the server when
\* the server keeps every cursor it had and the cursor the caller holds.
LEMMA CallerFrame ==
    ASSUME TypeOK, NEW d \in Callers, CallerOK(d),
           phase'[d] = phase[d], kind'[d] = kind[d], cur'[d] = cur[d],
           got'[d] = got[d], req'[d] = req[d], rsp'[d] = rsp[d],
           DOMAIN cursors \subseteq DOMAIN cursors',
           Holds(d) \in DOMAIN cursors =>
               cursors'[Holds(d)] = cursors[Holds(d)]
    PROVE  CallerOK(d)'
<1>1. \A n : CursorAt(Holds(d), n) =>
                /\ Holds(d) \in DOMAIN cursors'
                /\ cursors'[Holds(d)] = [pos |-> n, state |-> "open"]
  BY DEF CursorAt
<1>2. CASE phase[d] \in Holding
  <2>1. Holds(d) = cur[d]
    BY <1>2 DEF Holds
  <2>2. \A n : CursorAt(cur[d], n) => CursorAt(cur[d], n)'
    BY <1>1, <2>1 DEF CursorAt
  <2>3. \A r, n : Continues(r, cur[d], n) => Continues(r, cur[d], n)'
    BY <2>2 DEF Continues
  <2>4. QED
    BY <1>2, <2>2, <2>3 DEF CallerOK, Holding
<1>3. CASE phase[d] = "opening"
  <2>1. rsp[d] # NoRsp /\ rsp[d].status = 0 => Holds(d) = rsp[d].cursor
    BY <1>3 DEF Holds, Holding
  <2>2. rsp[d] # NoRsp => Continues(rsp[d], rsp[d].cursor, 0)
    BY <1>3 DEF CallerOK
  <2>3. rsp[d] # NoRsp => Continues(rsp[d], rsp[d].cursor, 0)'
    BY <1>1, <2>1, <2>2 DEF Continues, CursorAt
  <2>4. QED
    BY <1>3, <2>3 DEF CallerOK, Holding
<1>4. CASE phase[d] \notin Holding \cup {"opening"}
  BY <1>4 DEF CallerOK, Holding
<1>5. QED
  BY <1>2, <1>3, <1>4

\* A step that keeps or drops each caller's handle keeps them distinct.
LEMMA DistinctKept ==
    ASSUME HandlesDistinct, NEW c \in Callers,
           \A d \in Callers \ {c} : Holds(d)' = Holds(d),
           Holds(c)' \in {0, Holds(c)}
    PROVE  HandlesDistinct'
BY DEF HandlesDistinct

LEMMA IInvInit == Init => IInv
<1> SUFFICES ASSUME Init PROVE IInv
  OBVIOUS
<1>1. TypeOK /\ FcWidth /\ NoFault
  BY NoFaultInit DEF NoFaultInv
<1>2. ASSUME NEW c \in Callers PROVE CallerOK(c) /\ Holds(c) = 0
  BY DEF Init, CallerOK, IsRun, Holds, Holding
<1>3. QED
  BY <1>1, <1>2 DEF IInv, HandlesDistinct

\* A step of caller c keeps the invariant's per-caller part when it keeps
\* c consistent, does not touch the server and keeps or drops c's handle.
LEMMA CallerStep ==
    ASSUME IInv, TypeOK', NEW c \in Callers, OthersKept(c),
           cursors' = cursors, CallerOK(c)', Holds(c)' \in {0, Holds(c)}
    PROVE  (\A d \in Callers : CallerOK(d))' /\ HandlesDistinct'
<1>1. ASSUME NEW d \in Callers \ {c}
      PROVE  CallerOK(d)' /\ Holds(d)' = Holds(d)
  <2>1. /\ phase'[d] = phase[d] /\ kind'[d] = kind[d] /\ cur'[d] = cur[d]
        /\ got'[d] = got[d] /\ req'[d] = req[d] /\ rsp'[d] = rsp[d]
    BY <1>1 DEF OthersKept
  <2>2. CallerOK(d)
    BY DEF IInv
  <2>3. QED
    BY <2>1, <2>2, CallerFrame, HoldsFrame DEF IInv
<1>2. HandlesDistinct'
  BY <1>1, DistinctKept DEF IInv
<1>3. QED
  BY <1>1, <1>2

\* A caller that returns to idle with its rows kept and nothing pending is
\* consistent and holds no handle.
LEMMA IdleOK ==
    ASSUME IInv, NEW c \in Callers, phase'[c] = "idle", got'[c] = got[c],
           req'[c] = NoReq, rsp'[c] = NoRsp
    PROVE  CallerOK(c)' /\ Holds(c)' = 0
BY DEF IInv, CallerOK, IsRun, Holds, Holding

\* A page within the cache whose `more` is false ends at the last row.
LEMMA LastPageEnds ==
    ASSUME NEW a \in Nat, NEW b \in Nat, NRows \in Nat, NEW x \in BOOLEAN,
           a + b <= NRows, x <=> (a + b < NRows), ~x
    PROVE  a + b = NRows
OBVIOUS

\* A page whose `more` is true does not end at the last row.
LEMMA MorePageNotLast ==
    ASSUME NEW a \in Nat, NEW b \in Nat, NRows \in Nat, NEW x \in BOOLEAN,
           x <=> (a + b < NRows), x
    PROVE  a + b # NRows
OBVIOUS

\* The `more` flag of an answer built from a condition is that condition.
LEMMA MoreOf ==
    ASSUME NEW r, NEW st, NEW id, NEW rows, NEW P \in BOOLEAN,
           r = [status |-> st, cursor |-> id, rows |-> rows, more |-> P]
    PROVE  r.more <=> P
BY Zenon

\* What a successful answer that continues n rows tells, typed.
LEMMA ContinuesOK ==
    ASSUME NEW r \in Response, NEW id, NEW n \in Nat, Continues(r, id, n),
           r.status = 0
    PROVE  /\ IsRun(r.rows, n)
           /\ CursorAt(id, n + Len(r.rows))
           /\ Len(r.rows) \in Nat /\ r.more \in BOOLEAN
           /\ n + Len(r.rows) <= NRows
           /\ (r.more <=> (n + Len(r.rows) < NRows))
           /\ r.more => n + Len(r.rows) < NRows
           /\ ~r.more => n + Len(r.rows) = NRows
<1>1. r.status # 1
  OBVIOUS
<1>2. /\ IsRun(r.rows, n)
      /\ CursorAt(id, n + Len(r.rows))
      /\ n + Len(r.rows) <= NRows
      /\ (r.more <=> (n + Len(r.rows) < NRows))
  BY <1>1, Zenon DEF Continues
<1>3. Len(r.rows) \in Nat /\ r.more \in BOOLEAN /\ NRows \in Nat
  BY PageSeq, CursorAssumption DEF Response, CursorAssumption
<1>4. QED
  BY <1>2, <1>3

\* Decoding a page that continues the caller's rows leaves the caller
\* consistent: its rows are still the first rows, and the server's cursor
\* stands after them.
LEMMA PageDoneOK ==
    ASSUME IInv, NEW c \in Callers, phase[c] = "fetching", rsp[c] # NoRsp,
           rsp[c].status = 0, got'[c] = got[c] \o rsp[c].rows,
           phase'[c] = IF rsp[c].more THEN "reading" ELSE "drained",
           cur'[c] = cur[c], req'[c] = NoReq, rsp'[c] = NoRsp,
           cursors' = cursors
    PROVE  CallerOK(c)' /\ Holds(c)' = Holds(c)
<1> DEFINE r == rsp[c]  n == Len(got[c])
<1>M. r.more \in BOOLEAN
  BY DEF IInv, TypeOK, Response
<1>0. Continues(r, cur[c], n) /\ IsRun(got[c], 0)
  <2>1. CallerOK(c)
    BY DEF IInv
  <2>2. QED
    BY <2>1, Zenon DEF CallerOK
<1>1. /\ IsRun(r.rows, n)
      /\ CursorAt(cur[c], n + Len(r.rows))
      /\ n + Len(r.rows) <= NRows
      /\ (r.more <=> (n + Len(r.rows) < NRows))
  <2>1. r.status # 1
    OBVIOUS
  <2>2. QED
    BY <1>0, <2>1, Zenon DEF Continues
<1>2. /\ got[c] \in Seq(1..NRows \cup {Garbled})
      /\ r.rows \in Seq(1..NRows \cup {Garbled})
      /\ IsRun(got[c], 0)
  BY <1>0, PageSeq DEF IInv, TypeOK, Response
<1>3. IsRun(got'[c], 0) /\ Len(got'[c]) = n + Len(r.rows)
  BY <1>1, <1>2, RunConcat
<1>4. ~r.more => Len(got'[c]) = NRows
  <2>1. r.more \in BOOLEAN /\ NRows \in Nat
    BY CursorAssumption DEF IInv, TypeOK, Response, CursorAssumption
  <2>2. n \in Nat /\ Len(r.rows) \in Nat
    BY <1>2
  <2>3. /\ n + Len(r.rows) <= NRows
        /\ (r.more <=> (n + Len(r.rows) < NRows))
    BY <1>1, Zenon
  <2>4. ~r.more => n + Len(r.rows) = NRows
    BY <2>1, <2>2, <2>3, LastPageEnds, Zenon
  <2>5. QED
    BY <1>3, <2>4, Zenon
<1>5. CallerOK(c)'
  <2>1. CASE r.more
    <3>1. phase'[c] = "reading"
      BY <1>M, <2>1
    <3>2. QED
      BY <1>1, <1>3, <3>1 DEF CallerOK, CursorAt, Holding
  <2>2. CASE ~r.more
    <3>1. phase'[c] = "drained" /\ Len(got'[c]) = NRows
      BY <1>M, <1>4, <2>2
    <3>2. CursorAt(cur[c], Len(got'[c]))
      BY <1>1, <1>3
    <3>3. QED
      BY <1>3, <3>1, <3>2 DEF CallerOK, CursorAt, Holding
  <2>3. QED
    BY <2>1, <2>2
<1>6. QED
  BY <1>5 DEF Holds, Holding

LEMMA OpenKeeps ==
    ASSUME IInv, TypeOK', NEW c \in Callers, Open(c)
    PROVE  (\A d \in Callers : CallerOK(d))' /\ HandlesDistinct'
<1>1. OthersKept(c)
  BY DEF Open, OthersKept, IInv, TypeOK
<1>2. PICK k \in Kinds :
        /\ kind'[c] = k
        /\ req'[c] = [op |-> "open", kind |-> k, cursor |-> 0]
  BY DEF Open, IInv, TypeOK
<1>3. /\ phase'[c] = "opening" /\ got'[c] = <<>> /\ rsp'[c] = NoRsp
      /\ cursors' = cursors
  BY DEF Open, IInv, TypeOK, CallerOK
<1>4. CallerOK(c)' /\ Holds(c)' = 0
  BY <1>2, <1>3 DEF CallerOK, IsRun, Holds, Holding
<1>5. QED
  BY <1>1, <1>3, <1>4, CallerStep

LEMMA OpenDoneKeeps ==
    ASSUME IInv, TypeOK', NEW c \in Callers, OpenDone(c)
    PROVE  (\A d \in Callers : CallerOK(d))' /\ HandlesDistinct'
<1> DEFINE r == rsp[c]
<1>1. OthersKept(c) /\ cursors' = cursors
  BY DEF OpenDone, OthersKept, IInv, TypeOK
<1>2. /\ phase[c] = "opening" /\ r # NoRsp /\ r \in Response
      /\ req'[c] = NoReq /\ rsp'[c] = NoRsp
  BY DEF OpenDone, IInv, TypeOK
<1>3. Continues(r, r.cursor, 0)
  <2>1. CallerOK(c)
    BY DEF IInv
  <2>2. QED
    BY <1>2, <2>1, Zenon DEF CallerOK
<1>4. CASE r.status = 0
  <2>1. /\ IsRun(r.rows, 0)
        /\ CursorAt(r.cursor, Len(r.rows))
        /\ r.more \in BOOLEAN
        /\ ~r.more => Len(r.rows) = NRows
    BY <1>2, <1>3, <1>4, ContinuesOK
  <2>2. /\ cur'[c] = r.cursor /\ got'[c] = r.rows
        /\ phase'[c] = IF r.more THEN "reading" ELSE "drained"
    BY <1>4 DEF OpenDone, IInv, TypeOK
  <2>3. CallerOK(c)'
    <3>1. CASE r.more
      <4>1. phase'[c] = "reading"
        BY <2>1, <2>2, <3>1
      <4>2. QED
        BY <1>1, <1>2, <2>1, <2>2, <4>1 DEF CallerOK, CursorAt, Holding
    <3>2. CASE ~r.more
      <4>1. phase'[c] = "drained" /\ Len(got'[c]) = NRows
        BY <2>1, <2>2, <3>2
      <4>2. QED
        BY <1>1, <1>2, <2>1, <2>2, <4>1 DEF CallerOK, CursorAt, Holding
    <3>3. QED
      BY <3>1, <3>2
  <2>4. Holds(c)' = Holds(c)
    <3>1. phase'[c] \in Holding
      BY <2>1, <2>2 DEF Holding
    <3>2. QED
      BY <1>2, <1>4, <2>2, <3>1 DEF Holds, Holding
  <2>5. QED
    BY <1>1, <2>3, <2>4, CallerStep
<1>5. CASE r.status # 0
  <2>1. phase'[c] = "idle" /\ got'[c] = got[c]
    BY <1>5 DEF OpenDone, IInv, TypeOK
  <2>2. QED
    BY <1>1, <1>2, <2>1, IdleOK, CallerStep
<1>6. QED
  BY <1>4, <1>5

LEMMA FetchCloseKeeps ==
    ASSUME IInv, TypeOK', NEW c \in Callers, Fetch(c) \/ Close(c)
    PROVE  (\A d \in Callers : CallerOK(d))' /\ HandlesDistinct'
<1>1. OthersKept(c) /\ cursors' = cursors
      /\ cur'[c] = cur[c] /\ got'[c] = got[c] /\ rsp'[c] = rsp[c]
      /\ kind'[c] = kind[c]
  BY DEF Fetch, Close, OthersKept, IInv, TypeOK
<1>2. CASE Fetch(c)
  <2>1. /\ phase[c] = "reading" /\ phase'[c] = "fetching"
        /\ req'[c] = [op |-> "page", kind |-> kind[c], cursor |-> cur[c]]
    BY <1>2 DEF Fetch, IInv, TypeOK
  <2>2. CallerOK(c)' /\ Holds(c)' = Holds(c)
    BY <1>1, <2>1 DEF IInv, CallerOK, CursorAt, Holds, Holding
  <2>3. QED
    BY <1>1, <2>2, CallerStep
<1>3. CASE Close(c)
  <2>1. /\ phase[c] \in {"reading", "drained"} /\ phase'[c] = "closing"
        /\ req'[c] = [op |-> "close", kind |-> kind[c], cursor |-> cur[c]]
    BY <1>3 DEF Close, IInv, TypeOK
  <2>2. CallerOK(c)' /\ Holds(c)' = Holds(c)
    BY <1>1, <2>1 DEF IInv, CallerOK, IsRun, Holds, Holding
  <2>3. QED
    BY <1>1, <2>2, CallerStep
<1>4. QED
  BY <1>2, <1>3

LEMMA CloseDoneLeaveKeeps ==
    ASSUME IInv, TypeOK', NEW c \in Callers, CloseDone(c) \/ Leave(c)
    PROVE  (\A d \in Callers : CallerOK(d))' /\ HandlesDistinct'
<1>1. /\ OthersKept(c) /\ cursors' = cursors
      /\ phase'[c] = "idle" /\ got'[c] = got[c]
      /\ req'[c] = NoReq /\ rsp'[c] = NoRsp
  BY DEF CloseDone, Leave, OthersKept, IInv, TypeOK, CallerOK
<1>2. QED
  BY <1>1, IdleOK, CallerStep

LEMMA ScanPageDoneKeeps ==
    ASSUME IInv, TypeOK', NEW c \in Callers, ScanPageDone(c)
    PROVE  (\A d \in Callers : CallerOK(d))' /\ HandlesDistinct'
<1>1. /\ OthersKept(c) /\ cursors' = cursors /\ cur'[c] = cur[c]
      /\ phase[c] = "fetching" /\ rsp[c] # NoRsp
      /\ req'[c] = NoReq /\ rsp'[c] = NoRsp
  BY DEF ScanPageDone, OthersKept, IInv, TypeOK
<1>2. CASE rsp[c].status = 0
  <2>1. /\ got'[c] = got[c] \o rsp[c].rows
        /\ phase'[c] = IF rsp[c].more THEN "reading" ELSE "drained"
    BY <1>2 DEF ScanPageDone, IInv, TypeOK
  <2>2. QED
    BY <1>1, <1>2, <2>1, PageDoneOK, CallerStep
<1>3. CASE rsp[c].status # 0
  <2>1. phase'[c] = "idle" /\ got'[c] = got[c]
    BY <1>3 DEF ScanPageDone, IInv, TypeOK
  <2>2. QED
    BY <1>1, <2>1, IdleOK, CallerStep
<1>4. QED
  BY <1>2, <1>3

\* With the width of the open, a sql_fields page decodes to its rows.
LEMMA FieldsAtWidth ==
    ASSUME NEW rows, NEW more
    PROVE  /\ ~FieldsRaises(rows, Columns(Width))
           /\ FieldsRows(rows, Columns(Width)) = rows
           /\ FieldsMore(rows, more, Columns(Width)) = more
BY ColumnsWidth, WidthNeverRaises DEF FieldsRows, FieldsMore

LEMMA FieldsPageDoneKeeps ==
    ASSUME IInv, TypeOK', NEW c \in Callers, FieldsPageDone(c)
    PROVE  (\A d \in Callers : CallerOK(d))' /\ HandlesDistinct'
<1>1. /\ OthersKept(c) /\ cursors' = cursors /\ cur'[c] = cur[c]
      /\ phase[c] = "fetching" /\ rsp[c] # NoRsp
      /\ req'[c] = NoReq /\ rsp'[c] = NoRsp
  BY DEF FieldsPageDone, OthersKept, IInv, TypeOK
<1>2. fc[c] = Width
  BY <1>1 DEF IInv, FcWidth
<1>3. /\ ~FieldsRaises(rsp[c].rows, Columns(fc[c]))
      /\ FieldsRows(rsp[c].rows, Columns(fc[c])) = rsp[c].rows
      /\ FieldsMore(rsp[c].rows, rsp[c].more, Columns(fc[c])) = rsp[c].more
  BY <1>2, FieldsAtWidth
<1>4. CASE rsp[c].status = 0
  <2>1. /\ got'[c] = got[c] \o rsp[c].rows
        /\ phase'[c] = IF rsp[c].more THEN "reading" ELSE "drained"
    BY <1>3, <1>4 DEF FieldsPageDone, IInv, TypeOK
  <2>2. QED
    BY <1>1, <1>4, <2>1, PageDoneOK, CallerStep
<1>5. CASE rsp[c].status # 0
  <2>1. phase'[c] = "idle" /\ got'[c] = got[c]
    BY <1>5 DEF FieldsPageDone, IInv, TypeOK
  <2>2. QED
    BY <1>1, <2>1, IdleOK, CallerStep
<1>6. QED
  BY <1>4, <1>5

\* A step that gives c a fresh handle, one no other caller holds, keeps the
\* handles distinct.
LEMMA DistinctFresh ==
    ASSUME HandlesDistinct, NEW c \in Callers, NEW n, n # 0,
           \A d \in Callers \ {c} : Holds(d)' = Holds(d) /\ Holds(d) # n,
           Holds(c)' \in {0, n}
    PROVE  HandlesDistinct'
BY DEF HandlesDistinct

\* A server step that moves only the cursor of caller c keeps every other
\* caller consistent, since no other caller holds that cursor.
LEMMA ServerTouchesOne ==
    ASSUME IInv, TypeOK', NEW c \in Callers, OthersKept(c),
           CallerOK(c)', Holds(c)' = Holds(c), Holds(c) \in DOMAIN cursors,
           DOMAIN cursors' = DOMAIN cursors,
           \A y \in DOMAIN cursors \ {Holds(c)} : cursors'[y] = cursors[y]
    PROVE  (\A d \in Callers : CallerOK(d))' /\ HandlesDistinct'
<1>1. Holds(c) # 0
  BY DEF IInv, TypeOK
<1>2. ASSUME NEW d \in Callers \ {c}
      PROVE  CallerOK(d)' /\ Holds(d)' = Holds(d)
  <2>1. /\ phase'[d] = phase[d] /\ kind'[d] = kind[d] /\ cur'[d] = cur[d]
        /\ got'[d] = got[d] /\ req'[d] = req[d] /\ rsp'[d] = rsp[d]
    BY <1>2 DEF OthersKept
  <2>2. Holds(d) # Holds(c)
    BY <1>1 DEF IInv, HandlesDistinct
  <2>3. Holds(d) \in DOMAIN cursors => cursors'[Holds(d)] = cursors[Holds(d)]
    BY <2>2
  <2>4. CallerOK(d)
    BY DEF IInv
  <2>5. QED
    BY <2>1, <2>3, <2>4, CallerFrame, HoldsFrame DEF IInv
<1>3. HandlesDistinct'
  BY <1>2, DistinctKept DEF IInv
<1>4. QED
  BY <1>2, <1>3

\* A failed request leaves the server's cursors and the caller's handle.
\* A caller whose request the server has just answered stays consistent
\* when the answer continues its rows and the server keeps its handles.
LEMMA AnsweredOK ==
    ASSUME NEW c \in Callers, CallerOK(c),
           phase[c] \in {"opening", "fetching", "closing"},
           phase'[c] = phase[c], kind'[c] = kind[c], cur'[c] = cur[c],
           got'[c] = got[c], req'[c] = req[c],
           DOMAIN cursors' = DOMAIN cursors, rsp'[c] # NoRsp,
           phase[c] = "opening" => Continues(rsp[c], rsp[c].cursor, 0)',
           phase[c] = "fetching" => Continues(rsp[c], cur[c], Len(got[c]))'
    PROVE  CallerOK(c)'
<1>1. /\ IsRun(got[c], 0)
      /\ phase[c] \in Holding => cur[c] \in DOMAIN cursors
      /\ phase[c] = "opening" =>
            /\ got[c] = <<>>
            /\ req[c] = [op |-> "open", kind |-> kind[c], cursor |-> 0]
      /\ phase[c] = "fetching" =>
            req[c] = [op |-> "page", kind |-> kind[c], cursor |-> cur[c]]
      /\ phase[c] = "closing" =>
            req[c] = [op |-> "close", kind |-> kind[c], cursor |-> cur[c]]
  BY Zenon DEF CallerOK
<1>2. QED
  BY <1>1 DEF CallerOK, IsRun, Holding

LEMMA FailKeeps ==
    ASSUME IInv, TypeOK', NEW c \in Callers, Fail(c), cursors' = cursors,
           UNCHANGED <<phase, kind, cur, got, req>>,
           phase[c] \in {"opening", "fetching", "closing"}, rsp[c] = NoRsp
    PROVE  (\A d \in Callers : CallerOK(d))' /\ HandlesDistinct'
<1>1. OthersKept(c)
  BY DEF Fail, OthersKept, IInv, TypeOK
<1>2. rsp'[c] = [status |-> 1, cursor |-> 0, rows |-> <<>>, more |-> FALSE]
  BY DEF Fail, Answer, IInv, TypeOK
<1>3. CallerOK(c)'
  <2>1. CallerOK(c)
    BY DEF IInv
  <2>2. /\ Continues(rsp[c], rsp[c].cursor, 0)'
        /\ Continues(rsp[c], cur[c], Len(got[c]))'
        /\ rsp'[c] # NoRsp
    BY <1>2 DEF Continues, Answer, NoRsp
  <2>3. QED
    BY <2>1, <2>2, AnsweredOK
<1>4. Holds(c)' \in {0, Holds(c)}
  BY <1>2 DEF Holds, Holding
<1>5. QED
  BY <1>1, <1>3, <1>4, CallerStep

LEMMA ServeOpenKeeps ==
    ASSUME IInv, TypeOK', NEW c \in Callers, ServeOpen(c)
    PROVE  (\A d \in Callers : CallerOK(d))' /\ HandlesDistinct'
<1>1. phase[c] = "opening" /\ rsp[c] = NoRsp
  BY RequestPhase DEF ServeOpen, IInv
<1>2. CASE Fail(c) /\ UNCHANGED <<cursors, nextId>>
  BY <1>1, <1>2, FailKeeps DEF ServeOpen
<1>3. CASE /\ nextId <= MaxId
           /\ cursors' = [i \in 1..nextId |->
                            IF i = nextId
                            THEN [pos |-> Len(PageFrom(0)), state |-> "open"]
                            ELSE cursors[i]]
           /\ rsp' = [rsp EXCEPT ![c] =
                        [status |-> 0, cursor |-> nextId, rows |-> PageFrom(0),
                         more |-> Len(PageFrom(0)) < NRows]]
  <2> DEFINE pg == PageFrom(0)
  <2>1. /\ IsRun(pg, 0) /\ Len(pg) \in 0..NRows
    BY PageFromProps, CursorAssumption DEF CursorAssumption
  <2>2. /\ DOMAIN cursors = 1..nextId - 1 /\ nextId \in Nat \ {0}
    BY DEF IInv, TypeOK
  <2>3. /\ nextId \in DOMAIN cursors'
        /\ cursors'[nextId] = [pos |-> 0 + Len(pg), state |-> "open"]
        /\ DOMAIN cursors \subseteq DOMAIN cursors'
        /\ \A y \in DOMAIN cursors : cursors'[y] = cursors[y]
    <3>1. DOMAIN cursors' = 1..nextId
      BY <1>3
    <3>2. cursors'[nextId] = [pos |-> Len(pg), state |-> "open"]
      BY <1>3, <2>2
    <3>3. \A y \in DOMAIN cursors : cursors'[y] = cursors[y]
      BY <1>3, <2>2
    <3>4. QED
      BY <2>1, <2>2, <3>1, <3>2, <3>3
  <2>4. OthersKept(c)
    BY <1>3 DEF ServeOpen, OthersKept, IInv, TypeOK
  <2>5. rsp'[c] = [status |-> 0, cursor |-> nextId, rows |-> pg,
                   more |-> Len(pg) < NRows]
    BY <1>3 DEF IInv, TypeOK
  <2>6. CallerOK(c)'
    <3>1. Continues(rsp[c], rsp[c].cursor, 0)'
      <4>1. /\ rsp'[c].status = 0 /\ rsp'[c].cursor = nextId
            /\ rsp'[c].rows = pg
            /\ (rsp'[c].more <=> (Len(pg) < NRows))
        <5>1. rsp'[c].status = 0 /\ rsp'[c].cursor = nextId /\ rsp'[c].rows = pg
          BY <2>5
        <5>2. rsp'[c].more <=> (Len(pg) < NRows)
          BY <2>5, MoreOf
        <5>3. QED
          BY <5>1, <5>2
      <4>2. /\ rsp'[c].status = 0
            /\ IsRun(rsp'[c].rows, 0)
            /\ rsp'[c].cursor \in DOMAIN cursors'
            /\ cursors'[rsp'[c].cursor] =
                  [pos |-> 0 + Len(rsp'[c].rows), state |-> "open"]
            /\ 0 + Len(rsp'[c].rows) <= NRows
            /\ (rsp'[c].more <=> (0 + Len(rsp'[c].rows) < NRows))
        <5>1. IsRun(rsp'[c].rows, 0) /\ 0 + Len(rsp'[c].rows) <= NRows
          BY <2>1, <4>1
        <5>2. /\ rsp'[c].cursor \in DOMAIN cursors'
              /\ cursors'[rsp'[c].cursor] =
                    [pos |-> 0 + Len(rsp'[c].rows), state |-> "open"]
          BY <2>3, <4>1
        <5>3. (0 + Len(pg) < NRows) <=> (Len(pg) < NRows)
          BY <2>1
        <5>4. QED
          BY <4>1, <5>1, <5>2, <5>3
      <4>3. QED
        BY <4>2 DEF Continues, CursorAt
    <3>2. rsp'[c] # NoRsp
      BY <2>5 DEF NoRsp
    <3>3. /\ phase'[c] = phase[c] /\ kind'[c] = kind[c] /\ cur'[c] = cur[c]
          /\ got'[c] = got[c] /\ req'[c] = req[c]
          /\ DOMAIN cursors' = DOMAIN cursors \cup {nextId}
      <4>1. DOMAIN cursors' = DOMAIN cursors \cup {nextId}
        BY <1>3, <2>2
      <4>2. QED
        BY <1>3, <4>1 DEF ServeOpen
    <3>4. CallerOK(c)
      BY DEF IInv
    <3>5. QED
      BY <1>1, <3>1, <3>2, <3>3, <3>4 DEF CallerOK, IsRun, Holding
  <2>7. Holds(c)' = nextId
    <3>1. phase'[c] = "opening"
      BY <1>1, <1>3 DEF ServeOpen
    <3>2. rsp'[c] # NoRsp /\ rsp'[c].status = 0 /\ rsp'[c].cursor = nextId
      BY <2>5 DEF NoRsp
    <3>3. QED
      BY <3>1, <3>2 DEF Holds, Holding
  <2>8. ASSUME NEW d \in Callers \ {c}
        PROVE  CallerOK(d)' /\ Holds(d)' = Holds(d) /\ Holds(d) # nextId
    <3>1. /\ phase'[d] = phase[d] /\ kind'[d] = kind[d] /\ cur'[d] = cur[d]
          /\ got'[d] = got[d] /\ req'[d] = req[d] /\ rsp'[d] = rsp[d]
      BY <2>4, <2>8 DEF OthersKept
    <3>2. Holds(d) = 0 \/ Holds(d) \in DOMAIN cursors
      BY HoldsIssued DEF IInv
    <3>3. QED
      BY <2>2, <2>3, <3>1, <3>2, CallerFrame, HoldsFrame DEF IInv
  <2>9. QED
    <3>1. HandlesDistinct
      BY DEF IInv
    <3>2. \A d \in Callers \ {c} : Holds(d)' = Holds(d) /\ Holds(d) # nextId
      BY <2>8
    <3>3. Holds(c)' \in {0, nextId} /\ nextId # 0
      BY <2>2, <2>7
    <3>4. HandlesDistinct'
      BY <3>1, <3>2, <3>3, DistinctFresh
    <3>5. QED
      BY <2>6, <2>8, <3>4
<1>4. QED
  BY <1>2, <1>3 DEF ServeOpen

LEMMA ServePageKeeps ==
    ASSUME IInv, TypeOK', NEW c \in Callers, ServePage(c)
    PROVE  (\A d \in Callers : CallerOK(d))' /\ HandlesDistinct'
<1> DEFINE id == cur[c]  n == Len(got[c])
<1>1. /\ phase[c] = "fetching" /\ rsp[c] = NoRsp
      /\ req[c].cursor = id /\ CursorAt(id, n)
  <2>1. TypeOK /\ CallerOK(c)
    BY DEF IInv
  <2>2. req[c].op = "page" /\ rsp[c] = NoRsp
    BY DEF ServePage
  <2>3. phase[c] = "fetching"
    BY <2>1, <2>2, RequestPhase
  <2>4. /\ req[c] = [op |-> "page", kind |-> kind[c], cursor |-> cur[c]]
        /\ CursorAt(cur[c], Len(got[c]))
    BY <2>1, <2>2, <2>3, Zenon DEF CallerOK
  <2>5. QED
    BY <2>2, <2>3, <2>4
<1>2. CASE Fail(c) /\ UNCHANGED cursors
  BY <1>1, <1>2, FailKeeps DEF ServePage
<1>3. CASE /\ id \in DOMAIN cursors
           /\ cursors' = [cursors EXCEPT ![id].pos = @ + Len(PageFrom(n))]
           /\ rsp' = [rsp EXCEPT ![c] =
                        [status |-> 0, cursor |-> 0, rows |-> PageFrom(n),
                         more |-> n + Len(PageFrom(n)) < NRows]]
  <2> DEFINE pg == PageFrom(n)
  <2>1. n \in 0..NRows
    <3>1. cursors[id].pos \in 0..NRows
      BY <1>1 DEF CursorAt, IInv, TypeOK
    <3>2. QED
      BY <1>1, <3>1 DEF CursorAt
  <2>2. IsRun(pg, n) /\ n + Len(pg) \in 0..NRows
    BY <2>1, PageFromProps
  <2>3. /\ DOMAIN cursors' = DOMAIN cursors
        /\ cursors'[id] = [pos |-> n + Len(pg), state |-> "open"]
        /\ \A y \in DOMAIN cursors \ {id} : cursors'[y] = cursors[y]
    <3>1. id \in DOMAIN cursors /\ cursors[id] = [pos |-> n, state |-> "open"]
      BY <1>1 DEF CursorAt
    <3>2. cursors'[id] = [cursors[id] EXCEPT !.pos = cursors[id].pos + Len(pg)]
      BY <1>3, <3>1
    <3>3. /\ DOMAIN cursors' = DOMAIN cursors
          /\ \A y \in DOMAIN cursors \ {id} : cursors'[y] = cursors[y]
      BY <1>3
    <3>4. cursors'[id] = [pos |-> n + Len(pg), state |-> "open"]
      <4>1. cursors'[id].pos = n + Len(pg) /\ cursors'[id].state = "open"
        BY <3>1, <3>2
      <4>2. cursors'[id] \in [pos : 0..NRows, state : {"open", "closed"}]
        BY <3>1, <3>3 DEF TypeOK
      <4>3. QED
        BY <4>1, <4>2
    <3>5. QED
      BY <3>3, <3>4
  <2>4. OthersKept(c) /\ UNCHANGED <<phase, cur, got, req>>
    BY <1>3 DEF ServePage, OthersKept, IInv, TypeOK
  <2>5. rsp'[c] = [status |-> 0, cursor |-> 0, rows |-> pg,
                   more |-> n + Len(pg) < NRows]
    BY <1>3 DEF IInv, TypeOK
  <2>6. CallerOK(c)'
    <3>1. Continues(rsp[c], cur[c], Len(got[c]))'
      <4>1. /\ rsp'[c].status = 0 /\ rsp'[c].rows = pg
            /\ (rsp'[c].more <=> (n + Len(pg) < NRows))
        <5>1. rsp'[c].status = 0 /\ rsp'[c].rows = pg
          BY <2>5
        <5>2. rsp'[c].more <=> (n + Len(pg) < NRows)
          BY <2>5, MoreOf
        <5>3. QED
          BY <5>1, <5>2
      <4>2. cur'[c] = id /\ got'[c] = got[c]
        BY <2>4
      <4>3. /\ rsp'[c].status = 0
            /\ IsRun(rsp'[c].rows, Len(got'[c]))
            /\ cur'[c] \in DOMAIN cursors'
            /\ cursors'[cur'[c]] =
                  [pos |-> Len(got'[c]) + Len(rsp'[c].rows), state |-> "open"]
            /\ Len(got'[c]) + Len(rsp'[c].rows) <= NRows
            /\ (rsp'[c].more <=> (Len(got'[c]) + Len(rsp'[c].rows) < NRows))
        <5>1. id \in DOMAIN cursors
          BY <1>1 DEF CursorAt
        <5>2. IsRun(rsp'[c].rows, Len(got'[c]))
              /\ Len(got'[c]) + Len(rsp'[c].rows) <= NRows
          <6>1. IsRun(rsp'[c].rows, Len(got'[c]))
            BY <2>2, <4>1, <4>2, Zenon
          <6>2. Len(got'[c]) + Len(rsp'[c].rows) \in 0..NRows
            BY <2>2, <4>1, <4>2, Zenon
          <6>3. \A x \in 0..NRows : x <= NRows
            OBVIOUS
          <6>4. QED
            BY <6>1, <6>2, <6>3, Zenon
        <5>3. /\ cur'[c] \in DOMAIN cursors'
              /\ cursors'[cur'[c]] =
                    [pos |-> Len(got'[c]) + Len(rsp'[c].rows), state |-> "open"]
          BY <2>3, <4>1, <4>2, <5>1
        <5>4. (Len(got'[c]) + Len(rsp'[c].rows) < NRows) <=> (n + Len(pg) < NRows)
          BY <4>1, <4>2
        <5>5. QED
          BY <4>1, <5>2, <5>3, <5>4
      <4>4. QED
        BY <4>3 DEF Continues, CursorAt
    <3>2. rsp'[c] # NoRsp /\ kind'[c] = kind[c]
      BY <2>5 DEF NoRsp, ServePage, IInv, TypeOK
    <3>3. CallerOK(c)
      BY DEF IInv
    <3>4. QED
      BY <1>1, <2>3, <2>4, <3>1, <3>2, <3>3, AnsweredOK
  <2>7. Holds(c)' = Holds(c) /\ Holds(c) = id
    BY <1>1, <2>4 DEF Holds, Holding
  <2>8. QED
    BY <1>3, <2>3, <2>4, <2>6, <2>7, ServerTouchesOne
<1>4. QED
  <2>1. cursors[id].pos = n
    BY <1>1 DEF CursorAt
  <2>2. QED
    BY <1>1, <1>2, <1>3, <2>1 DEF ServePage

LEMMA ServeCloseKeeps ==
    ASSUME IInv, TypeOK', NEW c \in Callers, ServeClose(c)
    PROVE  (\A d \in Callers : CallerOK(d))' /\ HandlesDistinct'
<1> DEFINE id == cur[c]
<1>1. /\ phase[c] = "closing" /\ rsp[c] = NoRsp
      /\ req[c].cursor = id /\ id \in DOMAIN cursors
  <2>1. TypeOK /\ CallerOK(c)
    BY DEF IInv
  <2>2. req[c].op = "close" /\ rsp[c] = NoRsp
    BY DEF ServeClose
  <2>3. phase[c] = "closing"
    BY <2>1, <2>2, RequestPhase
  <2>4. /\ req[c] = [op |-> "close", kind |-> kind[c], cursor |-> cur[c]]
        /\ cur[c] \in DOMAIN cursors
    BY <2>1, <2>2, <2>3, Zenon DEF CallerOK, Holding
  <2>5. QED
    BY <2>2, <2>3, <2>4
<1>2. CASE Fail(c) /\ UNCHANGED cursors
  BY <1>1, <1>2, FailKeeps DEF ServeClose
<1>3. CASE /\ cursors' = [cursors EXCEPT ![id].state = "closed"]
           /\ rsp' = [rsp EXCEPT ![c] = Answer(0)]
  <2>1. /\ DOMAIN cursors' = DOMAIN cursors
        /\ \A y \in DOMAIN cursors \ {id} : cursors'[y] = cursors[y]
    BY <1>3
  <2>2. OthersKept(c) /\ UNCHANGED <<phase, kind, cur, got, req>>
    BY <1>3 DEF ServeClose, OthersKept, IInv, TypeOK
  <2>3. CallerOK(c)'
    <3>1. rsp'[c] # NoRsp
      BY <1>3 DEF Answer, NoRsp, IInv, TypeOK
    <3>2. CallerOK(c)
      BY DEF IInv
    <3>3. QED
      BY <1>1, <2>1, <2>2, <3>1, <3>2, AnsweredOK
  <2>4. Holds(c)' = Holds(c) /\ Holds(c) = id
    BY <1>1, <2>2 DEF Holds, Holding
  <2>5. QED
    BY <1>1, <2>1, <2>2, <2>3, <2>4, ServerTouchesOne
<1>4. QED
  BY <1>1, <1>2, <1>3 DEF ServeClose

LEMMA IInvStep == IInv /\ [Next]_vars => IInv'
<1> SUFFICES ASSUME IInv, [Next]_vars PROVE IInv'
  OBVIOUS
<1>1. TypeOK' /\ FcWidth' /\ NoFault'
  BY NoFaultStep DEF IInv, NoFaultInv
<1>2. (\A d \in Callers : CallerOK(d))' /\ HandlesDistinct'
  <2>1. ASSUME NEW c \in Callers,
               \/ Open(c) \/ OpenDone(c) \/ Fetch(c) \/ ScanPageDone(c)
               \/ FieldsPageDone(c) \/ Close(c) \/ CloseDone(c) \/ Leave(c)
               \/ ServeOpen(c) \/ ServePage(c) \/ ServeClose(c)
        PROVE  (\A d \in Callers : CallerOK(d))' /\ HandlesDistinct'
    BY <1>1, <2>1, OpenKeeps, OpenDoneKeeps, FetchCloseKeeps,
       ScanPageDoneKeeps, FieldsPageDoneKeeps, CloseDoneLeaveKeeps,
       ServeOpenKeeps, ServePageKeeps, ServeCloseKeeps
  <2>2. CASE Terminated \/ UNCHANGED vars
    <3>1. /\ phase' = phase /\ kind' = kind /\ cur' = cur /\ got' = got
          /\ req' = req /\ rsp' = rsp /\ cursors' = cursors
      BY <2>2 DEF Terminated, vars
    <3>2. ASSUME NEW d \in Callers
          PROVE  CallerOK(d)' /\ Holds(d)' = Holds(d)
      BY <3>1, CallerFrame, HoldsFrame DEF IInv
    <3>3. QED
      BY <3>2 DEF IInv, HandlesDistinct
  <2>3. QED
    BY <2>1, <2>2 DEF Next
<1>3. QED
  BY <1>1, <1>2 DEF IInv

\* The invariant gives the property: a run from row 1 is the rows 1, 2, ...
LEMMA IInvPagesExact == IInv => PagesExact
<1> SUFFICES ASSUME IInv, NEW c \in Callers
             PROVE  /\ got[c] = [i \in 1..Len(got[c]) |-> i]
                    /\ phase[c] = "drained" => Len(got[c]) = NRows
  BY DEF PagesExact
<1>1. CallerOK(c)
  BY DEF IInv
<1>2. IsRun(got[c], 0) /\ (phase[c] = "drained" => Len(got[c]) = NRows)
  BY <1>1, Zenon DEF CallerOK
<1>3. [i \in 1..Len(got[c]) |-> 0 + i] = [i \in 1..Len(got[c]) |-> i]
  OBVIOUS
<1>4. QED
  BY <1>2, <1>3 DEF IsRun

(***************************************************************************)
(* Paged results are complete and exact (PagesExact, checked by            *)
(* cursor_paging), for any number of callers, rows, page size and width:  *)
(* the rows every caller has gathered from the first page of               *)
(* scan/sql/sql_fields and the *_cursor_get_page calls after it are the    *)
(* cache's rows from the first, each once and in order, and a caller that  *)
(* has seen `more` false has all of them.  It rests on CallerOK (the       *)
(* server's cursor stands where the caller's rows end) and on              *)
(* HandlesDistinct (no caller's page or close request moves another        *)
(* caller's cursor).                                                       *)
(***************************************************************************)
THEOREM PagesExactHolds == Spec => []PagesExact
<1>1. Init => IInv
  BY IInvInit
<1>2. IInv /\ [Next]_vars => IInv'
  BY IInvStep
<1>3. IInv => PagesExact
  BY IInvPagesExact
<1>4. QED
  BY <1>1, <1>2, <1>3, PTL DEF Spec

-----------------------------------------------------------------------------
(***************************************************************************)
(* The cursor protocol implements the paged-query service.                 *)
(***************************************************************************)

\* What the refinement mapping makes of done: the caller has seen the end.
DoneMap == [c \in Callers |-> phase[c] = "drained"]

\* A page holds at most PageSize rows.
LEMMA PageLen ==
    ASSUME NEW x \in Page
    PROVE  Len(x) \in 0..PageSize
BY CursorAssumption DEF Page, CursorAssumption

\* A step that keeps every caller's rows and whether it has seen the end is
\* a stutter of the service.
LEMMA ServiceStutter ==
    ASSUME got' = got,
           \A d \in Callers : (phase'[d] = "drained") = (phase[d] = "drained")
    PROVE  [Service!Next]_<<got, DoneMap>>
BY DEF DoneMap

\* Decoding a page (the first or a later one) that continues the caller's
\* rows is a delivery of the service.
LEMMA DeliverStep ==
    ASSUME IInv, TypeOK', NEW c \in Callers,
           phase[c] \in {"opening", "fetching"},
           NEW r \in Response, r.status = 0,
           IsRun(r.rows, Len(got[c])),
           Len(got[c]) + Len(r.rows) <= NRows,
           (r.more <=> (Len(got[c]) + Len(r.rows) < NRows)),
           got' = [got EXCEPT ![c] = @ \o r.rows],
           phase' = [phase EXCEPT ![c] =
                        IF r.more THEN "reading" ELSE "drained"]
    PROVE  Service!Deliver(c)
<1> DEFINE n == Len(got[c])  k == Len(r.rows)
<1>1. k \in 0..PageSize
  BY PageLen DEF Response
<1>2. r.rows = [i \in 1..k |-> n + i]
  BY DEF IsRun
<1>3. ~DoneMap[c]
  BY DEF DoneMap
<1>4. DoneMap' = [DoneMap EXCEPT ![c] = (n + k = NRows)]
  <2>1. r.more \in BOOLEAN /\ n \in Nat /\ k \in Nat
    BY <1>1 DEF Response, IInv, TypeOK
  <2>2. CASE r.more
    <3>1. ~(n + k = NRows)
      BY <2>1, <2>2, MorePageNotLast, CursorAssumption, Zenon
         DEF CursorAssumption
    <3>2. DoneMap' = [DoneMap EXCEPT ![c] = FALSE]
      BY <2>2 DEF DoneMap, IInv, TypeOK
    <3>3. QED
      BY <3>1, <3>2, Zenon
  <2>3. CASE ~r.more
    <3>1. n + k = NRows
      BY <2>1, <2>3, LastPageEnds, CursorAssumption, Zenon
         DEF CursorAssumption
    <3>2. DoneMap' = [DoneMap EXCEPT ![c] = TRUE]
      BY <2>3 DEF DoneMap, IInv, TypeOK
    <3>3. QED
      BY <3>1, <3>2, Zenon
  <2>4. QED
    BY <2>1, <2>2, <2>3
<1>5. got' = [got EXCEPT ![c] = @ \o [i \in 1..k |-> n + i]]
  BY <1>2
<1>6. QED
  BY <1>1, <1>3, <1>4, <1>5 DEF Service!Deliver, DoneMap

LEMMA ServiceStep == IInv /\ [Next]_vars => [Service!Next]_<<got, DoneMap>>
<1> SUFFICES ASSUME IInv, [Next]_vars
             PROVE  [Service!Next]_<<got, DoneMap>>
  OBVIOUS
<1>0. TypeOK'
  BY TypeOKStep DEF IInv
<1>1. ASSUME NEW c \in Callers, Open(c) PROVE Service!Start(c)
  <2>1. got' = [got EXCEPT ![c] = <<>>]
    BY <1>1 DEF Open
  <2>2. DoneMap' = [DoneMap EXCEPT ![c] = FALSE]
    BY <1>1 DEF Open, DoneMap, IInv, TypeOK
  <2>3. QED
    BY <2>1, <2>2 DEF Service!Start, DoneMap
<1>2. ASSUME NEW c \in Callers, OpenDone(c)
      PROVE  [Service!Next]_<<got, DoneMap>>
  <2> DEFINE r == rsp[c]
  <2>1. /\ phase[c] = "opening" /\ r # NoRsp /\ r \in Response
        /\ got[c] = <<>> /\ Continues(r, r.cursor, 0)
    BY <1>2 DEF OpenDone, IInv, TypeOK, CallerOK
  <2>2. CASE r.status = 0
    <3>1. got' = [got EXCEPT ![c] = @ \o r.rows]
      <4>1. got' = [got EXCEPT ![c] = r.rows]
        BY <1>2, <2>2 DEF OpenDone
      <4>2. r.rows \in Seq(1..NRows \cup {Garbled})
        BY <2>1, PageSeq DEF Response
      <4>3. got[c] \o r.rows = r.rows
        BY <2>1, <4>2
      <4>4. QED
        BY <4>1, <4>3 DEF IInv, TypeOK
    <3>2. phase' = [phase EXCEPT ![c] =
                       IF r.more THEN "reading" ELSE "drained"]
      BY <1>2, <2>2 DEF OpenDone
    <3>3. /\ IsRun(r.rows, Len(got[c]))
          /\ Len(got[c]) + Len(r.rows) <= NRows
          /\ (r.more <=> (Len(got[c]) + Len(r.rows) < NRows))
      BY <2>1, <2>2 DEF Continues
    <3>4. Service!Deliver(c)
      BY <1>0, <2>1, <2>2, <3>1, <3>2, <3>3, DeliverStep
    <3>5. QED
      BY <3>4 DEF Service!Next
  <2>3. CASE r.status # 0
    <3>1. got' = got /\ phase' = [phase EXCEPT ![c] = "idle"]
      BY <1>2, <2>3 DEF OpenDone
    <3>2. QED
      BY <2>1, <3>1, ServiceStutter DEF IInv, TypeOK
  <2>4. QED
    BY <2>2, <2>3
<1>3. ASSUME NEW c \in Callers, ScanPageDone(c) \/ FieldsPageDone(c)
      PROVE  [Service!Next]_<<got, DoneMap>>
  <2> DEFINE r == rsp[c]
  <2>1. /\ phase[c] = "fetching" /\ r # NoRsp /\ r \in Response
        /\ Continues(r, cur[c], Len(got[c])) /\ fc[c] = Width
    BY <1>3 DEF ScanPageDone, FieldsPageDone, IInv, TypeOK, CallerOK,
                FcWidth
  <2>2. /\ ~FieldsRaises(r.rows, Columns(fc[c]))
        /\ FieldsRows(r.rows, Columns(fc[c])) = r.rows
        /\ FieldsMore(r.rows, r.more, Columns(fc[c])) = r.more
    BY <2>1, FieldsAtWidth
  <2>3. CASE r.status = 0
    <3>1. /\ got' = [got EXCEPT ![c] = @ \o r.rows]
          /\ phase' = [phase EXCEPT ![c] =
                          IF r.more THEN "reading" ELSE "drained"]
      BY <1>3, <2>2, <2>3 DEF ScanPageDone, FieldsPageDone
    <3>2. /\ IsRun(r.rows, Len(got[c]))
          /\ Len(got[c]) + Len(r.rows) <= NRows
          /\ (r.more <=> (Len(got[c]) + Len(r.rows) < NRows))
      <4>1. Len(got[c]) \in Nat
        BY DEF IInv, TypeOK
      <4>2. QED
        BY <2>1, <2>3, <4>1, ContinuesOK
    <3>3. QED
      BY <1>0, <2>1, <2>3, <3>1, <3>2, DeliverStep DEF Service!Next
  <2>4. CASE r.status # 0
    <3>1. got' = got /\ phase' = [phase EXCEPT ![c] = "idle"]
      BY <1>3, <2>2, <2>4 DEF ScanPageDone, FieldsPageDone
    <3>2. QED
      BY <2>1, <3>1, ServiceStutter DEF IInv, TypeOK
  <2>5. QED
    BY <2>3, <2>4
<1>4. ASSUME NEW c \in Callers, Close(c) \/ Leave(c)
      PROVE  [Service!Next]_<<got, DoneMap>>
  <2>1. got' = got /\ phase[c] \in {"reading", "drained"}
        /\ phase' = [phase EXCEPT ![c] = phase'[c]]
        /\ phase'[c] \in {"closing", "idle"}
    BY <1>4 DEF Close, Leave, IInv, TypeOK
  <2>2. CASE phase[c] = "drained"
    <3>1. DoneMap[c] /\ DoneMap' = [DoneMap EXCEPT ![c] = FALSE]
      BY <2>1, <2>2 DEF DoneMap, IInv, TypeOK
    <3>2. QED
      BY <2>1, <3>1 DEF Service!Next, Service!Stop, DoneMap
  <2>3. CASE phase[c] = "reading"
    BY <2>1, <2>3, ServiceStutter DEF IInv, TypeOK
  <2>4. QED
    BY <2>1, <2>2, <2>3
<1>5. ASSUME NEW c \in Callers,
             Fetch(c) \/ CloseDone(c) \/ ServeOpen(c) \/ ServePage(c)
             \/ ServeClose(c)
      PROVE  [Service!Next]_<<got, DoneMap>>
  <2>1. got' = got
    BY <1>5 DEF Fetch, CloseDone, ServeOpen, ServePage, ServeClose
  <2>2. \A d \in Callers : (phase'[d] = "drained") = (phase[d] = "drained")
    BY <1>5 DEF Fetch, CloseDone, ServeOpen, ServePage, ServeClose, IInv,
                TypeOK
  <2>3. QED
    BY <2>1, <2>2, ServiceStutter
<1>6. CASE Terminated \/ UNCHANGED vars
  BY <1>6, ServiceStutter DEF Terminated, vars
<1>7. QED
  BY <1>1, <1>2, <1>3, <1>4, <1>5, <1>6 DEF Next, Service!Next


(***************************************************************************)
(* The cursor protocol implements the paged-query service                  *)
(* (ImplementsService, checked by cursor_paging), for any number of       *)
(* callers, rows, page size and width: under the mapping rows <- got,     *)
(* done <- "the caller is drained", every step of a caller or of the       *)
(* server is a Start (an open resets the rows), a Deliver (decoding the   *)
(* first page of scan/sql/sql_fields or a *_cursor_get_page answer adds   *)
(* the next rows, with `more` false exactly at the last one), a Stop      *)
(* (closing or leaving a drained cursor) or a stutter (requests, failed   *)
(* answers, the server's own steps).  It rests on the invariant IInv of   *)
(* PagesExactHolds: the answer waiting for a caller continues its rows.   *)
(***************************************************************************)
THEOREM ImplementsServiceHolds == Spec => ImplementsService
<1>1. Init => Service!Init
  BY DEF Init, Service!Init, DoneMap
<1>2. Spec => []IInv
  BY IInvInit, IInvStep, PTL DEF Spec
<1>3. QED
  BY <1>1, <1>2, ServiceStep, PTL DEF Spec, ImplementsService, Service!Spec,
                                     DoneMap

=============================================================================
