------------------------ MODULE QueryPerformProofs ------------------------
(***************************************************************************)
(* Proofs about QueryPerform for every set of callers and every bound.    *)
(*                                                                         *)
(* TypeCorrect: every reachable state is well typed; in particular an     *)
(* APIResult carries a value exactly when its status is 0.                *)
(*                                                                         *)
(* CooperativeNoLostUpdate: under the asyncio scheduler no update of the  *)
(* client's affinity_version is lost.  NoLostUpdate is not inductive by   *)
(* itself: a task that has read old_affinity must still see the current  *)
(* value when it writes.  The strengthening adds SingleUpdater (at most   *)
(* one task is between the read and the write) and ReadIsCurrent (that    *)
(* task's old_affinity equals the shared value); both hold because a task *)
(* is not suspended inside __post_process_response.                       *)
(***************************************************************************)
EXTENDS QueryPerform, TLAPS

\* At most one asyncio task is between reading and writing affinity_version.
SingleUpdater ==
    \A p, q \in Procs : pc[p] = "update" /\ pc[q] = "update" => p = q

\* The task in that section read the value that is still current.
ReadIsCurrent ==
    \A p \in Procs : pc[p] = "update" => old[p] = aff

IInv ==
    /\ TypeOK
    /\ SingleUpdater
    /\ ReadIsCurrent
    /\ NoLostUpdate

-----------------------------------------------------------------------------
(***************************************************************************)
(* Lemmas on the order of affinity versions (Python tuple comparison).    *)
(***************************************************************************)

\* Taking the greater of two versions bounds both of them.
LEMMA RaiseBounds ==
    ASSUME NEW a \in Version, NEW v \in Version
    PROVE  LET m == IF VerGT(v, a) THEN v ELSE a
           IN  VerLE(a, m) /\ VerLE(v, m)
BY DEF Version, VerGT, VerLE

\* The order is transitive: a version below a is below any m above a.
LEMMA LETransitive ==
    ASSUME NEW w \in Version, NEW a \in Version, NEW m \in Version,
           VerLE(w, a), VerLE(a, m)
    PROVE  VerLE(w, m)
BY DEF Version, VerGT, VerLE

-----------------------------------------------------------------------------

\* The result a caller builds from its response is an APIResult that holds a
\* value exactly when its status is 0.
LEMMA CompleteTyped ==
    ASSUME TypeOK, NEW p \in Procs
    PROVE  Complete(p) \in Result
<1>1. resp[p] \in Response \cup {NoResp}
  BY DEF TypeOK
<1>2. CASE resp[p] \in Response
  <2>1. resp[p].status \in Statuses
    BY <1>2 DEF Response
  <2>2. QED
    BY <2>1 DEF Complete, Result
<1>3. CASE resp[p] = NoResp
  <2>1. resp[p].status = -1
    BY <1>3 DEF NoResp
  <2>2. (resp[p].status = 0) = FALSE
    BY <2>1
  <2>3. Complete(p) = NoResult
    BY <2>1, <2>2 DEF Complete, NoResult
  <2>4. QED
    BY <2>3 DEF Result
<1>4. QED
  BY <1>1, <1>2, <1>3

\* perform ends with such an APIResult or raises.
LEMMA DecodedTyped ==
    ASSUME TypeOK, NEW p \in Procs
    PROVE  Decoded(p) \subseteq Result
BY CompleteTyped DEF Decoded, Result

\* One step of the specification preserves TypeOK.
LEMMA TypeOKStep == TypeOK /\ [Next]_vars => TypeOK'
<1> USE ConstantsAssumption
<1> SUFFICES ASSUME TypeOK, [Next]_vars PROVE TypeOK'
  OBVIOUS
<1>1. ASSUME NEW p \in Procs, Send(p) PROVE TypeOK'
  BY <1>1 DEF Send, TypeOK, Result, Raised, NoResult, NoResp, Response,
              PCs, CacheInfoRaises
<1>2. ASSUME NEW p \in Procs, ServerReply(p) PROVE TypeOK'
  BY <1>2 DEF ServerReply, TypeOK, Response, NoResp
<1>3. ASSUME NEW p \in Procs, Receive(p) PROVE TypeOK'
  BY <1>3, DecodedTyped DEF Receive, TypeOK, PCs
<1>4. ASSUME NEW p \in Procs, Update(p) PROVE TypeOK'
  <2>1. resp[p].ver \in Versions
    BY DEF TypeOK, Response, NoResp, InitAff, Versions
  <2>2. QED
    BY <1>4, <2>1, DecodedTyped DEF Update, TypeOK, PCs, Response
<1>5. CASE ClusterChange
  BY <1>5 DEF ClusterChange, TypeOK, Versions
<1>6. CASE Terminated \/ UNCHANGED vars
  BY <1>6 DEF Terminated, vars, TypeOK
<1>7. QED
  BY <1>1, <1>2, <1>3, <1>4, <1>5, <1>6 DEF Next

(***************************************************************************)
(* Every reachable state is well typed, and an APIResult holds a value    *)
(* exactly when its status is 0 (TypeOK, checked by async_no_lost_update). *)
(***************************************************************************)
THEOREM TypeCorrect == Spec => []TypeOK
<1>1. Init => TypeOK
  BY ConstantsAssumption
  DEF Init, TypeOK, Versions, InitAff, NoResp, Response, Result, NoResult, PCs
<1>2. QED
  BY <1>1, TypeOKStep, PTL DEF Spec

-----------------------------------------------------------------------------

\* The strengthened invariant holds initially.
LEMMA IInvInit == Init => IInv
BY ConstantsAssumption
DEF Init, IInv, TypeOK, Versions, InitAff, NoResp, Response, Result,
    NoResult, PCs, SingleUpdater, ReadIsCurrent, NoLostUpdate

\* Under the asyncio scheduler every step preserves the strengthened
\* invariant: Runnable keeps other tasks out of a task's read-compare-write.
LEMMA IInvStep ==
    ASSUME Cooperative PROVE IInv /\ [Next]_vars => IInv'
<1> USE ConstantsAssumption
<1> SUFFICES ASSUME IInv, [Next]_vars PROVE IInv'
  OBVIOUS
<1>0. TypeOK'
  BY TypeOKStep DEF IInv
<1>1. ASSUME NEW p \in Procs, Send(p) PROVE IInv'
  BY <1>0, <1>1 DEF Send, IInv, TypeOK, SingleUpdater, ReadIsCurrent,
                    NoLostUpdate
<1>2. ASSUME NEW p \in Procs, ServerReply(p) PROVE IInv'
  BY <1>0, <1>2 DEF ServerReply, IInv, SingleUpdater, ReadIsCurrent,
                    NoLostUpdate
<1>3. ASSUME NEW p \in Procs, Receive(p) PROVE IInv'
  <2>1. \A q \in Procs \ {p} : pc[q] # "update"
    BY <1>3 DEF Receive, Runnable
  <2>2. SingleUpdater'
    BY <1>3, <2>1 DEF Receive, IInv, TypeOK, SingleUpdater
  <2>3. ReadIsCurrent'
    BY <1>3, <2>1 DEF Receive, IInv, TypeOK, ReadIsCurrent
  <2>4. NoLostUpdate'
    BY <1>3 DEF Receive, IInv, NoLostUpdate
  <2>5. QED
    BY <1>0, <2>2, <2>3, <2>4 DEF IInv
<1>4. ASSUME NEW p \in Procs, Update(p) PROVE IInv'
  <2> DEFINE v == resp[p].ver
             m == IF VerGT(v, aff) THEN v ELSE aff
  <2>1. old[p] = aff /\ aff' = m
    BY <1>4 DEF Update, IInv, ReadIsCurrent
  <2>2. \A q \in Procs \ {p} : pc[q] # "update"
    BY <1>4 DEF Update, IInv, SingleUpdater
  <2>3. v \in Version /\ aff \in Version
    BY DEF IInv, TypeOK, Response, NoResp, InitAff, Versions, Version
  <2>4. VerLE(aff, m) /\ VerLE(v, m)
    BY <2>3, RaiseBounds
  <2>5. NoLostUpdate'
    <3> SUFFICES ASSUME NEW w \in applied' PROVE VerLE(w, aff')
      BY DEF NoLostUpdate
    <3>1. CASE w = v
      BY <3>1, <2>1, <2>4
    <3>2. CASE w \in applied
      <4>1. VerLE(w, aff) /\ w \in Version
        BY <3>2 DEF IInv, NoLostUpdate, TypeOK, Versions, Version
      <4>2. m \in Version
        BY <2>3
      <4>3. QED
        BY <4>1, <4>2, <2>1, <2>3, <2>4, LETransitive
    <3>3. QED
      BY <3>1, <3>2, <1>4 DEF Update
  <2>6. SingleUpdater' /\ ReadIsCurrent'
    BY <1>4, <2>2 DEF Update, IInv, TypeOK, SingleUpdater, ReadIsCurrent
  <2>7. QED
    BY <1>0, <2>5, <2>6 DEF IInv
<1>5. CASE ClusterChange
  BY <1>0, <1>5 DEF ClusterChange, IInv, SingleUpdater, ReadIsCurrent,
                    NoLostUpdate
<1>6. CASE Terminated \/ UNCHANGED vars
  BY <1>0, <1>6 DEF Terminated, vars, IInv, SingleUpdater, ReadIsCurrent,
                    NoLostUpdate
<1>7. QED
  BY <1>1, <1>2, <1>3, <1>4, <1>5, <1>6 DEF Next

(***************************************************************************)
(* With asyncio tasks (Cooperative) no caller's affinity update is lost:  *)
(* NoLostUpdate, checked by the run async_no_lost_update, holds for every *)
(* number of tasks and every bound.                                       *)
(***************************************************************************)
THEOREM CooperativeNoLostUpdate ==
    ASSUME Cooperative PROVE Spec => []NoLostUpdate
<1>1. IInv /\ [Next]_vars => IInv'
  BY IInvStep
<1>2. QED
  BY IInvInit, <1>1, PTL DEF Spec, IInv

(***************************************************************************)
(* With asyncio tasks, perform implements the specification of the        *)
(* affinity version (ImplementsAffinity, checked by async_no_lost_update): *)
(* every step is an atomic "raise if greater" with the version its        *)
(* response announced, or leaves the version and the applied set alone.   *)
(* The step of Update is one because ReadIsCurrent holds: the task's      *)
(* old_affinity is the current version when it writes.                    *)
(***************************************************************************)
THEOREM CooperativeImplementsAffinity ==
    ASSUME Cooperative PROVE Spec => ImplementsAffinity
<1> USE ConstantsAssumption
<1>1. Init => Affinity!Init
  BY DEF Init, Affinity!Init, InitAff
<1>2. IInv /\ [Next]_vars => [Affinity!Next]_<<aff, applied>>
  <2> SUFFICES ASSUME IInv, [Next]_vars
               PROVE  [Affinity!Next]_<<aff, applied>>
    OBVIOUS
  <2>1. ASSUME NEW p \in Procs, Update(p)
        PROVE  Affinity!Next
    <3>1. resp[p].ver \in Versions
      BY DEF IInv, TypeOK, Response, NoResp, InitAff, Versions
    <3>2. old[p] = aff
      BY <2>1 DEF Update, IInv, ReadIsCurrent
    <3>3. Affinity!RaiseIfGreater(resp[p].ver)
      BY <2>1, <3>2 DEF Update, Affinity!RaiseIfGreater, Affinity!Greater,
                        VerGT
    <3>4. QED
      BY <3>1, <3>3 DEF Affinity!Next
  <2>2. ASSUME NEW p \in Procs, Send(p) \/ ServerReply(p) \/ Receive(p)
        PROVE  UNCHANGED <<aff, applied>>
    BY <2>2 DEF Send, ServerReply, Receive
  <2>3. CASE ClusterChange \/ Terminated \/ UNCHANGED vars
    BY <2>3 DEF ClusterChange, Terminated, vars
  <2>4. QED
    BY <2>1, <2>2, <2>3 DEF Next
<1>3. Spec => []IInv
  BY IInvInit, IInvStep, PTL DEF Spec
<1>4. QED
  BY <1>1, <1>2, <1>3, PTL DEF Spec, ImplementsAffinity, Affinity!Spec


-----------------------------------------------------------------------------
\* Under the asyncio scheduler a step leaves affinity_version alone or moves
\* it up: Update writes the greater of the current version and its own.
LEMMA NeverRegressesStep ==
    ASSUME Cooperative, IInv, [Next]_vars
    PROVE  [VerLE(aff, aff')]_aff
<1> USE ConstantsAssumption
<1>1. ASSUME NEW p \in Procs, Update(p) PROVE VerLE(aff, aff')
  <2> DEFINE v == resp[p].ver
  <2>1. old[p] = aff /\ aff' = IF VerGT(v, aff) THEN v ELSE aff
    BY <1>1 DEF Update, IInv, ReadIsCurrent
  <2>2. v \in Version /\ aff \in Version
    BY DEF IInv, TypeOK, Response, NoResp, InitAff, Versions, Version
  <2>3. QED
    BY <2>1, <2>2, RaiseBounds
<1>2. ASSUME NEW p \in Procs, Send(p) \/ ServerReply(p) \/ Receive(p)
      PROVE  UNCHANGED aff
  BY <1>2 DEF Send, ServerReply, Receive
<1>3. CASE ClusterChange \/ Terminated \/ UNCHANGED vars
  BY <1>3 DEF ClusterChange, Terminated, vars
<1>4. QED
  BY <1>1, <1>2, <1>3 DEF Next

(***************************************************************************)
(* With asyncio tasks the client's affinity_version never goes back       *)
(* (AffinityNeverRegresses, checked by async_no_lost_update): whatever     *)
(* order the tasks' responses arrive in, a task's post-processing only    *)
(* raises the version.  With threads on the blocking path the same        *)
(* property fails (threads_affinity_regresses); here ReadIsCurrent makes  *)
(* the comparison in __post_process_response one against the current     *)
(* version.                                                                *)
(***************************************************************************)
THEOREM CooperativeNeverRegresses ==
    ASSUME Cooperative PROVE Spec => AffinityNeverRegresses
<1>1. Spec => []IInv
  BY IInvInit, IInvStep, PTL DEF Spec
<1>2. IInv /\ [Next]_vars => [VerLE(aff, aff')]_aff
  BY NeverRegressesStep
<1>3. QED
  BY <1>1, <1>2, PTL DEF Spec, AffinityNeverRegresses

=============================================================================
