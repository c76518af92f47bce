--------------------------- MODULE UriPipelineProofs ---------------------------
(* Proofs about UriPipeline for every number of events, URIs and workers.      *)
EXTENDS UriPipeline, FiniteSetTheorems, TLAPS

-------------------------------------------------------------------------------
(* Type correctness.                                                           *)

\* Positions are cursors and cursors are numbers; 0 is a cursor, no position.
LEMMA CursorFacts ==
    /\ Pos \subseteq Cursor /\ Cursor \subseteq Nat
    /\ 0 \in Cursor /\ 0 \notin Pos
    /\ \A c \in Cursor : c # 0 => c \in Pos
BY ParamsAssumption DEF Pos, Cursor

\* A page that a listing returns is made of event positions.
LEMMA RowsType ==
    ASSUME TypeOK, NEW a, NEW b
    PROVE  Rows(a, b) \subseteq Pos
BY DEF TypeOK, Rows

\* The initial state is well typed.
LEMMA TypeInit == Init => TypeOK
BY CursorFacts DEF Init, TypeOK, ScanIdle, RankIdle, ScanState, RankState

\* The records of the two daemons keep their shape.
LEMMA DaemonStates == TypeOK /\ [Next]_vars => scan' \in ScanState /\ rank' \in RankState
<1> SUFFICES ASSUME TypeOK, [Next]_vars PROVE scan' \in ScanState /\ rank' \in RankState
  OBVIOUS
<1>1. scan' = scan \/ scan' \in ScanState
  <2>1. CASE ScanStart
    BY <2>1, CursorFacts DEF TypeOK, ScanState, ScanStart
  <2>2. CASE ScanList
    <3>1. PICK last \in decoded : scan' = [scan EXCEPT !.pc = "publish", !.end = last,
                                                       !.todo = Rows(scan.cursor, last)]
      BY <2>2 DEF ScanList
    <3>2. QED BY <3>1, RowsType, CursorFacts DEF TypeOK, ScanState
  <2>3. CASE ScanDone \/ ScanAbort
    BY <2>3, CursorFacts DEF ScanDone, ScanAbort, ScanIdle, ScanState
  <2>4. CASE ScanSave
    <3>1. scan' = [scan EXCEPT !.pc = "list", !.cursor = scan.end]
      BY <2>4 DEF ScanSave
    <3>2. QED BY <3>1 DEF TypeOK, ScanState
  <2>5. ASSUME NEW e \in Pos, ScanPublish(e) PROVE scan' \in ScanState
    <3>1. scan' = [scan EXCEPT !.todo = @ \ {e}]
      BY <2>5 DEF ScanPublish
    <3>2. QED BY <3>1 DEF TypeOK, ScanState
  <2>6. CASE BootstrapCrash
    BY <2>6, CursorFacts DEF BootstrapCrash, ScanIdle, ScanState
  <2>7. QED
    BY <2>1, <2>2, <2>3, <2>4, <2>5, <2>6
       DEF Next, ScanStep, HandleStep, RankStep, vars, Decode, Receive, FetchAndRecord,
           Requeue, GetFetched, SetFetchedIfAbsent, UpdateFetched, Ack, RankStart,
           RankBound, RankList, RankDone, RankProcess, RankAbort, RankSave
<1>2. rank' = rank \/ rank' \in RankState
  <2>1. CASE RankStart
    BY <2>1, CursorFacts DEF TypeOK, RankState, RankStart
  <2>2. CASE RankBound
    <3>1. \/ rank' = [rank EXCEPT !.pc = "list", !.bound = uriFetched]
          \/ rank' = RankIdle
      BY <2>2 DEF RankBound
    <3>2. RankIdle \in RankState
      BY CursorFacts DEF RankState, RankIdle
    <3>3. [rank EXCEPT !.pc = "list", !.bound = uriFetched] \in RankState
      BY DEF TypeOK, RankState
    <3>4. QED BY <3>1, <3>2, <3>3
  <2>3. CASE RankList
    <3>1. PICK last \in decoded : rank' = [rank EXCEPT !.pc = "process", !.end = last,
                                                       !.page = Rows(rank.after, last)]
      BY <2>3 DEF RankList
    <3>2. QED BY <3>1, RowsType, CursorFacts DEF TypeOK, RankState
  <2>4. CASE RankDone
    BY <2>4, CursorFacts DEF RankDone, RankIdle, RankState
  <2>5. CASE RankProcess
    <3>1. rank' = [rank EXCEPT !.pc = "save"]
      BY <2>5 DEF RankProcess
    <3>2. QED BY <3>1 DEF TypeOK, RankState
  <2>6. CASE RankAbort
    BY <2>6, CursorFacts DEF RankAbort, RankIdle, RankState
  <2>7. CASE RankSave
    <3>1. rank' = [rank EXCEPT !.pc = "list", !.after = rank.end]
      BY <2>7 DEF RankSave
    <3>2. QED BY <3>1 DEF TypeOK, RankState
  <2>8. QED
    BY <2>1, <2>2, <2>3, <2>4, <2>5, <2>6, <2>7
       DEF Next, ScanStep, HandleStep, RankStep, vars, Decode, Receive, FetchAndRecord,
           Requeue, GetFetched, SetFetchedIfAbsent, UpdateFetched, Ack, ScanStart,
           ScanList, ScanDone, ScanAbort, ScanSave, ScanPublish, BootstrapCrash
<1>3. QED BY <1>1, <1>2 DEF TypeOK

\* Every step keeps the types.
LEMMA TypeNext == TypeOK /\ [Next]_vars => TypeOK'
<1> SUFFICES ASSUME TypeOK, [Next]_vars PROVE TypeOK'
  OBVIOUS
<1>0. scan' \in ScanState /\ rank' \in RankState
  BY DaemonStates
<1> USE <1>0, CursorFacts DEF TypeOK
<1>1. ASSUME NEW e \in Pos, Decode(e) PROVE TypeOK'
  BY <1>1 DEF Decode, config, workers
<1>2. CASE ScanStart
  BY <1>2 DEF ScanStart, Fault, config, workers, history
<1>3. CASE ScanList
  BY <1>3 DEF ScanList, config, workers, history
<1>4. CASE ScanDone \/ ScanAbort
  <2>1. faults' \in Nat
    BY <1>4 DEF ScanDone, ScanAbort, Fault
  <2>2. QED BY <1>4, <2>1 DEF ScanDone, ScanAbort, config, workers, history
<1>5. CASE ScanSave
  <2>1. scan.end \in Cursor
    BY DEF ScanState
  <2>2. QED BY <1>5, <2>1 DEF ScanSave, Fault, workers, history
<1>6. ASSUME NEW e \in Pos, ScanPublish(e) PROVE TypeOK'
  <2>1. eventUri' \in [Pos -> Nat]
    BY <1>6 DEF ScanPublish
  <2>2. faults' \in Nat /\ offered' \subseteq Pos /\ unpublished' \subseteq Pos
    BY <1>6 DEF ScanPublish, Fault
  <2>3. QED BY <1>6, <2>1, <2>2 DEF ScanPublish, config, workers
<1>7. ASSUME NEW w \in Workers, FetchAndRecord(w) PROVE TypeOK'
  <2>1. PICK status \in Terminal : offchain' = [offchain EXCEPT ![UriOf[msg[w]]] = status]
    BY <1>7 DEF FetchAndRecord
  <2>2. offchain' \in [URIs -> Terminal \cup {"absent"}]
    BY <2>1
  <2>3. QED BY <1>7, <2>2 DEF FetchAndRecord, config, history
<1>8. ASSUME NEW w \in Workers, Requeue(w) PROVE TypeOK'
  <2>1. eventUri' \in [Pos -> Nat]
    <3>1. eventUri' = [eventUri EXCEPT ![msg[w]] = eventUri[msg[w]] + 1]
      BY <1>8 DEF Requeue
    <3>2. ASSUME msg[w] \in Pos PROVE eventUri[msg[w]] + 1 \in Nat
      <4>1. eventUri[msg[w]] \in Nat
        BY <3>2
      <4>2. QED BY <4>1
    <3>3. QED BY <3>1, <3>2
  <2>2. QED BY <1>8, <2>1 DEF Requeue, Fault, config, history
<1>9. ASSUME NEW w \in Workers, GetFetched(w) PROVE TypeOK'
  BY <1>9 DEF GetFetched, Fault, config, history
<1>10. ASSUME NEW w \in Workers, SetFetchedIfAbsent(w) PROVE TypeOK'
  BY <1>10 DEF SetFetchedIfAbsent, Fault, history
<1>11. ASSUME NEW w \in Workers, UpdateFetched(w) PROVE TypeOK'
  BY <1>11 DEF UpdateFetched, Fault, history
<1>12. ASSUME NEW w \in Workers, Ack(w) PROVE TypeOK'
  BY <1>12 DEF Ack, config, history
<1>13. ASSUME NEW w \in Workers, NEW e \in Pos, Receive(w, e) PROVE TypeOK'
  BY <1>13 DEF Receive, config, history
<1>14. CASE BootstrapCrash
  <2>1. \A e \in Pos : Cardinality(Holders(e)) \in Nat
    <3>1. \A e \in Pos : IsFiniteSet(Holders(e))
      BY ParamsAssumption, FS_Subset DEF Holders
    <3>2. QED BY <3>1, FS_CardinalityType
  <2>2. QED BY <1>14, <2>1 DEF BootstrapCrash, Fault, config, history
<1>15. CASE RankStart
  BY <1>15 DEF RankStart, Fault, config, workers, history
<1>16. CASE RankBound
  BY <1>16 DEF RankBound, Fault, config, workers, history
<1>17. CASE RankList
  BY <1>17 DEF RankList, config, workers, history
<1>18. CASE RankDone
  BY <1>18 DEF RankDone, config, workers, history
<1>19. CASE RankProcess
  <2>1. rank.page \subseteq Pos
    BY DEF RankState
  <2>2. QED BY <1>19, <2>1 DEF RankProcess, config, workers
<1>20. CASE RankAbort
  BY <1>20 DEF RankAbort, Fault, config, workers, history
<1>21. CASE RankSave
  <2>1. rank.end \in Cursor
    BY DEF RankState
  <2>2. QED BY <1>21, <2>1 DEF RankSave, Fault, workers, history
<1>22. CASE UNCHANGED vars
  BY <1>22 DEF vars
<1>23. QED
  BY <1>1, <1>2, <1>3, <1>4, <1>5, <1>6, <1>7, <1>8, <1>9, <1>10, <1>11, <1>12,
     <1>13, <1>14, <1>15, <1>16, <1>17, <1>18, <1>19, <1>20, <1>21, <1>22
     DEF Next, ScanStep, HandleStep, RankStep

\* Every reachable state of the pipeline is well typed.
THEOREM TypeCorrect == Spec => []TypeOK
BY TypeInit, TypeNext, PTL DEF Spec

-------------------------------------------------------------------------------
(* TrustRank stays behind the URI consumer.                                    *)

\* A resolved event stays resolved: no step takes a URI's status away.
LEMMA ResolvedStable ==
    ASSUME TypeOK, [Next]_vars, NEW e, Resolved(e)
    PROVE  Resolved(e)'
<1>1. UriOf[e] \in URIs
  BY ParamsAssumption DEF Resolved, HasUri
<1>2. offchain' = offchain \/ \E u : \E s \in Terminal : offchain' = [offchain EXCEPT ![u] = s]
  BY DEF Next, ScanStep, HandleStep, RankStep, vars, Decode, Receive, FetchAndRecord,
         Requeue, GetFetched, SetFetchedIfAbsent, UpdateFetched, Ack, ScanStart,
         ScanList, ScanDone, ScanAbort, ScanSave, ScanPublish, BootstrapCrash, RankStart,
         RankBound, RankList, RankDone, RankProcess, RankAbort, RankSave
<1>3. QED
  BY <1>1, <1>2 DEF Resolved, HasUri, TypeOK

\* ResolutionInv holds initially.
LEMMA ResolutionInit == Init => ResolutionInv
BY CursorFacts DEF Init, ResolutionInv, RankBehindResolution, RankIdle

\* Every step keeps ResolutionInv.
LEMMA ResolutionNext == TypeOK /\ ResolutionInv /\ [Next]_vars => ResolutionInv'
<1> SUFFICES ASSUME TypeOK, ResolutionInv, [Next]_vars PROVE ResolutionInv'
  OBVIOUS
<1> DEFINE
      QueueOK == \A e \in Pos : eventUri[e] > 0 => HasUri(e)
      HeldOK == \A w \in Workers : pc[w] # "idle" => msg[w] \in Pos /\ HasUri(msg[w])
      DoneOK == \A w \in Workers : pc[w] \notin {"idle", "fetch"} => Resolved(msg[w])
      CursorOK == uriFetched # 0 => Resolved(uriFetched)
      BoundOK == rank.pc \in {"list", "process", "save"} => Resolved(rank.bound)
      PageOK == rank.pc = "process" => \A e \in rank.page : e <= rank.bound
<1>0. /\ QueueOK /\ HeldOK /\ DoneOK /\ CursorOK /\ BoundOK /\ PageOK
      /\ RankBehindResolution
  BY DEF ResolutionInv
<1>t. TypeOK'
  BY TypeNext
<1>s. \A e : Resolved(e) => Resolved(e)'
  BY ResolvedStable
<1>1. QueueOK' /\ HeldOK'
  <2>1. CASE UNCHANGED <<eventUri, pc, msg>>
    BY <2>1, <1>0 DEF HasUri
  <2>2. ASSUME NEW e \in Pos, ScanPublish(e) PROVE QueueOK' /\ HeldOK'
    BY <2>2, <1>0 DEF ScanPublish, workers, TypeOK, HasUri
  <2>3. ASSUME NEW w \in Workers, NEW e \in Pos, Receive(w, e) PROVE QueueOK' /\ HeldOK'
    BY <2>3, <1>0 DEF Receive, TypeOK, HasUri
  <2>4. ASSUME NEW w \in Workers, Requeue(w) PROVE QueueOK' /\ HeldOK'
    <3>1. HasUri(msg[w])
      BY <2>4, <1>0 DEF Requeue
    <3>2. \A e \in Pos : eventUri'[e] = eventUri[e] \/ e = msg[w]
      BY <2>4 DEF Requeue, TypeOK
    <3>3. \A v \in Workers : pc'[v] # "idle" => pc[v] # "idle" /\ msg'[v] = msg[v]
      BY <2>4 DEF Requeue, TypeOK
    <3>4. QED BY <3>1, <3>2, <3>3, <1>0 DEF HasUri
  <2>5. ASSUME NEW w \in Workers, pc[w] # "idle", eventUri' = eventUri, msg' = msg,
               NEW s, pc' = [pc EXCEPT ![w] = s]
        PROVE  QueueOK' /\ HeldOK'
    BY <2>5, <1>0 DEF TypeOK, HasUri
  <2>6. CASE BootstrapCrash
    <3>1. ASSUME NEW e \in Pos, eventUri'[e] > 0 PROVE HasUri(e)
      <4>1. CASE Holders(e) = {}
        <5>1. Cardinality(Holders(e)) = 0
          BY <4>1, FS_EmptySet
        <5>2. eventUri'[e] = eventUri[e]
          BY <2>6, <5>1 DEF BootstrapCrash, TypeOK
        <5>3. QED BY <5>2, <3>1, <1>0
      <4>2. CASE Holders(e) # {}
        BY <4>2, <1>0 DEF Holders
      <4>3. QED BY <4>1, <4>2
    <3>2. HeldOK'
      BY <2>6 DEF BootstrapCrash
    <3>3. QED BY <3>1, <3>2 DEF HasUri
  <2>7. QED
    <3>1. ASSUME NEW w \in Workers, HandleStep(w) PROVE QueueOK' /\ HeldOK'
      <4>1. CASE FetchAndRecord(w)
        BY <4>1, <2>5 DEF FetchAndRecord
      <4>2. CASE GetFetched(w)
        BY <4>2, <2>5 DEF GetFetched
      <4>3. CASE SetFetchedIfAbsent(w)
        BY <4>3, <2>5 DEF SetFetchedIfAbsent
      <4>4. CASE UpdateFetched(w)
        BY <4>4, <2>5 DEF UpdateFetched
      <4>5. CASE Ack(w)
        BY <4>5, <2>5 DEF Ack
      <4>6. QED BY <3>1, <4>1, <4>2, <4>3, <4>4, <4>5, <2>4 DEF HandleStep
    <3>2. QED
      BY <3>1, <2>1, <2>2, <2>3, <2>6
         DEF Next, ScanStep, RankStep, vars, Decode, ScanStart, ScanList, ScanDone, ScanAbort,
             ScanSave, RankStart, RankBound, RankList, RankDone, RankProcess,
             RankAbort, RankSave, workers
<1>2. DoneOK'
  <2>1. CASE UNCHANGED <<pc, msg>>
    BY <2>1, <1>0, <1>s
  <2>2. ASSUME NEW w \in Workers, FetchAndRecord(w) PROVE DoneOK'
    <3>1. msg[w] \in Pos /\ HasUri(msg[w]) /\ msg' = msg
      BY <2>2, <1>0 DEF FetchAndRecord
    <3>2. UriOf[msg[w]] \in URIs
      BY <3>1, ParamsAssumption DEF HasUri
    <3>3. Resolved(msg[w])'
      BY <2>2, <3>1, <3>2 DEF FetchAndRecord, Resolved, HasUri, TypeOK
    <3>4. \A v \in Workers : v # w => pc'[v] = pc[v] /\ msg'[v] = msg[v]
      BY <2>2 DEF FetchAndRecord, TypeOK
    <3>5. QED BY <3>1, <3>3, <3>4, <1>0, <1>s
  <2>3. ASSUME NEW w \in Workers, pc[w] \notin {"idle", "fetch"}, msg' = msg,
               NEW s, pc' = [pc EXCEPT ![w] = s]
        PROVE  DoneOK'
    BY <2>3, <1>0, <1>s DEF TypeOK
  <2>4. ASSUME NEW w \in Workers, Requeue(w) PROVE DoneOK'
    BY <2>4, <1>0, <1>s DEF Requeue, TypeOK
  <2>5. ASSUME NEW w \in Workers, NEW e \in Pos, Receive(w, e) PROVE DoneOK'
    BY <2>5, <1>0, <1>s DEF Receive, TypeOK
  <2>6. CASE BootstrapCrash
    BY <2>6 DEF BootstrapCrash
  <2>7. ASSUME NEW w \in Workers, HandleStep(w) PROVE DoneOK'
    <3>1. CASE GetFetched(w)
      BY <3>1, <2>3 DEF GetFetched
    <3>2. CASE SetFetchedIfAbsent(w)
      BY <3>2, <2>3 DEF SetFetchedIfAbsent
    <3>3. CASE UpdateFetched(w)
      BY <3>3, <2>3 DEF UpdateFetched
    <3>4. CASE Ack(w)
      BY <3>4, <2>3 DEF Ack
    <3>5. QED BY <2>7, <3>1, <3>2, <3>3, <3>4, <2>2, <2>4 DEF HandleStep
  <2>8. QED
    BY <2>1, <2>5, <2>6, <2>7
       DEF Next, ScanStep, RankStep, vars, Decode, ScanStart, ScanList, ScanDone, ScanAbort,
           ScanSave, ScanPublish, RankStart, RankBound, RankList, RankDone,
           RankProcess, RankAbort, RankSave, workers
<1>3. CursorOK'
  <2>1. CASE UNCHANGED uriFetched
    BY <2>1, <1>0, <1>s
  <2>2. ASSUME NEW w \in Workers, pc[w] \notin {"idle", "fetch"},
               uriFetched' = msg[w] \/ UNCHANGED uriFetched
        PROVE  CursorOK'
    BY <2>2, <1>0, <1>s
  <2>3. QED
    BY <2>1, <2>2
       DEF Next, ScanStep, HandleStep, RankStep, vars, Decode, Receive, FetchAndRecord,
           Requeue, GetFetched, SetFetchedIfAbsent, UpdateFetched, Ack, ScanStart,
           ScanList, ScanDone, ScanAbort, ScanSave, ScanPublish, BootstrapCrash, RankStart,
           RankBound, RankList, RankDone, RankProcess, RankAbort, RankSave, config
<1>4. BoundOK' /\ PageOK' /\ RankBehindResolution'
  <2>1. CASE UNCHANGED <<rank, processed>>
    BY <2>1, <1>0, <1>s DEF RankBehindResolution
  <2>2. CASE UNCHANGED processed /\ rank'.pc \in {"idle", "bound"}
    BY <2>2, <1>0, <1>s DEF RankBehindResolution
  <2>3. CASE RankBound
    <3>1. CASE rank' = RankIdle
      BY <3>1, <2>2, <2>3 DEF RankBound, RankIdle, history
    <3>2. CASE uriFetched # 0 /\ rank' = [rank EXCEPT !.pc = "list", !.bound = uriFetched]
      <4>1. rank'.pc = "list" /\ rank'.bound = uriFetched /\ processed' = processed
        BY <2>3, <3>2 DEF RankBound, TypeOK, RankState, history
      <4>2. QED BY <4>1, <3>2, <1>0, <1>s DEF RankBehindResolution
    <3>3. QED BY <2>3, <3>1, <3>2 DEF RankBound
  <2>4. CASE RankList
    <3>1. PICK last \in decoded :
            /\ IsPageEnd(rank.after, rank.bound, RankLimit, last)
            /\ rank' = [rank EXCEPT !.pc = "process", !.end = last,
                                    !.page = Rows(rank.after, last)]
      BY <2>4 DEF RankList
    <3>2. rank'.page = Rows(rank.after, last) /\ rank'.bound = rank.bound
      BY <3>1 DEF TypeOK, RankState
    <3>3. last <= rank.bound
      BY <3>1 DEF IsPageEnd, Rows
    <3>4. \A e \in rank'.page : e <= rank.bound
      <4>1. rank.bound \in Nat /\ last \in Nat
        BY CursorFacts DEF TypeOK, RankState
      <4>2. \A e \in rank'.page : e \in Nat /\ e <= last
        BY <3>2, CursorFacts DEF Rows, TypeOK
      <4>3. QED BY <4>1, <4>2, <3>3
    <3>5. Resolved(rank.bound) /\ processed' = processed
      BY <2>4, <1>0 DEF RankList, history
    <3>6. QED BY <3>2, <3>4, <3>5, <1>0, <1>s DEF RankBehindResolution
  <2>5. CASE RankProcess
    <3>1. /\ rank'.pc = "save" /\ rank'.bound = rank.bound
          /\ processed' = processed \cup rank.page
      BY <2>5 DEF RankProcess, TypeOK, RankState
    <3>2. /\ Resolved(rank.bound) /\ rank.bound \in Pos
          /\ \A e \in rank.page : e <= rank.bound
      BY <2>5, <1>0 DEF RankProcess, Resolved
    <3>3. QED BY <3>1, <3>2, <1>0, <1>s DEF RankBehindResolution
  <2>6. CASE RankSave
    <3>1. rank'.pc = "list" /\ rank'.bound = rank.bound /\ processed' = processed
      BY <2>6 DEF RankSave, TypeOK, RankState, history
    <3>2. Resolved(rank.bound)
      BY <2>6, <1>0 DEF RankSave
    <3>3. QED BY <3>1, <3>2, <1>0, <1>s DEF RankBehindResolution
  <2>7. CASE RankStart \/ RankDone \/ RankAbort
    <3>1. UNCHANGED processed
      BY <2>7 DEF RankStart, RankDone, RankAbort, history
    <3>2. rank'.pc \in {"idle", "bound"}
      BY <2>7 DEF RankStart, RankDone, RankAbort, RankIdle
    <3>3. QED BY <3>1, <3>2, <2>2
  <2>8. QED
    BY <2>1, <2>3, <2>4, <2>5, <2>6, <2>7
       DEF Next, ScanStep, HandleStep, RankStep, vars, Decode, Receive, FetchAndRecord,
           Requeue, GetFetched, SetFetchedIfAbsent, UpdateFetched, Ack, ScanStart,
           ScanList, ScanDone, ScanAbort, ScanSave, ScanPublish, BootstrapCrash, history
<1>5. QED
  BY <1>1, <1>2, <1>3, <1>4 DEF ResolutionInv

\* TrustRank has only ever processed events at or below one whose URI the
\* consumer resolved, whatever the interleaving of workers, crashes and errors.
THEOREM RankBehindResolutionHolds == Spec => []RankBehindResolution
<1>1. TypeOK /\ ResolutionInv => RankBehindResolution
  BY DEF ResolutionInv
<1>2. QED
  BY TypeInit, TypeNext, ResolutionInit, ResolutionNext, <1>1, PTL DEF Spec

-------------------------------------------------------------------------------
(* The scan cursor covers the rows it has passed.                              *)

\* Steps of the workers and of TrustRank leave the producer alone.
LEMMA ScanUntouched ==
    ASSUME TypeOK, [Next]_vars, \A e \in Pos : ~Decode(e), ~ScanStep, ~BootstrapCrash
    PROVE  UNCHANGED <<decoded, uriScanned, scan, offered, unpublished, lateForScan>>
BY DEF Next, HandleStep, RankStep, vars, Receive, FetchAndRecord, Requeue, GetFetched,
       SetFetchedIfAbsent, UpdateFetched, Ack, RankStart, RankBound, RankList, RankDone,
       RankProcess, RankAbort, RankSave, config, history

\* ScanInv holds initially.
LEMMA ScanInit == Init => ScanInv
BY DEF Init, ScanInv, ScanCursorCovers, ScanIdle

\* Every step keeps ScanInv.
LEMMA ScanNext == TypeOK /\ ScanInv /\ [Next]_vars => ScanInv'
<1> SUFFICES ASSUME TypeOK, ScanInv, [Next]_vars PROVE ScanInv'
  OBVIOUS
<1> DEFINE Seen == offered \cup unpublished \cup lateForScan
           Behind(c) == \A e \in decoded : e <= c => e \in Seen
           Page == scan.pc # "idle" =>
                     \A e \in decoded : e <= scan.end => e \in Seen \cup scan.todo
<1>t. TypeOK'
  BY TypeNext
<1>0. /\ Behind(uriScanned) /\ Page
      /\ scan.cursor <= scan.end /\ (scan.pc = "list" => scan.cursor = scan.end /\ scan.todo = {})
      /\ scan.cursor \in Nat /\ scan.end \in Nat /\ uriScanned \in Nat
      /\ \A e \in decoded : e \in Nat
  BY CursorFacts DEF ScanInv, ScanCursorCovers, TypeOK, ScanState
<1>g. SUFFICES /\ Behind(uriScanned)' /\ Page'
               /\ scan'.cursor <= scan'.end
               /\ (scan'.pc = "list" => scan'.cursor = scan'.end /\ scan'.todo = {})
  BY DEF ScanInv, ScanCursorCovers
<1>1. CASE UNCHANGED <<decoded, uriScanned, scan, offered, unpublished, lateForScan>>
  BY <1>1, <1>0
<1>2. ASSUME NEW e \in Pos, Decode(e)
      PROVE  /\ Behind(uriScanned)' /\ Page'
             /\ scan'.cursor <= scan'.end
             /\ (scan'.pc = "list" => scan'.cursor = scan'.end /\ scan'.todo = {})
  <2>1. /\ decoded' = decoded \cup {e} /\ scan' = scan /\ uriScanned' = uriScanned
        /\ offered' = offered /\ unpublished' = unpublished
        /\ e <= uriScanned \/ e <= scan.end => lateForScan' = lateForScan \cup {e}
        /\ lateForScan \subseteq lateForScan'
    BY <1>2 DEF Decode, config
  <2>2. QED BY <2>1, <1>0
<1>3. CASE ScanStart
  <2>1. PICK c \in {uriScanned, 0} :
          scan' = [pc |-> "list", cursor |-> c, end |-> c, todo |-> {}]
    BY <1>3 DEF ScanStart
  <2>2. UNCHANGED <<decoded, uriScanned, offered, unpublished, lateForScan>>
    BY <1>3 DEF ScanStart, config, history
  <2>3. \A e \in decoded : e <= c => e \in Seen
    <3>1. \A e \in decoded : ~(e <= 0)
      BY CursorFacts DEF TypeOK, Pos
    <3>2. QED BY <3>1, <1>0
  <2>4. QED BY <2>1, <2>2, <2>3, <1>0
<1>4. CASE ScanList
  <2>1. PICK last \in decoded :
          scan' = [scan EXCEPT !.pc = "publish", !.end = last,
                               !.todo = Rows(scan.cursor, last)]
          /\ IsPageEnd(scan.cursor, NumEvents, ScanLimit, last)
    BY <1>4 DEF ScanList
  <2>2. /\ scan'.pc = "publish" /\ scan'.end = last /\ scan'.cursor = scan.cursor
        /\ scan'.todo = Rows(scan.cursor, last)
    BY <2>1 DEF TypeOK, ScanState
  <2>3. UNCHANGED <<decoded, uriScanned, offered, unpublished, lateForScan>>
    BY <1>4 DEF ScanList, config, history
  <2>4. scan.cursor < last /\ scan.pc = "list"
    BY <2>1, <1>4 DEF IsPageEnd, Rows, ScanList
  <2>5. ASSUME NEW e \in decoded, e <= last, ~(e \in Rows(scan.cursor, last))
        PROVE  e \in Seen
    <3>1. e <= scan.cursor
      BY <2>5, <1>0 DEF Rows
    <3>2. QED BY <3>1, <2>4, <1>0
  <2>6. QED BY <2>2, <2>3, <2>4, <2>5, <1>0
<1>5. CASE ScanDone \/ ScanAbort
  BY <1>5, <1>0 DEF ScanDone, ScanAbort, ScanIdle, config, history
<1>6. CASE ScanSave
  <2>1. /\ scan.pc = "publish" /\ scan.todo = {}
        /\ scan'.pc = "list" /\ scan'.cursor = scan.end /\ scan'.end = scan.end
        /\ scan'.todo = {}
    BY <1>6 DEF ScanSave, TypeOK, ScanState
  <2>2. /\ UNCHANGED <<decoded, offered, unpublished, lateForScan>>
        /\ uriScanned' \in {scan.end, uriScanned}
    BY <1>6 DEF ScanSave, history
  <2>3. QED BY <2>1, <2>2, <1>0
<1>7. ASSUME NEW e \in Pos, ScanPublish(e)
      PROVE  /\ Behind(uriScanned)' /\ Page'
             /\ scan'.cursor <= scan'.end
             /\ (scan'.pc = "list" => scan'.cursor = scan'.end /\ scan'.todo = {})
  <2>1. /\ scan'.pc = scan.pc /\ scan'.cursor = scan.cursor /\ scan'.end = scan.end
        /\ scan'.todo = scan.todo \ {e}
    BY <1>7 DEF ScanPublish, TypeOK, ScanState
  <2>2. /\ UNCHANGED <<decoded, uriScanned, lateForScan>>
        /\ offered \cup unpublished \cup {e} \subseteq offered' \cup unpublished'
    BY <1>7 DEF ScanPublish, config
  <2>3. QED BY <2>1, <2>2, <1>0
<1>8. CASE BootstrapCrash
  BY <1>8, <1>0 DEF BootstrapCrash, ScanIdle, config, history
<1>9. QED
  BY <1>1, <1>2, <1>3, <1>4, <1>5, <1>6, <1>7, <1>8, ScanUntouched DEF ScanStep

\* No row at or below the saved scan cursor was skipped by the producer, unless
\* it was decoded behind the scan.
THEOREM ScanCursorCoversHolds == Spec => []ScanCursorCovers
<1>1. ScanInv => ScanCursorCovers
  BY DEF ScanInv
<1>2. QED
  BY TypeInit, TypeNext, ScanInit, ScanNext, <1>1, PTL DEF Spec

-------------------------------------------------------------------------------
(* The checkpoint covers the events TrustRank has passed.                      *)

\* Steps of the producer and of the workers leave TrustRank alone.
LEMMA RankUntouched ==
    ASSUME TypeOK, [Next]_vars, \A e \in Pos : ~Decode(e), ~RankStep
    PROVE  UNCHANGED <<decoded, checkpoint, rank, processed, lateForRank>>
BY DEF Next, ScanStep, HandleStep, vars, Receive, FetchAndRecord, Requeue, GetFetched,
       SetFetchedIfAbsent, UpdateFetched, Ack, ScanStart, ScanList, ScanDone, ScanAbort, ScanSave,
       ScanPublish, BootstrapCrash, config, history

\* CheckpointInv holds initially.
LEMMA CheckpointInit == Init => CheckpointInv
BY DEF Init, CheckpointInv, CheckpointCovers, RankIdle

\* Every step keeps CheckpointInv.
LEMMA CheckpointNext == TypeOK /\ CheckpointInv /\ [Next]_vars => CheckpointInv'
<1> SUFFICES ASSUME TypeOK, CheckpointInv, [Next]_vars PROVE CheckpointInv'
  OBVIOUS
<1> DEFINE Done == processed \cup lateForRank
           Behind(c) == \A e \in decoded : e <= c => e \in Done
           Page == rank.pc # "idle" =>
                     \A e \in decoded : e <= rank.end =>
                        e \in Done \/ (rank.pc = "process" /\ e \in rank.page)
           Place == /\ rank.after <= rank.end
                    /\ rank.pc \in {"bound", "list"} => rank.after = rank.end
<1>t. TypeOK'
  BY TypeNext
<1>0. /\ Behind(checkpoint) /\ Page /\ Place
      /\ rank.after \in Nat /\ rank.end \in Nat /\ checkpoint \in Nat
      /\ \A e \in decoded : e \in Nat
  BY CursorFacts DEF CheckpointInv, CheckpointCovers, TypeOK, RankState
<1>g. SUFFICES Behind(checkpoint)' /\ Page' /\ Place'
  BY DEF CheckpointInv, CheckpointCovers
<1>1. CASE UNCHANGED <<decoded, checkpoint, rank, processed, lateForRank>>
  BY <1>1, <1>0
<1>2. ASSUME NEW e \in Pos, Decode(e) PROVE Behind(checkpoint)' /\ Page' /\ Place'
  <2>1. /\ decoded' = decoded \cup {e} /\ rank' = rank /\ checkpoint' = checkpoint
        /\ processed' = processed
        /\ e <= checkpoint \/ e <= rank.end => lateForRank' = lateForRank \cup {e}
        /\ lateForRank \subseteq lateForRank'
    BY <1>2 DEF Decode, config
  <2>2. QED BY <2>1, <1>0
<1>3. CASE RankStart
  <2>1. PICK c \in {checkpoint, 0} :
          rank' = [pc |-> "bound", after |-> c, bound |-> 0, end |-> c, page |-> {}]
    BY <1>3 DEF RankStart
  <2>2. UNCHANGED <<decoded, checkpoint, processed, lateForRank>>
    BY <1>3 DEF RankStart, config, history
  <2>3. \A e \in decoded : e <= c => e \in Done
    <3>1. \A e \in decoded : ~(e <= 0)
      BY CursorFacts DEF TypeOK, Pos
    <3>2. QED BY <3>1, <1>0
  <2>4. QED BY <2>1, <2>2, <2>3, <1>0
<1>4. CASE RankBound
  <2>1. UNCHANGED <<decoded, checkpoint, processed, lateForRank>>
    BY <1>4 DEF RankBound, config, history
  <2>2. CASE rank' = RankIdle
    BY <2>1, <2>2, <1>0 DEF RankIdle
  <2>3. CASE rank' = [rank EXCEPT !.pc = "list", !.bound = uriFetched]
    <3>1. rank'.pc = "list" /\ rank'.after = rank.after /\ rank'.end = rank.end
      BY <2>3 DEF TypeOK, RankState
    <3>2. rank.pc = "bound"
      BY <1>4 DEF RankBound
    <3>3. QED BY <2>1, <3>1, <3>2, <1>0
  <2>4. QED BY <1>4, <2>2, <2>3 DEF RankBound
<1>5. CASE RankList
  <2>1. PICK last \in decoded :
          /\ IsPageEnd(rank.after, rank.bound, RankLimit, last)
          /\ rank' = [rank EXCEPT !.pc = "process", !.end = last,
                                  !.page = Rows(rank.after, last)]
    BY <1>5 DEF RankList
  <2>2. /\ rank'.pc = "process" /\ rank'.end = last /\ rank'.after = rank.after
        /\ rank'.page = Rows(rank.after, last)
    BY <2>1 DEF TypeOK, RankState
  <2>3. UNCHANGED <<decoded, checkpoint, processed, lateForRank>>
    BY <1>5 DEF RankList, config, history
  <2>4. rank.after < last /\ rank.pc = "list"
    BY <2>1, <1>5 DEF IsPageEnd, Rows, RankList
  <2>5. ASSUME NEW e \in decoded, e <= last, ~(e \in Rows(rank.after, last))
        PROVE  e \in Done
    <3>1. e <= rank.after
      BY <2>5, <1>0 DEF Rows
    <3>2. QED BY <3>1, <2>4, <1>0
  <2>6. QED BY <2>2, <2>3, <2>4, <2>5, <1>0
<1>6. CASE RankDone \/ RankAbort
  BY <1>6, <1>0 DEF RankDone, RankAbort, RankIdle, config, history
<1>7. CASE RankProcess
  <2>1. /\ rank.pc = "process" /\ rank'.pc = "save" /\ rank'.after = rank.after
        /\ rank'.end = rank.end
        /\ processed' = processed \cup rank.page
        /\ UNCHANGED <<decoded, checkpoint, lateForRank>>
    BY <1>7 DEF RankProcess, TypeOK, RankState, config
  <2>2. QED BY <2>1, <1>0
<1>8. CASE RankSave
  <2>1. /\ rank.pc = "save" /\ rank'.pc = "list" /\ rank'.after = rank.end
        /\ rank'.end = rank.end
        /\ UNCHANGED <<decoded, processed, lateForRank>>
        /\ checkpoint' \in {rank.end, checkpoint}
    BY <1>8 DEF RankSave, TypeOK, RankState, history
  <2>2. QED BY <2>1, <1>0
<1>9. QED
  BY <1>1, <1>2, <1>3, <1>4, <1>5, <1>6, <1>7, <1>8, RankUntouched DEF RankStep

\* No row at or below the saved checkpoint was skipped by TrustRank, unless it
\* was decoded behind TrustRank's listing.
THEOREM CheckpointCoversHolds == Spec => []CheckpointCovers
<1>1. CheckpointInv => CheckpointCovers
  BY DEF CheckpointInv
<1>2. QED
  BY TypeInit, TypeNext, CheckpointInit, CheckpointNext, <1>1, PTL DEF Spec

-------------------------------------------------------------------------------
(* TrustRank goes in chain order.                                              *)

\* OrderInv holds initially.
LEMMA OrderInit == Init => OrderInv
BY DEF Init, OrderInv, RankIdle

\* What has been processed, or is about to be, has nothing unprocessed below it.
LEMMA BelowPage ==
    ASSUME TypeOK, CheckpointInv, OrderInv, rank.pc = "process",
           NEW p \in processed \cup rank.page, NEW e \in decoded, e < p
    PROVE  e \in processed \cup rank.page \cup lateForRank
<1>1. CASE p \in processed
  BY <1>1 DEF OrderInv
<1>2. CASE p \in rank.page
  <2>1. p <= rank.end /\ p \in Nat /\ e \in Nat /\ rank.end \in Nat
    BY <1>2, CursorFacts DEF OrderInv, TypeOK, RankState
  <2>2. e <= rank.end
    BY <2>1
  <2>3. QED BY <2>2 DEF CheckpointInv
<1>3. QED BY <1>1, <1>2

\* Every step keeps OrderInv.
LEMMA OrderNext == TypeOK /\ CheckpointInv /\ OrderInv /\ [Next]_vars => OrderInv'
<1> SUFFICES ASSUME TypeOK, CheckpointInv, OrderInv, [Next]_vars PROVE OrderInv'
  OBVIOUS
<1>1. CASE UNCHANGED <<decoded, rank, processed, lateForRank>>
  BY <1>1 DEF OrderInv
<1>2. ASSUME NEW e \in Pos, Decode(e) PROVE OrderInv'
  <2>1. /\ decoded' = decoded \cup {e} /\ UNCHANGED <<rank, processed>>
        /\ lateForRank \subseteq lateForRank'
        /\ (\E p \in processed : e < p) => e \in lateForRank'
    BY <1>2 DEF Decode
  <2>2. QED BY <2>1 DEF OrderInv
<1>3. CASE RankList
  <2>1. PICK last \in decoded : rank' = [rank EXCEPT !.pc = "process", !.end = last,
                                                     !.page = Rows(rank.after, last)]
    BY <1>3 DEF RankList
  <2>2. rank'.end = last /\ rank'.page = Rows(rank.after, last)
    BY <2>1 DEF TypeOK, RankState
  <2>3. UNCHANGED <<decoded, processed, lateForRank>>
    BY <1>3 DEF RankList, config, history
  <2>4. \A e \in rank'.page : e \in decoded' /\ e <= rank'.end
    BY <2>2, <2>3 DEF Rows
  <2>5. QED BY <2>3, <2>4 DEF OrderInv
<1>4. CASE RankProcess
  <2>1. /\ rank.pc = "process" /\ rank'.pc = "save" /\ processed' = processed \cup rank.page
        /\ UNCHANGED <<decoded, lateForRank>>
    BY <1>4 DEF RankProcess, TypeOK, RankState
  <2>2. ASSUME NEW p \in processed \cup rank.page, NEW e \in decoded, e < p
        PROVE  e \in processed \cup rank.page \cup lateForRank
    BY <2>1, <2>2, BelowPage
  <2>3. \A p \in processed' : \A e \in decoded' : e < p => e \in processed' \cup lateForRank'
    BY <2>1, <2>2
  <2>4. QED BY <2>1, <2>3 DEF OrderInv
<1>5. ASSUME rank'.pc # "process", UNCHANGED <<decoded, processed, lateForRank>> PROVE OrderInv'
  BY <1>5 DEF OrderInv
<1>6. CASE RankStart \/ RankDone \/ RankAbort
  BY <1>5, <1>6 DEF RankStart, RankDone, RankAbort, RankIdle, history
<1>7. CASE RankBound
  <2>1. rank' = RankIdle \/ rank' = [rank EXCEPT !.pc = "list", !.bound = uriFetched]
    BY <1>7 DEF RankBound
  <2>2. rank'.pc # "process"
    <3>1. CASE rank' = RankIdle
      BY <3>1 DEF RankIdle
    <3>2. CASE rank' = [rank EXCEPT !.pc = "list", !.bound = uriFetched]
      <4>1. rank'.pc = "list"
        BY <3>2 DEF TypeOK, RankState
      <4>2. QED BY <4>1
    <3>3. QED BY <2>1, <3>1, <3>2
  <2>3. UNCHANGED <<decoded, processed, lateForRank>>
    BY <1>7 DEF RankBound, history
  <2>4. QED BY <1>5, <2>2, <2>3
<1>8. CASE RankSave
  <2>1. rank'.pc = "list"
    BY <1>8 DEF RankSave, TypeOK, RankState
  <2>2. QED BY <1>5, <1>8, <2>1 DEF RankSave, history
<1>9. QED BY <1>1, <1>2, <1>3, <1>4, <1>6, <1>7, <1>8, RankUntouched DEF RankStep

\* A step that processes events for the first time processes newer ones than all
\* before, or such that were decoded late.
LEMMA OrderStep ==
    TypeOK /\ CheckpointInv /\ OrderInv /\ [Next]_vars =>
        [\A e \in processed' \ processed : e \in lateForRank \/ \A p \in processed : p < e]_vars
<1> SUFFICES ASSUME TypeOK, CheckpointInv, OrderInv, [Next]_vars,
                    NEW e \in processed' \ processed, NEW p \in processed, e \notin lateForRank
             PROVE  p < e
  OBVIOUS
<1>1. RankProcess
  BY RankUntouched
     DEF RankStep, Decode, RankStart, RankBound, RankList, RankDone, RankAbort, RankSave, history
<1>2. rank.pc = "process" /\ e \in rank.page
  BY <1>1 DEF RankProcess
<1>3. e \in decoded
  BY <1>2 DEF OrderInv
<1>4. ~(e < p)
  BY <1>2, <1>3 DEF OrderInv
<1>5. e \in Nat /\ p \in Nat /\ e # p
  BY <1>2, CursorFacts DEF TypeOK, RankState
<1>6. QED BY <1>4, <1>5

\* Events are processed in chain order, whatever the order they were decoded in,
\* however often the bound moves and the pass is aborted.
THEOREM ChronologicalOrderHolds == Spec => ChronologicalOrder
<1>1. QED
  BY TypeInit, TypeNext, CheckpointInit, CheckpointNext, OrderInit, OrderNext, OrderStep,
     PTL DEF Spec, ChronologicalOrder

===============================================================================
