------------------------ MODULE WorkerControlProofs ------------------------
(***************************************************************************)
(* Theorems about the control of a worker, for any orders, any number of   *)
(* chunks, clicks and faults.                                              *)
(*                                                                         *)
(* That a quarantine is obeyed is not inductive: what the worker does next *)
(* depends on the answer it waits for, and that on what its request has    *)
(* read.  ToldInv follows a quarantine that the worker has heard of        *)
(* through the request that is being served.                               *)
(***************************************************************************)
EXTENDS WorkerControl, TLAPS

USE DEF Heartbeat, Incident

HasRead == {"record", "hold", "answer"}

\* A request that has seen a quarantine answers draining.
ReadInv ==
  \A h \in Heartbeat :
    requests[h].pc \in HasRead /\ requests[h].quarantined
      => requests[h].desired = "draining"

\* The worker that has heard of the quarantine drains, and so will it after the
\* answer it waits for.
ToldInv ==
  told =>
    /\ keys.quarantined
    /\ worker.state = "draining"
    /\ requests["current"].pc \in HasRead => requests["current"].quarantined

Inv == TypeOK /\ QuarantineNeverRuns /\ ReadInv /\ ToldInv

-----------------------------------------------------------------------------
(* Types *)

LEMMA InitTyped == Init => TypeOK
<1> SUFFICES ASSUME Init PROVE TypeOK
  OBVIOUS
<1>1. worker \in WorkerRecord /\ clicks \in 0..MaxClicks /\ faults \in 0..MaxFaults
  BY WorkerControlAssumption DEF WorkerControlAssumption, Init, NewWorker, WorkerRecord, State
<1>2. requests \in [Heartbeat -> Request]
  BY DEF Init, IdleRequest, Request, State
<1>3. keys \in Keys
  <2>1. NoKeys \in Keys
    BY DEF NoKeys, Keys
  <2>2. StaleKeys \in Keys
    BY DEF NoKeys, StaleKeys, Keys
  <2> QED
    BY <2>1, <2>2 DEF Init
<1>4. checker \in Checker /\ incidents \in SUBSET Incident
  BY DEF Init, IdleChecker, Checker
<1> QED
  BY <1>1, <1>2, <1>3, <1>4 DEF Init, TypeOK

LEMMA FaultTyped ==
  ASSUME TypeOK, Fault
  PROVE  faults' \in 0..MaxFaults
BY WorkerControlAssumption DEF WorkerControlAssumption, TypeOK, Fault

LEMMA AbandonTyped ==
  ASSUME TypeOK, Abandon
  PROVE  requests' \in [Heartbeat -> Request]
BY DEF TypeOK, Abandon, IdleRequest, Request, State

LEMMA WorkerStepTyped ==
  ASSUME TypeOK, WorkerStep
  PROVE  TypeOK'
<1> USE WorkerControlAssumption DEF WorkerControlAssumption
<1>1. CASE WorkerStarts
  BY <1>1 DEF TypeOK, WorkerStarts, WorkerRecord
<1>2. CASE SendHeartbeat
  BY <1>2 DEF TypeOK, SendHeartbeat, WorkerRecord, IdleRequest, Request, State
<1>3. CASE ReceiveAnswer
  <2>1. worker' \in WorkerRecord /\ requests' \in [Heartbeat -> Request]
    BY <1>3 DEF TypeOK, ReceiveAnswer, WorkerRecord, IdleRequest, Request, State
  <2>2. told' \in BOOLEAN
    BY <1>3, Zenon DEF ReceiveAnswer
  <2> QED
    BY <1>3, <2>1, <2>2 DEF TypeOK, ReceiveAnswer
<1>4. CASE HeartbeatTimesOut
  BY <1>4, FaultTyped, AbandonTyped DEF TypeOK, HeartbeatTimesOut, WorkerRecord
<1>5. CASE HeartbeatFails
  BY <1>5, FaultTyped DEF TypeOK, HeartbeatFails, WorkerRecord, IdleRequest, Request, State
<1>6. CASE ClaimChunk
  BY <1>6 DEF TypeOK, ClaimChunk, WorkerRecord
<1>7. CASE FinishChunk
  BY <1>7 DEF TypeOK, FinishChunk, WorkerRecord
<1>8. CASE WorkerDies
  <2>1. requests' \in [Heartbeat -> Request]
    BY <1>8, AbandonTyped DEF TypeOK, WorkerDies
  <2>2. worker' \in WorkerRecord
    BY <1>8 DEF WorkerDies, NewWorker, WorkerRecord, State
  <2> QED
    BY <1>8, <2>1, <2>2, FaultTyped DEF TypeOK, WorkerDies
<1> QED
  BY <1>1, <1>2, <1>3, <1>4, <1>5, <1>6, <1>7, <1>8 DEF WorkerStep

LEMMA ServeTyped ==
  ASSUME TypeOK, NEW h \in Heartbeat, Serve(h)
  PROVE  TypeOK'
<1>1. CASE ReadDesired(h)
  BY <1>1 DEF TypeOK, ReadDesired, Request, Wanted, Keys, State, NoState
<1>2. CASE ReadQuarantine(h)
  BY <1>2 DEF TypeOK, ReadQuarantine, Request, Keys, State
<1>3. CASE RecordHeartbeat(h)
  <2>1. Answered(h) \in {"answer", "idle"}
    BY DEF Answered
  <2>2. keys' \in Keys
    BY <1>3 DEF TypeOK, RecordHeartbeat, Keys, Request, State, NoState
  <2>3. requests' \in [Heartbeat -> Request]
    BY <1>3, <2>1 DEF TypeOK, RecordHeartbeat, Request
  <2> QED
    BY <1>3, <2>2, <2>3 DEF TypeOK, RecordHeartbeat
<1>4. CASE HoldQuarantine(h)
  <2>1. requests' \in [Heartbeat -> Request]
    BY <1>4 DEF TypeOK, HoldQuarantine, Request, Answered
  <2>2. keys' \in Keys /\ faults' \in 0..MaxFaults
    BY <1>4, FaultTyped DEF TypeOK, HoldQuarantine, Keys, State
  <2> QED
    BY <1>4, <2>1, <2>2 DEF TypeOK, HoldQuarantine
<1> QED
  BY <1>1, <1>2, <1>3, <1>4 DEF Serve

LEMMA OperatorTyped ==
  ASSUME TypeOK, OperatorStep
  PROVE  TypeOK'
<1>1. ASSUME Click, keys' \in Keys, told' \in BOOLEAN
      PROVE  TypeOK'
  <2>1. clicks' \in 0..MaxClicks
    BY <1>1, WorkerControlAssumption DEF WorkerControlAssumption, TypeOK, Click
  <2> QED
    BY <1>1, <2>1 DEF TypeOK, Click
<1>2. ASSUME NEW state \in Orders, SetDesired(state)
      PROVE  TypeOK'
  <2>1. keys' \in Keys
    <3>1. state \in State
      BY WorkerControlAssumption DEF WorkerControlAssumption
    <3>2. (keys.quarantined /\ state # "running") \in BOOLEAN
      BY Zenon
    <3> QED
      BY <1>2, <3>1, <3>2 DEF TypeOK, SetDesired, Keys
  <2>2. told' \in BOOLEAN
    BY <1>2, Zenon DEF SetDesired
  <2> QED
    BY <1>1, <1>2, <2>1, <2>2 DEF SetDesired
<1>3. CASE Quarantine
  BY <1>1, <1>3 DEF TypeOK, Quarantine, Keys, State
<1>4. CASE Release
  BY <1>1, <1>4 DEF TypeOK, Release, Keys, State
<1> QED
  BY <1>2, <1>3, <1>4 DEF OperatorStep

LEMMA CheckTyped ==
  ASSUME TypeOK, CheckStep \/ CheckStops
  PROVE  TypeOK'
<1> USE DEF TypeOK, Check, Checker, IdleChecker
<1>1. CASE StartCheck
  BY <1>1 DEF StartCheck
<1>2. CASE DeleteWorker
  BY <1>2 DEF DeleteWorker, NoKeys, Keys
<1>3. CASE ResolveRemoved
  BY <1>3 DEF ResolveRemoved
<1>4. CASE CheckOffline
  BY <1>4 DEF CheckOffline, Synced
<1>5. CASE ReadStatus
  <2>1. keys.status \in State \cup {NoState}
    BY DEF Keys
  <2>2. checker' \in Checker
    BY <1>5, <2>1 DEF ReadStatus
  <2> QED
    BY <1>5, <2>2 DEF ReadStatus
<1>6. CASE Unlist
  BY <1>6 DEF Unlist, Keys
<1>7. CASE ReadDrift
  BY <1>7 DEF ReadDrift, Synced
<1>8. CASE CheckStuck
  BY <1>8 DEF CheckStuck, Synced
<1>9. CASE CheckStops
  BY <1>9, FaultTyped DEF CheckStops
<1> QED
  BY <1>1, <1>2, <1>3, <1>4, <1>5, <1>6, <1>7, <1>8, <1>9 DEF CheckStep

LEMMA NextTyped ==
  ASSUME TypeOK, [Next]_vars
  PROVE  TypeOK'
<1>1. CASE LateHeartbeatEnds
  BY <1>1 DEF TypeOK, LateHeartbeatEnds, IdleRequest, Request, State
<1>2. CASE SeenAges
  BY <1>2 DEF TypeOK, SeenAges, Keys
<1>3. CASE DriftAges
  BY <1>3 DEF TypeOK, DriftAges, Keys
<1>4. CASE UNCHANGED vars
  BY <1>4 DEF TypeOK, vars
<1>5. CASE ListWorkers
  BY <1>5 DEF TypeOK, ListWorkers, Keys
<1> QED
  BY <1>1, <1>2, <1>3, <1>4, <1>5, WorkerStepTyped, ServeTyped, OperatorTyped, CheckTyped
     DEF Next

\* Every reachable state of a worker's control has its type.
THEOREM TypeCorrect == Spec => []TypeOK
BY InitTyped, NextTyped, PTL DEF Spec

-----------------------------------------------------------------------------
(* The quarantine *)

LEMMA NeverRunsStep ==
  ASSUME TypeOK, QuarantineNeverRuns, [Next]_vars
  PROVE  QuarantineNeverRuns'
<1> USE DEF QuarantineNeverRuns, TypeOK, Keys
<1>1. CASE WorkerStep
  BY <1>1 DEF WorkerStep, WorkerStarts, SendHeartbeat, ReceiveAnswer, HeartbeatTimesOut,
              HeartbeatFails, ClaimChunk, FinishChunk, WorkerDies
<1>2. ASSUME NEW h \in Heartbeat, Serve(h)
      PROVE  QuarantineNeverRuns'
  <2>1. CASE ReadDesired(h) \/ ReadQuarantine(h)
    BY <2>1 DEF ReadDesired, ReadQuarantine
  <2>2. CASE RecordHeartbeat(h)
    BY <2>2 DEF RecordHeartbeat
  <2>3. CASE HoldQuarantine(h)
    BY <2>3 DEF HoldQuarantine, State
  <2> QED
    BY <1>2, <2>1, <2>2, <2>3 DEF Serve
<1>3. CASE OperatorStep
  <2>1. ASSUME NEW state \in Orders, SetDesired(state)
        PROVE  QuarantineNeverRuns'
    BY <2>1, WorkerControlAssumption DEF SetDesired, WorkerControlAssumption
  <2>2. CASE Quarantine
    BY <2>2 DEF Quarantine, State
  <2>3. CASE Release
    BY <2>3 DEF Release
  <2> QED
    BY <1>3, <2>1, <2>2, <2>3 DEF OperatorStep
<1>4. CASE CheckStep
  <2>1. CASE DeleteWorker
    BY <2>1 DEF DeleteWorker, NoKeys
  <2>2. CASE Unlist
    BY <2>2 DEF Unlist
  <2>3. CASE StartCheck \/ ResolveRemoved \/ CheckOffline \/ ReadStatus \/ ReadDrift \/ CheckStuck
    BY <2>3 DEF StartCheck, ResolveRemoved, CheckOffline, ReadStatus, ReadDrift, CheckStuck
  <2> QED
    BY <1>4, <2>1, <2>2, <2>3 DEF CheckStep
<1>5. CASE LateHeartbeatEnds \/ CheckStops \/ UNCHANGED vars
  BY <1>5 DEF LateHeartbeatEnds, CheckStops, vars
<1>6. CASE SeenAges \/ DriftAges \/ ListWorkers
  BY <1>6 DEF SeenAges, DriftAges, ListWorkers
<1> QED
  BY <1>1, <1>2, <1>3, <1>4, <1>5, <1>6 DEF Next

LEMMA WorkerKeepsTold ==
  ASSUME TypeOK, ReadInv, ToldInv, WorkerStep
  PROVE  ReadInv' /\ ToldInv'
<1> USE DEF TypeOK, ReadInv, ToldInv, HasRead, WorkerRecord
<1>1. CASE WorkerStarts
  BY <1>1 DEF WorkerStarts
<1>2. CASE SendHeartbeat
  BY <1>2 DEF SendHeartbeat, IdleRequest
<1>3. CASE ReceiveAnswer
  BY <1>3 DEF ReceiveAnswer, IdleRequest
<1>4. CASE HeartbeatTimesOut
  BY <1>4 DEF HeartbeatTimesOut, Abandon, IdleRequest
<1>5. CASE HeartbeatFails
  BY <1>5 DEF HeartbeatFails, IdleRequest
<1>6. CASE ClaimChunk \/ FinishChunk
  BY <1>6 DEF ClaimChunk, FinishChunk
<1>7. CASE WorkerDies
  BY <1>7 DEF WorkerDies, Abandon, IdleRequest
<1> QED
  BY <1>1, <1>2, <1>3, <1>4, <1>5, <1>6, <1>7 DEF WorkerStep

LEMMA ServeKeepsTold ==
  ASSUME TypeOK, ReadInv, ToldInv, NEW h \in Heartbeat, Serve(h)
  PROVE  ReadInv' /\ ToldInv'
<1> USE DEF TypeOK, ReadInv, ToldInv, HasRead, Request, Keys
<1>1. CASE ReadDesired(h)
  BY <1>1 DEF ReadDesired
<1>2. CASE ReadQuarantine(h)
  BY <1>2 DEF ReadQuarantine
<1>3. CASE RecordHeartbeat(h)
  BY <1>3 DEF RecordHeartbeat
<1>4. CASE HoldQuarantine(h)
  BY <1>4 DEF HoldQuarantine
<1> QED
  BY <1>1, <1>2, <1>3, <1>4 DEF Serve

LEMMA OthersKeepTold ==
  ASSUME TypeOK, ReadInv, ToldInv,
         \/ OperatorStep \/ LateHeartbeatEnds \/ CheckStep \/ CheckStops
         \/ ListWorkers \/ SeenAges \/ DriftAges \/ UNCHANGED vars
  PROVE  ReadInv' /\ ToldInv'
<1> USE DEF TypeOK, ReadInv, ToldInv, HasRead, Keys
<1>1. CASE OperatorStep
  BY <1>1 DEF OperatorStep, SetDesired, Quarantine, Release, Click
<1>2. CASE LateHeartbeatEnds
  BY <1>2 DEF LateHeartbeatEnds, IdleRequest
<1>3. CASE CheckStep
  <2>1. CASE DeleteWorker
    BY <2>1 DEF DeleteWorker, Check
  <2>2. CASE Unlist
    BY <2>2 DEF Unlist, Check
  <2>3. CASE StartCheck \/ ResolveRemoved \/ CheckOffline \/ ReadStatus \/ ReadDrift \/ CheckStuck
    <3>1. UNCHANGED <<worker, requests, keys, told>>
      BY <2>3 DEF StartCheck, ResolveRemoved, CheckOffline, ReadStatus, ReadDrift, CheckStuck,
                  Check
    <3> QED
      BY <3>1
  <2> QED
    BY <1>3, <2>1, <2>2, <2>3 DEF CheckStep
<1>4. CASE CheckStops \/ UNCHANGED vars
  BY <1>4 DEF CheckStops, vars
<1>5. CASE SeenAges
  BY <1>5 DEF SeenAges
<1>6. CASE DriftAges
  BY <1>6 DEF DriftAges
<1>7. CASE ListWorkers
  BY <1>7 DEF ListWorkers
<1> QED
  BY <1>1, <1>2, <1>3, <1>4, <1>5, <1>6, <1>7

LEMMA InitInv == Init => Inv
<1> SUFFICES ASSUME Init PROVE Inv
  OBVIOUS
<1>1. QuarantineNeverRuns
  <2>1. NoKeys.quarantined = FALSE /\ StaleKeys.quarantined = FALSE
    BY DEF NoKeys, StaleKeys
  <2> QED
    BY <2>1 DEF Init, QuarantineNeverRuns
<1>2. ReadInv
  BY DEF Init, ReadInv, HasRead, IdleRequest
<1>3. ToldInv
  BY DEF Init, ToldInv
<1> QED
  BY <1>1, <1>2, <1>3, InitTyped DEF Inv

LEMMA NextInv ==
  ASSUME Inv, [Next]_vars
  PROVE  Inv'
BY NextTyped, NeverRunsStep, WorkerKeepsTold, ServeKeepsTold, OthersKeepTold
   DEF Inv, Next

THEOREM Invariant == Spec => []Inv
BY InitInv, NextInv, PTL DEF Spec

\* Whatever operators, heartbeats and the cleanup do, a worker under quarantine
\* is never meant to run, where a Redis pipeline is one step, as in the model.
THEOREM QuarantinedNeverRuns == Spec => []QuarantineNeverRuns
<1>1. Inv => QuarantineNeverRuns
  BY DEF Inv
<1> QED
  BY <1>1, Invariant, PTL

LEMMA ObeyedStep ==
  ASSUME Inv, [Next]_vars, worker'.chunks > worker.chunks
  PROVE  ~(keys.quarantined /\ told)
<1>1. worker \in WorkerRecord
  BY DEF Inv, TypeOK
<1>2. ClaimChunk
  <2>1. worker'.chunks # worker.chunks
    BY <1>1, WorkerControlAssumption DEF WorkerControlAssumption, WorkerRecord
  <2>2. WorkerStep
    BY <2>1 DEF Next, Serve, ReadDesired, ReadQuarantine, RecordHeartbeat, HoldQuarantine,
                LateHeartbeatEnds, OperatorStep, SetDesired, Quarantine, Release, Click,
                CheckStep, Check, StartCheck, DeleteWorker, ResolveRemoved, CheckOffline,
                ReadStatus, Unlist, ReadDrift, CheckStuck, CheckStops, ListWorkers, SeenAges,
                DriftAges,
                vars
  <2>3. CASE WorkerStarts \/ SendHeartbeat \/ ReceiveAnswer \/ HeartbeatTimesOut \/ HeartbeatFails
    BY <1>1, <2>1, <2>3 DEF WorkerRecord, WorkerStarts, SendHeartbeat, ReceiveAnswer,
                            HeartbeatTimesOut, HeartbeatFails
  <2>4. CASE FinishChunk
    BY <1>1, <2>4, WorkerControlAssumption DEF WorkerControlAssumption, WorkerRecord, FinishChunk
  <2>5. CASE WorkerDies
    BY <1>1, <2>5, WorkerControlAssumption
       DEF WorkerControlAssumption, WorkerRecord, WorkerDies, NewWorker
  <2> QED
    BY <2>2, <2>3, <2>4, <2>5 DEF WorkerStep
<1>3. worker.state = "running"
  BY <1>2 DEF ClaimChunk, CanClaim
<1> QED
  BY <1>3 DEF Inv, ToldInv

\* Once the worker has heard of a quarantine it claims no chunk until the
\* quarantine is lifted, whatever requests it gave up are still executed.
THEOREM QuarantinesAreObeyed == Spec => QuarantineIsObeyed
<1>1. Inv /\ [Next]_vars
        => [worker'.chunks > worker.chunks => ~(keys.quarantined /\ told)]_vars
  BY ObeyedStep
<1> QED
  BY <1>1, Invariant, PTL DEF Spec, QuarantineIsObeyed

-----------------------------------------------------------------------------
(* The incidents *)

\* Who may open an incident: a check that found the worker known or on the list,
\* and only the check itself removes a worker.
OwnedInv ==
  /\ IncidentsAreOwned
  /\ keys.listed => keys.known
  /\ checker.pc \in {"desired", "updated"} => keys.known

LEMMA CheckKeepsOwned ==
  ASSUME TypeOK, OwnedInv, CheckStep \/ CheckStops
  PROVE  OwnedInv'
<1> USE DEF TypeOK, OwnedInv, IncidentsAreOwned, Check, Checker, IdleChecker
<1>1. CASE StartCheck
  BY <1>1 DEF StartCheck
<1>2. CASE DeleteWorker
  BY <1>2 DEF DeleteWorker, NoKeys
<1>3. CASE ResolveRemoved
  BY <1>3 DEF ResolveRemoved
<1>4. CASE CheckOffline
  BY <1>4 DEF CheckOffline, Synced
<1>5. CASE ReadStatus
  BY <1>5 DEF ReadStatus
<1>6. CASE Unlist
  BY <1>6 DEF Unlist, Keys
<1>7. CASE ReadDrift
  BY <1>7 DEF ReadDrift, Synced
<1>8. CASE CheckStuck
  BY <1>8 DEF CheckStuck, Synced
<1>9. CASE CheckStops
  BY <1>9 DEF CheckStops
<1> QED
  BY <1>1, <1>2, <1>3, <1>4, <1>5, <1>6, <1>7, <1>8, <1>9 DEF CheckStep

\* No other step touches an incident, and none makes a worker unknown.
LEMMA OthersKeepOwned ==
  ASSUME TypeOK, OwnedInv, UNCHANGED <<checker, incidents, orphaned>>,
         keys'.known = keys.known \/ keys'.known,
         keys'.listed => keys.listed \/ keys'.known
  PROVE  OwnedInv'
BY DEF OwnedInv, IncidentsAreOwned

LEMMA OwnedStep ==
  ASSUME TypeOK, OwnedInv, [Next]_vars
  PROVE  OwnedInv'
<1>1. CASE \/ WorkerStep \/ LateHeartbeatEnds \/ UNCHANGED vars
           \/ \E h \in Heartbeat : ReadDesired(h) \/ ReadQuarantine(h)
  <2>1. UNCHANGED <<keys, checker, incidents, orphaned>>
    BY <1>1 DEF WorkerStep, WorkerStarts, SendHeartbeat, ReceiveAnswer, HeartbeatTimesOut,
                HeartbeatFails, ClaimChunk, FinishChunk, WorkerDies, LateHeartbeatEnds,
                ReadDesired, ReadQuarantine, vars
  <2> QED
    BY <2>1, OthersKeepOwned
<1>2. ASSUME NEW h \in Heartbeat, RecordHeartbeat(h) \/ HoldQuarantine(h)
      PROVE  OwnedInv'
  <2>1. CASE RecordHeartbeat(h)
    BY <2>1, OthersKeepOwned DEF RecordHeartbeat, TypeOK, Keys
  <2>2. CASE HoldQuarantine(h)
    BY <2>2, OthersKeepOwned DEF HoldQuarantine, TypeOK, Keys
  <2> QED
    BY <1>2, <2>1, <2>2
<1>3. CASE OperatorStep
  BY <1>3, OthersKeepOwned DEF OperatorStep, SetDesired, Quarantine, Release, Click, TypeOK, Keys
<1>4. CASE CheckStep \/ CheckStops
  BY <1>4, CheckKeepsOwned
<1>5. CASE ListWorkers
  BY <1>5, OthersKeepOwned DEF ListWorkers, TypeOK, Keys
<1>6. CASE SeenAges
  BY <1>6, OthersKeepOwned DEF SeenAges, TypeOK, Keys
<1>7. CASE DriftAges
  BY <1>7, OthersKeepOwned DEF DriftAges, TypeOK, Keys
<1> QED
  BY <1>1, <1>2, <1>3, <1>4, <1>5, <1>6, <1>7 DEF Next, Serve

\* An incident is never left without anyone who would close it, however checks,
\* removals and heartbeats overlap, unless a check stops half-way.
THEOREM IncidentsHaveOwners == Spec => []IncidentsAreOwned
<1>1. Init => OwnedInv
  <2>1. ~NoKeys.listed /\ ~StaleKeys.listed /\ StaleKeys.known
    BY DEF NoKeys, StaleKeys
  <2>2. IdleChecker.pc = "idle"
    BY DEF IdleChecker
  <2> QED
    BY <2>1, <2>2 DEF Init, OwnedInv, IncidentsAreOwned
<1>2. TypeOK /\ OwnedInv /\ [Next]_vars => OwnedInv'
  BY OwnedStep
<1>3. OwnedInv => IncidentsAreOwned
  BY DEF OwnedInv
<1> QED
  BY <1>1, <1>2, <1>3, TypeCorrect, PTL DEF Spec
=============================================================================
