--------------------------- MODULE WorkerControl ---------------------------
(***************************************************************************)
(* How the control plane steers one worker: the worker's heartbeats carry  *)
(* its state to Redis and the operators' orders back (services/            *)
(* go-control-plane/store.go, handlers.go and the worker's loop.go), and   *)
(* the alert service removes stale workers and opens and resolves the      *)
(* incidents of the others (alerts.go).  Keys of different workers are     *)
(* disjoint, so one worker stands for all.                                 *)
(*                                                                         *)
(* A heartbeat is a few Redis calls with nothing to hold them together; a  *)
(* pipeline is one step.  The worker waits ten seconds for its answer; the *)
(* request it gave up may still be executed.  One instance of the alert    *)
(* service runs at a time (its leader lease outlives the ten seconds a     *)
(* check may take).  Alerts and the stale-worker TTL are switched on.      *)
(*                                                                         *)
(* A definition under a comment that begins with "Variant" belongs to no   *)
(* specification: it is a plausible mistake the properties must notice.    *)
(***************************************************************************)
EXTENDS Integers

CONSTANTS
  Orders,          \* the desired states an operator may ask for
  MaxConcurrency,  \* chunks the worker works on at a time
  MaxClicks,       \* bound: requests of operators
  MaxFaults        \* bound: lost requests, outages, deaths of the worker or the check

State == {"running", "paused", "draining", "stopped"}
NoState == "none"

ASSUME WorkerControlAssumption ==
  /\ Orders \subseteq State
  /\ MaxConcurrency \in Nat
  /\ MaxClicks \in Nat
  /\ MaxFaults \in Nat

VARIABLES
  worker,     \* the worker process: what its loop is doing, its state, its chunks
  requests,   \* the heartbeat it waits for, and one it gave up
  keys,       \* the worker's keys in Redis
  checker,    \* the check of the alert service and what it has read
  incidents,  \* the incidents that are active
  clicks,     \* requests of operators so far
  faults,     \* faults so far
  missed,     \* whether the running worker lost a heartbeat since the last recorded one
  told,       \* whether the running worker has heard of the quarantine in force
  orphaned    \* whether a check stopped between removing a worker and its incidents

vars == <<worker, requests, keys, checker, incidents, clicks, faults, missed,
          told, orphaned>>

Heartbeat == {"current", "late"}
Incident == {"offline", "stuck"}

\* pc: down, start (no heartbeat sent yet), wait (for the answer), loop.
WorkerRecord == [pc : {"down", "start", "wait", "loop"}, state : State,
                 chunks : 0..MaxConcurrency]

\* What a process starts from (New); it forgets the rest when it dies.
NewWorker == [pc |-> "down", state |-> "running", chunks |-> 0]

\* pc names the next step of UpsertHeartbeat; status is the state the worker
\* reported, desired and quarantined what the request has read.
Request == [pc : {"idle", "desired", "quarantine", "record", "hold", "answer"},
            status : State, desired : State, quarantined : BOOLEAN]

\* seen is the age of last_seen: within the 60 s for which status and heartbeat
\* live, past them, past the grace of the offline check, past the stale TTL.
\* updated is the age of desired_state_updated, old past the stuck grace.
\* known and listed: member of workers:known, of workers:active.
Keys == [desired : State \cup {NoState}, updated : {NoState, "fresh", "old"},
         quarantined : BOOLEAN, status : State \cup {NoState},
         seen : {"never", "fresh", "expired", "missing", "stale"},
         known : BOOLEAN, listed : BOOLEAN]

NoKeys == [desired |-> NoState, updated |-> NoState, quarantined |-> FALSE,
           status |-> NoState, seen |-> "never", known |-> FALSE, listed |-> FALSE]

\* What is left of a worker that has been away for the stale TTL.
StaleKeys == [NoKeys EXCEPT !.known = TRUE, !.seen = "stale"]

Checker == [pc : {"idle", "delete", "resolve", "offline", "stuck",
                   "desired", "updated", "unlist"},
            status : State \cup {NoState}]

IdleChecker == [pc |-> "idle", status |-> NoState]
IdleRequest == [pc |-> "idle", status |-> "running", desired |-> "running",
                quarantined |-> FALSE]

TypeOK ==
  /\ worker \in WorkerRecord
  /\ requests \in [Heartbeat -> Request]
  /\ keys \in Keys
  /\ checker \in Checker
  /\ incidents \in SUBSET Incident
  /\ clicks \in 0..MaxClicks
  /\ faults \in 0..MaxFaults
  /\ missed \in BOOLEAN
  /\ told \in BOOLEAN
  /\ orphaned \in BOOLEAN

\* The worker is new, or has been away until it was reported and went stale.
Init ==
  /\ worker = NewWorker
  /\ requests = [h \in Heartbeat |-> IdleRequest]
  /\ \/ keys = NoKeys /\ incidents = {}
     \/ keys = StaleKeys /\ incidents = {"offline"}
  /\ checker = IdleChecker
  /\ clicks = 0
  /\ faults = 0
  /\ missed = FALSE
  /\ told = FALSE
  /\ orphaned = FALSE

Up == worker.pc # "down"

\* An absent desired_state means running.
Wanted(desired) == IF desired = NoState THEN "running" ELSE desired

Fault ==
  /\ faults < MaxFaults
  /\ faults' = faults + 1

-----------------------------------------------------------------------------
(* The worker: New, Run and sendHeartbeats *)

WorkerStarts ==
  /\ worker.pc = "down"
  /\ worker' = [worker EXCEPT !.pc = "start"]
  /\ UNCHANGED <<requests, keys, checker, incidents, clicks, faults, missed, told, orphaned>>

\* A heartbeat goes out before the first claim and whenever one is due.
SendHeartbeat ==
  /\ worker.pc \in {"start", "loop"}
  /\ worker' = [worker EXCEPT !.pc = "wait"]
  /\ requests' = [requests EXCEPT !["current"] =
                    [IdleRequest EXCEPT !.pc = "desired", !.status = worker.state]]
  /\ UNCHANGED <<keys, checker, incidents, clicks, faults, missed, told, orphaned>>

\* The answer's desired state becomes the worker's.
ReceiveAnswer ==
  /\ requests["current"].pc = "answer"
  /\ worker' = [worker EXCEPT !.pc = "loop", !.state = requests["current"].desired]
  /\ told' = (keys.quarantined /\ (told \/ requests["current"].quarantined))
  /\ requests' = [requests EXCEPT !["current"] = IdleRequest]
  /\ UNCHANGED <<keys, checker, incidents, clicks, faults, missed, orphaned>>

\* The worker lost its heartbeat: the request, if it was sent at all, is late.
\* Bound: one late request at a time.
Abandon ==
  /\ requests["late"].pc = "idle"
  /\ requests' = [requests EXCEPT !["current"] = IdleRequest,
                    !["late"] = IF requests["current"].pc = "answer" THEN IdleRequest
                                ELSE requests["current"]]

\* Variant: a worker that does not hear from the control plane runs.
HeartbeatTimesOutOpen ==
  /\ worker.pc = "wait"
  /\ Fault
  /\ Abandon
  /\ missed' = TRUE
  /\ worker' = [worker EXCEPT !.pc = "loop", !.state = "running"]
  /\ UNCHANGED <<keys, checker, incidents, clicks, told, orphaned>>

\* After ten seconds the worker goes on in the state it had.
HeartbeatTimesOut ==
  /\ worker.pc = "wait"
  /\ Fault
  /\ Abandon
  /\ missed' = TRUE
  /\ worker' = [worker EXCEPT !.pc = "loop"]
  /\ UNCHANGED <<keys, checker, incidents, clicks, told, orphaned>>

\* The request never arrives, or Redis answers one of its calls with an error.
HeartbeatFails ==
  /\ worker.pc = "wait"
  /\ requests["current"].pc \in {"desired", "quarantine", "record"}
  /\ Fault
  /\ worker' = [worker EXCEPT !.pc = "loop"]
  /\ requests' = [requests EXCEPT !["current"] = IdleRequest]
  /\ missed' = TRUE
  /\ UNCHANGED <<keys, checker, incidents, clicks, told, orphaned>>

CanClaim == worker.state = "running"

\* Variant: one chunk too many.
ClaimChunkBeyond ==
  /\ worker.pc = "loop"
  /\ CanClaim
  /\ worker.chunks <= MaxConcurrency
  /\ worker' = [worker EXCEPT !.chunks = @ + 1]
  /\ UNCHANGED <<requests, keys, checker, incidents, clicks, faults, missed, told, orphaned>>

ClaimChunk ==
  /\ worker.pc = "loop"
  /\ CanClaim
  /\ worker.chunks < MaxConcurrency
  /\ worker' = [worker EXCEPT !.chunks = @ + 1]
  /\ UNCHANGED <<requests, keys, checker, incidents, clicks, faults, missed, told, orphaned>>

FinishChunk ==
  /\ Up
  /\ worker.chunks > 0
  /\ worker' = [worker EXCEPT !.chunks = @ - 1]
  /\ UNCHANGED <<requests, keys, checker, incidents, clicks, faults, missed, told, orphaned>>

WorkerDies ==
  /\ Up
  /\ Fault
  /\ IF worker.pc = "wait" THEN Abandon ELSE UNCHANGED requests
  /\ worker' = NewWorker
  /\ missed' = FALSE
  /\ told' = FALSE
  /\ UNCHANGED <<keys, checker, incidents, clicks, orphaned>>

-----------------------------------------------------------------------------
(* UpsertHeartbeat *)

ReadDesired(h) ==
  /\ requests[h].pc = "desired"
  /\ requests' = [requests EXCEPT ![h].pc = "quarantine",
                                  ![h].desired = Wanted(keys.desired)]
  /\ UNCHANGED <<worker, keys, checker, incidents, clicks, faults, missed, told, orphaned>>

\* A quarantine overrides the desired state that was read before it.
ReadQuarantine(h) ==
  /\ requests[h].pc = "quarantine"
  /\ requests' = [requests EXCEPT
                    ![h].pc = "record",
                    ![h].quarantined = keys.quarantined,
                    ![h].desired = IF keys.quarantined THEN "draining" ELSE @]
  /\ UNCHANGED <<worker, keys, checker, incidents, clicks, faults, missed, told, orphaned>>

\* Nobody waits for the answer to a late request.
Answered(h) == IF h = "current" THEN "answer" ELSE "idle"

\* The pipeline: the worker becomes known and active, and the clock of its drift
\* from the desired state is started, left running or stopped.
RecordHeartbeat(h) ==
  /\ requests[h].pc = "record"
  /\ keys' = [keys EXCEPT
                !.known = TRUE, !.listed = TRUE, !.seen = "fresh",
                !.status = requests[h].status,
                !.updated = IF requests[h].status = requests[h].desired THEN NoState
                            ELSE IF @ = NoState THEN "fresh" ELSE @]
  /\ missed' = FALSE
  /\ requests' = [requests EXCEPT ![h].pc = IF requests[h].quarantined THEN "hold"
                                            ELSE Answered(h)]
  /\ UNCHANGED <<worker, checker, incidents, clicks, faults, told, orphaned>>

\* Variant: the desired state an operator set during the quarantine is left.
HoldQuarantineUnset(h) ==
  /\ requests[h].pc = "hold"
  /\ requests' = [requests EXCEPT ![h].pc = Answered(h)]
  /\ UNCHANGED <<worker, keys, checker, incidents, clicks, faults, missed, told, orphaned>>

\* A quarantined worker's desired state is set to draining again.  The result of
\* this call is ignored, so it may also fail.
HoldQuarantine(h) ==
  /\ requests[h].pc = "hold"
  /\ \/ keys' = [keys EXCEPT !.desired = "draining"] /\ UNCHANGED faults
     \/ Fault /\ UNCHANGED keys
  /\ requests' = [requests EXCEPT ![h].pc = Answered(h)]
  /\ UNCHANGED <<worker, checker, incidents, clicks, missed, told, orphaned>>

\* The server notices that the worker has hung up and cancels the request.
LateHeartbeatEnds ==
  /\ requests["late"].pc # "idle"
  /\ requests' = [requests EXCEPT !["late"] = IdleRequest]
  /\ UNCHANGED <<worker, keys, checker, incidents, clicks, faults, missed, told, orphaned>>

Serve(h) ==
  ReadDesired(h) \/ ReadQuarantine(h) \/ RecordHeartbeat(h) \/ HoldQuarantine(h)

-----------------------------------------------------------------------------
(* The operators, or the automatic actions: SetDesiredState and                *)
(* SetWorkerQuarantined                                                        *)

Click ==
  /\ clicks < MaxClicks
  /\ clicks' = clicks + 1
  /\ UNCHANGED <<worker, requests, checker, incidents, faults, missed, orphaned>>

\* Asking for running ends a quarantine.
SetDesired(state) ==
  /\ Click
  /\ keys' = [keys EXCEPT !.desired = state, !.updated = "fresh",
                          !.quarantined = @ /\ state # "running"]
  /\ told' = (told /\ state # "running")

Quarantine ==
  /\ Click
  /\ keys' = [keys EXCEPT !.quarantined = TRUE, !.desired = "draining",
                          !.updated = "fresh"]
  /\ told' = FALSE

Release ==
  /\ Click
  /\ keys' = [keys EXCEPT !.quarantined = FALSE, !.desired = "running",
                          !.updated = "fresh"]
  /\ told' = FALSE

-----------------------------------------------------------------------------
(* The alert service: runChecks *)

Check(pc) ==
  /\ checker.pc = pc
  /\ UNCHANGED <<worker, requests, clicks, faults, missed, orphaned>>

\* CleanupStaleKnownWorkers first reads the known workers and when they were
\* last seen, ...
StartCheck ==
  /\ Check("idle")
  /\ checker' = [checker EXCEPT
                   !.pc = IF keys.known /\ keys.seen = "stale" THEN "delete" ELSE "offline"]
  /\ UNCHANGED <<keys, incidents, told>>

\* Variant: staleWorkerDeleteKeys does not name the quarantine.
DeleteWorkerKeepingQuarantine ==
  /\ Check("delete")
  /\ keys' = [NoKeys EXCEPT !.quarantined = keys.quarantined]
  /\ checker' = [checker EXCEPT !.pc = "resolve"]
  /\ UNCHANGED <<incidents, told>>

\* ... then deletes every key of those it found stale, whatever has come since.
DeleteWorker ==
  /\ Check("delete")
  /\ keys' = NoKeys
  /\ told' = FALSE
  /\ checker' = [checker EXCEPT !.pc = "resolve"]
  /\ UNCHANGED incidents

\* Variant: a removed worker's incidents are resolved unless it was stuck.
ResolveRemovedOffline ==
  /\ Check("resolve")
  /\ incidents' = incidents \ {"offline"}
  /\ checker' = [checker EXCEPT !.pc = "offline"]
  /\ UNCHANGED <<keys, told>>

\* The loop after the deletion; no other step reads or writes incidents.
ResolveRemoved ==
  /\ Check("resolve")
  /\ incidents' = {}
  /\ checker' = [checker EXCEPT !.pc = "offline"]
  /\ UNCHANGED <<keys, told>>

Synced(incident, active) ==
  IF active THEN incidents \cup {incident} ELSE incidents \ {incident}

\* Variant: the check goes through the workers GetWorkers lists.
CheckOfflineListed ==
  /\ Check("offline")
  /\ incidents' = IF keys.listed
                  THEN Synced("offline", keys.seen \in {"missing", "stale"})
                  ELSE incidents
  /\ checker' = [checker EXCEPT !.pc = "stuck"]
  /\ UNCHANGED <<keys, told>>

\* checkOfflineWorkers looks at the known workers only.
CheckOffline ==
  /\ Check("offline")
  /\ incidents' = IF keys.known
                  THEN Synced("offline", keys.seen \in {"missing", "stale"})
                  ELSE incidents
  /\ checker' = [checker EXCEPT !.pc = "stuck"]
  /\ UNCHANGED <<keys, told>>

\* checkStuckDesiredState looks at the workers GetWorkers lists: the status is
\* read first, the desired state next, and the drift's clock last, which decides
\* only if the two differ.
ReadStatus ==
  /\ Check("stuck")
  /\ checker' = IF ~keys.listed THEN IdleChecker
                ELSE IF keys.seen # "fresh" THEN [checker EXCEPT !.pc = "unlist"]
                ELSE [checker EXCEPT !.pc = "desired", !.status = keys.status]
  /\ UNCHANGED <<keys, incidents, told>>

\* A worker whose heartbeat key has expired is taken off the list.
Unlist ==
  /\ Check("unlist")
  /\ keys' = [keys EXCEPT !.listed = FALSE]
  /\ checker' = IdleChecker
  /\ UNCHANGED <<incidents, told>>

ReadDrift ==
  /\ Check("desired")
  /\ IF checker.status = Wanted(keys.desired)
     THEN incidents' = Synced("stuck", FALSE) /\ checker' = IdleChecker
     ELSE checker' = [IdleChecker EXCEPT !.pc = "updated"] /\ UNCHANGED incidents
  /\ UNCHANGED <<keys, told>>

CheckStuck ==
  /\ Check("updated")
  /\ incidents' = Synced("stuck", keys.updated = "old")
  /\ checker' = IdleChecker
  /\ UNCHANGED <<keys, told>>

\* The process dies, loses its lease or spends its ten seconds, maybe between
\* two incidents of a removed worker.
CheckStops ==
  /\ checker.pc # "idle"
  /\ Fault
  /\ \/ UNCHANGED incidents
     \/ checker.pc = "resolve" /\ incidents' = incidents \ {"offline"}
  /\ checker' = IdleChecker
  /\ orphaned' = (orphaned \/ checker.pc = "resolve")
  /\ UNCHANGED <<worker, requests, keys, clicks, missed, told>>

\* GetWorkers for the dashboard, the snapshots or the autoscaler.
ListWorkers ==
  /\ keys.listed
  /\ keys.seen # "fresh"
  /\ keys' = [keys EXCEPT !.listed = FALSE]
  /\ UNCHANGED <<worker, requests, checker, incidents, clicks, faults, missed, told, orphaned>>

CheckStep ==
  \/ StartCheck
  \/ DeleteWorker
  \/ ResolveRemoved
  \/ CheckOffline
  \/ ReadStatus
  \/ Unlist
  \/ ReadDrift
  \/ CheckStuck

-----------------------------------------------------------------------------
(* Time *)

\* The TTLs outlast the heartbeats of a worker that runs and is heard.
Silent == ~Up \/ missed

SeenAges ==
  /\ Silent
  /\ keys.seen \in {"fresh", "expired", "missing"}
  /\ keys' = [keys EXCEPT
                !.seen = CASE @ = "fresh" -> "expired"
                           [] @ = "expired" -> "missing"
                           [] @ = "missing" -> "stale",
                !.status = NoState]
  /\ UNCHANGED <<worker, requests, checker, incidents, clicks, faults, missed, told, orphaned>>

DriftAges ==
  /\ Silent
  /\ keys.updated = "fresh"
  /\ keys' = [keys EXCEPT !.updated = "old"]
  /\ UNCHANGED <<worker, requests, checker, incidents, clicks, faults, missed, told, orphaned>>

-----------------------------------------------------------------------------

WorkerStep ==
  \/ WorkerStarts
  \/ SendHeartbeat
  \/ ReceiveAnswer
  \/ HeartbeatTimesOut
  \/ HeartbeatFails
  \/ ClaimChunk
  \/ FinishChunk
  \/ WorkerDies

OperatorStep ==
  \/ \E state \in Orders : SetDesired(state)
  \/ Quarantine
  \/ Release

Next ==
  \/ WorkerStep
  \/ \E h \in Heartbeat : Serve(h)
  \/ LateHeartbeatEnds
  \/ OperatorStep
  \/ CheckStep
  \/ CheckStops
  \/ ListWorkers
  \/ SeenAges
  \/ DriftAges

Spec == Init /\ [][Next]_vars

\* A running worker goes on sending heartbeats, which the server executes and
\* answers; the checks recur; and time passes, as far as the grace of the offline
\* check: the stale TTL may be a day.  Nothing makes a worker start, claim or
\* finish, and a late request need not be executed.
HeartbeatStep == SendHeartbeat \/ Serve("current") \/ ReceiveAnswer

FairSpec ==
  /\ Spec
  /\ WF_vars(HeartbeatStep)
  /\ WF_vars(CheckStep)
  /\ WF_vars(SeenAges /\ keys.seen # "missing")

-----------------------------------------------------------------------------
(* Properties *)

\* Whatever operators, heartbeats and the cleanup do in whatever order, a worker
\* under quarantine is never meant to run: the two keys, written by different
\* requests, agree.  This takes each Redis pipeline for one step: an order to run
\* writes the state before it deletes the quarantine (SetDesiredState), and a
\* client whose read Redis executes between the two finds both.
QuarantineNeverRuns ==
  keys.quarantined => keys.desired \in State \ {"running"}

\* Once the worker has heard of a quarantine it claims no chunk until the
\* quarantine is lifted, although a request it gave up may still be executed and
\* heartbeats overlap with the operators' writes.  A worker that restarts has to
\* hear of it again: it starts as running.
QuarantineIsObeyed ==
  [][worker'.chunks > worker.chunks => ~(keys.quarantined /\ told)]_vars

\* An open incident is about a worker that the checks will come back to, is being
\* closed with the worker's removal, or was left behind by a removal that stopped
\* half-way, whatever heartbeats and orders arrive during a check.
IncidentsAreOwned ==
  incidents # {} => keys.known \/ checker.pc = "resolve" \/ orphaned

\* When operators and faults come to rest, a running worker is in the state its
\* key asks for.
Converges == <>[](Up => worker.state = Wanted(keys.desired))

\* A known worker that stays away is reported, or removed as stale.
DownIsReported ==
  ~Up /\ keys.known ~> (Up \/ ~keys.known \/ "offline" \in incidents)

\* No incident stays open for a worker that runs, nor for one that was removed,
\* unless the check stopped between removing the worker and its incidents.
IncidentsEnd ==
  <>[](Up \/ (~keys.known /\ ~orphaned) => incidents = {})
=============================================================================
