--------------------------- MODULE SeedSendProofs ---------------------------
(***************************************************************************)
(* Theorems about SeedSendCampaign, for every number of recipients and     *)
(* dispatching processes, every batch size and every bound.                *)
(***************************************************************************)
EXTENDS SeedSendCampaign, FiniteSetTheorems, TLAPS

-----------------------------------------------------------------------------
(* Types. *)

EventKnown == ingestor.pc # "idle" => ingestor.kind \in EventKind
TypeInv == TypeOK /\ EventKnown

LEMMA Counted ==
  ASSUME NEW S \in SUBSET Recipient
  PROVE  /\ IsFiniteSet(S)
         /\ Cardinality(S) \in 0..Reserved
         /\ Reserved \in Nat
<1>1. IsFiniteSet(S) /\ Cardinality(S) <= Cardinality(Recipient)
  BY FS_Subset, SeedSendAssumption
<1>2. Cardinality(S) \in Nat /\ Cardinality(Recipient) \in Nat
  BY <1>1, FS_CardinalityType, SeedSendAssumption
<1>3. QED
  BY <1>1, <1>2 DEF Reserved

LEMMA SettlementType ==
  ASSUME NEW u \in 0..Reserved
  PROVE  /\ Settlement(u) \in [consume : NoEntry..Reserved,
                               release : NoEntry..Reserved]
         /\ Settlement(u).consume = u
         /\ Settlement(u).release = Reserved - u
<1>1. Reserved \in Nat
  BY Counted
<1>2. QED
  BY <1>1 DEF Settlement, NoEntry

LEMMA MarkedType ==
  ASSUME TypeOK, NEW ids, NEW s \in RecipientStatus
  PROVE  Marked(ids, s) \in [Recipient -> Row]
BY DEF TypeOK, Marked, Row

LEMMA CancelledType ==
  ASSUME TypeOK
  PROVE  /\ CancelledRecipients \in [Recipient -> Row]
         /\ \A r \in Recipient :
              /\ CancelledRecipients[r].attempts = recipient[r].attempts
              /\ CancelledRecipients[r].status \notin Unfinished
<1> SUFFICES ASSUME NEW r \in Recipient
             PROVE  /\ CancelledRecipients[r] \in Row
                    /\ CancelledRecipients[r].attempts = recipient[r].attempts
                    /\ CancelledRecipients[r].status \notin Unfinished
  BY DEF CancelledRecipients
<1> DEFINE s == recipient[r].status
           t == CASE s = "pending" -> "failed"
                  [] s \in InFlight -> "deferred"
                  [] OTHER -> s
<1>1. recipient[r] \in Row
  BY DEF TypeOK
<1>2. s \in RecipientStatus /\ t \in RecipientStatus /\ t \notin Unfinished
  BY <1>1 DEF Row, RecipientStatus, InFlight, Unfinished
<1>3. CancelledRecipients[r] = [recipient[r] EXCEPT !.status = t]
  BY <1>1 DEF CancelledRecipients, Row
<1> HIDE DEF t
<1>4. QED
  BY <1>1, <1>2, <1>3 DEF Row

LEMMA CancelsType ==
  ASSUME TypeOK, Cancels
  PROVE  /\ recipient' \in [Recipient -> Row]
         /\ campaign' \in [status : CampaignStatus,
                           started : {"never", "fresh", "old"}]
         /\ ledger' \in [consume : NoEntry..Reserved, release : NoEntry..Reserved]
         /\ torn' \in BOOLEAN
<1>1. Attempted(CancelledRecipients) \in SUBSET Recipient
  BY DEF Attempted
<1>2. Cardinality(Attempted(CancelledRecipients)) \in 0..Reserved
  BY <1>1, Counted
<1>3. QED
  BY <1>2, CancelledType, SettlementType
     DEF Cancels, SetStatus, TypeOK, CampaignStatus

LEMMA QueueType ==
  ASSUME TypeOK
  PROVE  /\ \A lane \in Lane : Enqueue(lane) => queue' \in [Lane \X {1, 2} -> Nat]
         /\ \A lane \in Lane, try \in {1, 2} :
              Redelivered(lane, try) =>
                /\ queue' \in [Lane \X {1, 2} -> Nat]
                /\ forgotten' \in BOOLEAN
         /\ \A lane \in Lane, try \in {1, 2} :
              /\ queue[<<lane, try>>] > 0
              /\ queue' = [queue EXCEPT ![<<lane, try>>] = @ - 1]
              => queue' \in [Lane \X {1, 2} -> Nat]
<1>1. ASSUME NEW lane \in Lane, NEW try \in {1, 2}
      PROVE  /\ <<lane, try>> \in Lane \X {1, 2}
             /\ queue[<<lane, try>>] \in Nat
  BY DEF TypeOK
<1>2. QED
  BY <1>1 DEF Enqueue, Redelivered, TypeOK

\* The four groups of variables no handler changes together.
LEMMA DispatcherType ==
  ASSUME TypeOK, NEW d \in Dispatcher, NEW s \in DispatcherState, Dispatches(d, s)
  PROVE  dispatcher' \in [Dispatcher -> DispatcherState]
BY DEF TypeOK, Dispatches

LEMMA Constants ==
  /\ IdleDispatcher \in DispatcherState
  /\ IdleReconciler \in ReconcilerState
  /\ IdleIngestor \in IngestorState
  /\ IdleAdmin \in AdminState
  /\ "dispatch" \in Lane /\ "reconcile" \in Lane
<1>1. 0 \in 0..Reserved
  BY Counted
<1>2. QED
  BY <1>1 DEF IdleDispatcher, DispatcherState, DispatcherPC, IdleReconciler,
     ReconcilerState,
     IdleIngestor, IngestorState, IdleAdmin, AdminState, Lane, RecipientStatus,
     CampaignStatus

LEMMA InitTypeInv == Init => TypeInv
<1>1. Reserved \in Nat
  BY Counted
<1>2. ASSUME Init PROVE campaign \in [status : CampaignStatus,
                                       started : {"never", "fresh", "old"}]
  BY <1>2 DEF Init, CampaignStatus
<1>3. ASSUME Init PROVE recipient \in [Recipient -> Row]
  BY <1>3 DEF Init, Row, RecipientStatus
<1>4. ASSUME Init PROVE ledger \in [consume : NoEntry..Reserved,
                                     release : NoEntry..Reserved]
  BY <1>1, <1>4 DEF Init, NoEntry
<1>5. ASSUME Init PROVE queue \in [Lane \X {1, 2} -> Nat]
  BY <1>5 DEF Init
<1>6. ASSUME Init PROVE /\ dispatcher \in [Dispatcher -> DispatcherState]
                        /\ reconciler \in ReconcilerState
                        /\ ingestor \in IngestorState /\ EventKnown
                        /\ admin \in AdminState
  BY <1>6, Constants DEF Init, EventKnown, IdleIngestor
<1>7. ASSUME Init PROVE /\ sent \in [Recipient -> Nat]
                        /\ late \in [Dispatcher -> Nat]
  BY <1>7 DEF Init
<1>8. ASSUME Init PROVE /\ clicks \in Nat /\ retries \in Nat /\ deaths \in Nat
                        /\ forgotten \in BOOLEAN /\ torn \in BOOLEAN
                        /\ consent \in {"approved", "ended"}
                        /\ events \subseteq Recipient \X EventKind \X Nat
  BY <1>8 DEF Init
<1>9. QED
  BY <1>2, <1>3, <1>4, <1>5, <1>6, <1>7, <1>8 DEF TypeInv, TypeOK

\* What a dispatching process becomes.
LEMMA DispatcherValues ==
  ASSUME TypeOK, NEW d \in Dispatcher
  PROVE  /\ dispatcher[d] \in DispatcherState
         /\ \A pc \in DispatcherPC :
              /\ At(d, pc) \in DispatcherState
              /\ \A b \in SUBSET Recipient :
                   [At(d, pc) EXCEPT !.batch = b] \in DispatcherState
              /\ \A r \in Recipient :
                   [At(d, pc) EXCEPT !.mail = r] \in DispatcherState
         /\ AbandonedAt(d) \in DispatcherState
         /\ NextMail(d) \in DispatcherState
<1>1. dispatcher[d] \in DispatcherState
  BY DEF TypeOK
<1>2. \A pc \in DispatcherPC : At(d, pc) \in DispatcherState
  BY <1>1 DEF At, DispatcherState
<1>3. ASSUME NEW s \in DispatcherState
      PROVE  /\ \A b \in SUBSET Recipient : [s EXCEPT !.batch = b] \in DispatcherState
             /\ \A r \in Recipient : [s EXCEPT !.mail = r] \in DispatcherState
  BY DEF DispatcherState
<1>4. "cancel" \in DispatcherPC
  BY DEF DispatcherPC
<1>5. AbandonedAt(d) \in DispatcherState
  BY <1>2, <1>4, Constants DEF AbandonedAt
<1>6. NextMail(d) \in DispatcherState
  BY <1>1 DEF NextMail, DispatcherState, DispatcherPC
<1>7. QED
  BY <1>1, <1>2, <1>3, <1>5, <1>6

LEMMA TypeOKStep == TypeInv /\ [Next]_vars => TypeInv'
<1> SUFFICES ASSUME TypeInv, [Next]_vars PROVE TypeInv'
  OBVIOUS
<1> USE DEF rows, jobs, requests, mails
<1>0. TypeOK /\ EventKnown
  BY DEF TypeInv
<1>1. CASE CampaignAges
  BY <1>0, <1>1 DEF CampaignAges, TypeInv, TypeOK, EventKnown
<1>2. CASE ConsentExpires
  BY <1>0, <1>2 DEF ConsentExpires, TypeInv, TypeOK, EventKnown
<1>3. CASE RevokeConsent
  <2>1. CASE Cancels
    BY <1>0, <1>3, <2>1, CancelsType DEF RevokeConsent, TypeInv, TypeOK, EventKnown
  <2>2. CASE UNCHANGED <<campaign, recipient, ledger, torn>>
    BY <1>0, <1>3, <2>2 DEF RevokeConsent, TypeInv, TypeOK, EventKnown
  <2>3. QED
    BY <1>3, <2>1, <2>2 DEF RevokeConsent
<1>4. ASSUME NEW d \in Dispatcher, NEW try \in {1, 2}, DispatchStarts(d, try)
      PROVE TypeInv'
  <2>1. queue' \in [Lane \X {1, 2} -> Nat]
    BY <1>0, <1>4, QueueType, Constants DEF DispatchStarts
  <2>2. [IdleDispatcher EXCEPT
           !.pc = IF consent = "ended" THEN "cancel" ELSE "claim",
           !.try = try] \in DispatcherState
    BY Constants DEF DispatcherState, DispatcherPC
  <2>3. dispatcher' \in [Dispatcher -> DispatcherState]
    BY <1>0, <1>4, <2>2, DispatcherType, Constants DEF DispatchStarts
  <2>4. QED
    BY <1>0, <1>4, <2>1, <2>3 DEF DispatchStarts, TypeInv, TypeOK, EventKnown
<1>5. ASSUME NEW d \in Dispatcher, SafetyCancel(d) PROVE TypeInv'
  <2>1. dispatcher' \in [Dispatcher -> DispatcherState]
    BY <1>0, <1>5, DispatcherType, Constants DEF SafetyCancel
  <2>2. QED
    BY <1>0, <1>5, <2>1, CancelsType
       DEF SafetyCancel, TypeInv, TypeOK, EventKnown
<1>6. ASSUME NEW d \in Dispatcher, Claim(d) PROVE TypeInv'
  <2>1. CASE UNCHANGED <<campaign, recipient>> /\ Dispatches(d, At(d, "reload"))
    <3>1. dispatcher' \in [Dispatcher -> DispatcherState]
      BY <1>0, <2>1, DispatcherType, DispatcherValues DEF DispatcherPC
    <3>2. QED
      BY <1>0, <1>6, <2>1, <3>1 DEF Claim, TypeInv, TypeOK, EventKnown
  <2>2. ASSUME NEW batch \in Batches(WithStatus({"pending"})),
               campaign' = Started,
               recipient' = [r \in Recipient |->
                               IF r \in batch
                               THEN [status |-> "dispatching",
                                     attempts |-> recipient[r].attempts + 1]
                               ELSE recipient[r]],
               Dispatches(d, [At(d, "reload") EXCEPT !.batch = batch])
        PROVE TypeInv'
    <3>1. batch \in SUBSET Recipient
      BY DEF Batches, WithStatus
    <3>2. dispatcher' \in [Dispatcher -> DispatcherState]
      BY <1>0, <2>2, <3>1, DispatcherType, DispatcherValues DEF DispatcherPC
    <3>3. recipient' \in [Recipient -> Row]
      BY <1>0, <2>2 DEF TypeOK, Row, RecipientStatus
    <3>4. campaign' \in [status : CampaignStatus,
                         started : {"never", "fresh", "old"}]
      BY <1>0, <2>2 DEF Started, TypeOK, CampaignStatus
    <3>5. QED
      BY <1>0, <1>6, <3>2, <3>3, <3>4 DEF Claim, TypeInv, TypeOK, EventKnown
  <2>3. QED
    BY <1>6, <2>1, <2>2 DEF Claim
<1>7. ASSUME NEW d \in Dispatcher, Reload(d) PROVE TypeInv'
  <2>1. dispatcher[d].batch \cap WithStatus({"dispatching"}) \in SUBSET Recipient
    BY DEF WithStatus
  <2>2. dispatcher' \in [Dispatcher -> DispatcherState]
    BY <1>0, <1>7, <2>1, DispatcherType, DispatcherValues, Constants
       DEF Reload, DispatcherPC
  <2>3. queue' \in [Lane \X {1, 2} -> Nat]
    <3>1. queue' = queue \/ Enqueue("reconcile")
      BY <1>7 DEF Reload
    <3>2. QED
      BY <1>0, <3>1, QueueType, Constants DEF TypeOK
  <2>4. forgotten' \in BOOLEAN
    BY <1>0, <1>7 DEF Reload, TypeOK
  <2>5. QED
    BY <1>0, <1>7, <2>2, <2>3, <2>4 DEF Reload, TypeInv, TypeOK, EventKnown
<1>8. ASSUME NEW d \in Dispatcher, Check(d) PROVE TypeInv'
  <2>1. dispatcher[d].batch \in SUBSET Recipient
    BY <1>0, DispatcherValues DEF DispatcherState
  <2>2. dispatcher' \in [Dispatcher -> DispatcherState]
    BY <1>0, <1>8, <2>1, DispatcherType, DispatcherValues DEF Check, DispatcherPC
  <2>3. QED
    BY <1>0, <1>8, <2>2 DEF Check, TypeInv, TypeOK, EventKnown
<1>9. ASSUME NEW d \in Dispatcher, Send(d) PROVE TypeInv'
  <2>1. dispatcher' \in [Dispatcher -> DispatcherState]
    BY <1>0, <1>9, DispatcherType, DispatcherValues DEF Send, DispatcherPC
  <2>2. sent' \in [Recipient -> Nat] /\ late' \in [Dispatcher -> Nat]
    BY <1>0, <1>9 DEF Send, TypeOK
  <2>3. QED
    BY <1>0, <1>9, <2>1, <2>2 DEF Send, TypeInv, TypeOK, EventKnown
<1>10. ASSUME NEW d \in Dispatcher, Record(d) PROVE TypeInv'
  <2>1. dispatcher' \in [Dispatcher -> DispatcherState]
    BY <1>0, <1>10, DispatcherType, DispatcherValues DEF Record
  <2>2. SendOutcome(d) \in RecipientStatus
    BY DEF SendOutcome, RecipientStatus
  <2>3. recipient' \in [Recipient -> Row]
    BY <1>0, <1>10, <2>2, MarkedType DEF Record
  <2>4. QED
    BY <1>0, <1>10, <2>1, <2>3 DEF Record, TypeInv, TypeOK, EventKnown
<1>11. ASSUME NEW d \in Dispatcher, WrapUp(d) PROVE TypeInv'
  <2>1. dispatcher' \in [Dispatcher -> DispatcherState]
    BY <1>0, <1>11, DispatcherType, DispatcherValues, Constants
       DEF WrapUp, DispatcherPC
  <2>2. queue' \in [Lane \X {1, 2} -> Nat]
    <3>1. queue' = queue \/ Enqueue("reconcile")
      BY <1>11 DEF WrapUp
    <3>2. QED
      BY <1>0, <3>1, QueueType, Constants DEF TypeOK
  <2>3. QED
    BY <1>0, <1>11, <2>1, <2>2 DEF WrapUp, TypeInv, TypeOK, EventKnown
<1>12. ASSUME NEW d \in Dispatcher, DispatchPauses(d) PROVE TypeInv'
  <2>1. dispatcher' \in [Dispatcher -> DispatcherState]
    BY <1>0, <1>12, DispatcherType, Constants DEF DispatchPauses
  <2>2. queue' \in [Lane \X {1, 2} -> Nat]
    BY <1>0, <1>12, QueueType, Constants DEF DispatchPauses
  <2>3. QED
    BY <1>0, <1>12, <2>1, <2>2
       DEF DispatchPauses, SetStatus, CampaignStatus, TypeInv, TypeOK, EventKnown
<1>13. ASSUME NEW d \in Dispatcher, DispatchEnds(d) PROVE TypeInv'
  <2>1. dispatcher' \in [Dispatcher -> DispatcherState]
    BY <1>0, <1>13, DispatcherType, Constants DEF DispatchEnds
  <2>2. queue' \in [Lane \X {1, 2} -> Nat]
    BY <1>0, <1>13, QueueType, Constants DEF DispatchEnds
  <2>3. QED
    BY <1>0, <1>13, <2>1, <2>2 DEF DispatchEnds, TypeInv, TypeOK, EventKnown
<1>14. ASSUME NEW d \in Dispatcher, DispatcherDies(d) PROVE TypeInv'
  <2>1. dispatcher' \in [Dispatcher -> DispatcherState]
    BY <1>0, <1>14, DispatcherType, Constants DEF DispatcherDies
  <2>2. dispatcher[d].try \in {1, 2}
    BY <1>0, DispatcherValues DEF DispatcherState
  <2>3. queue' \in [Lane \X {1, 2} -> Nat] /\ forgotten' \in BOOLEAN
    <3>1. CASE Lost
      BY <1>0, <3>1 DEF Lost, TypeOK
    <3>2. CASE Redelivered("dispatch", dispatcher[d].try)
      BY <1>0, <2>2, <3>2, QueueType, Constants
    <3>3. QED
      BY <1>14, <3>1, <3>2 DEF DispatcherDies
  <2>4. QED
    BY <1>0, <1>14, <2>1, <2>3 DEF DispatcherDies, TypeInv, TypeOK, EventKnown
<1>15. ASSUME NEW try \in {1, 2}, TakeReconcile(try) PROVE TypeInv'
  <2>1. queue' \in [Lane \X {1, 2} -> Nat]
    BY <1>0, <1>15, QueueType, Constants DEF TakeReconcile
  <2>2. reconciler' \in ReconcilerState
    BY <1>15, Constants, Counted DEF TakeReconcile, ReconcilerState
  <2>3. QED
    BY <1>0, <1>15, <2>1, <2>2 DEF TakeReconcile, TypeInv, TypeOK, EventKnown
<1>16. CASE Count
  <2>1. queue' \in [Lane \X {1, 2} -> Nat]
    BY <1>0, <1>16, QueueType, Constants DEF Count, TypeOK
  <2>2. reconciler' \in ReconcilerState
    BY <1>0, <1>16, Constants DEF Count, Reconciles, TypeOK, ReconcilerState
  <2>3. QED
    BY <1>0, <1>16, <2>1, <2>2 DEF Count, TypeInv, TypeOK, EventKnown
<1>17. CASE Defer
  <2>1. recipient' \in [Recipient -> Row]
    BY <1>0, <1>17, MarkedType DEF Defer, RecipientStatus
  <2>2. reconciler' \in ReconcilerState
    BY <1>0, <1>17 DEF Defer, Reconciles, TypeOK, ReconcilerState
  <2>3. QED
    BY <1>0, <1>17, <2>1, <2>2 DEF Defer, TypeInv, TypeOK, EventKnown
<1>18. CASE Total
  <2>1. Cardinality(WithStatus({"delivered", "bounced", "deferred", "failed"}))
          \in 0..Reserved
    BY Counted DEF WithStatus
  <2>2. reconciler' \in ReconcilerState
    BY <1>0, <1>18, <2>1 DEF Total, TypeOK, ReconcilerState
  <2>3. QED
    BY <1>0, <1>18, <2>2 DEF Total, TypeInv, TypeOK, EventKnown
<1>19. CASE Complete
  <2>1. reconciler' \in ReconcilerState
    BY <1>0, <1>19 DEF Complete, Reconciles, TypeOK, ReconcilerState
  <2>2. campaign' \in [status : CampaignStatus,
                       started : {"never", "fresh", "old"}]
    BY <1>0, <1>19 DEF Complete, SetStatus, CampaignStatus, TypeOK
  <2>3. QED
    BY <1>0, <1>19, <2>1, <2>2 DEF Complete, TypeInv, TypeOK, EventKnown
<1>20. CASE SettleConsume \/ SettleRelease
  <2>1. reconciler.used \in 0..Reserved
    BY <1>0 DEF TypeOK, ReconcilerState
  <2>2. Settlement(reconciler.used).consume \in NoEntry..Reserved
        /\ Settlement(reconciler.used).release \in NoEntry..Reserved
    BY <2>1, SettlementType
  <2>3. ledger' \in [consume : NoEntry..Reserved, release : NoEntry..Reserved]
    BY <1>0, <1>20, <2>2 DEF SettleConsume, SettleRelease, TypeOK
  <2>4. reconciler' \in ReconcilerState
    BY <1>0, <1>20, Constants
       DEF SettleConsume, SettleRelease, Reconciles, TypeOK, ReconcilerState
  <2>5. QED
    BY <1>0, <1>20, <2>3, <2>4
       DEF SettleConsume, SettleRelease, TypeInv, TypeOK, EventKnown
<1>21. CASE ReconcilerDies
  <2>1. queue' \in [Lane \X {1, 2} -> Nat] /\ forgotten' \in BOOLEAN
    <3>1. CASE Lost
      BY <1>0, <3>1 DEF Lost, TypeOK
    <3>2. CASE Redelivered("reconcile", 1)
      BY <1>0, <3>2, QueueType, Constants
    <3>3. QED
      BY <1>21, <3>1, <3>2 DEF ReconcilerDies
  <2>2. QED
    BY <1>0, <1>21, <2>1, Constants
       DEF ReconcilerDies, TypeInv, TypeOK, EventKnown
<1>22. ASSUME NEW r \in Recipient, NEW kind \in EventKind, Reported(r, kind)
       PROVE TypeInv'
  <2>1. PICK n \in 1..(1 + MaxRetries) : Ingest(r, kind, n)
    BY <1>22 DEF Reported
  <2>2. n \in Nat
    BY SeedSendAssumption
  <2>3. events' \subseteq Recipient \X EventKind \X Nat
    BY <1>0, <2>1, <2>2 DEF Ingest, TypeOK
  <2>4. recipient[r].status \in RecipientStatus
    BY <1>0 DEF TypeOK, Row
  <2>5. ingestor' \in IngestorState /\ EventKnown'
    BY <2>1, <2>4 DEF Ingest, IngestorState, EventKnown
  <2>6. QED
    BY <1>0, <2>1, <2>3, <2>5 DEF Ingest, TypeInv, TypeOK
<1>23. CASE Apply
  <2>1. ingestor.kind \in RecipientStatus /\ ingestor.kind \in EventKind
    BY <1>0, <1>23, SeedSendAssumption DEF Apply, EventKnown, RecipientStatus
  <2>2. recipient' \in [Recipient -> Row]
    BY <1>0, <1>23, <2>1, MarkedType DEF Apply, TypeOK
  <2>3. ingestor' \in IngestorState /\ EventKnown'
    BY <1>0, <1>23, <2>1 DEF Apply, IngestorState, EventKnown, TypeOK
  <2>4. QED
    BY <1>0, <1>23, <2>2, <2>3 DEF Apply, TypeInv, TypeOK
<1>24. CASE Guard
  <2>1. ingestor' \in IngestorState /\ EventKnown'
    BY <1>0, <1>24, Constants
       DEF Guard, IngestorState, EventKnown, TypeOK, IdleIngestor
  <2>2. QED
    BY <1>0, <1>24, <2>1 DEF Guard, TypeInv, TypeOK
<1>25. CASE IngestPauses
  BY <1>0, <1>25, Constants
     DEF IngestPauses, SetStatus, CampaignStatus, IdleIngestor, TypeInv, TypeOK,
     EventKnown
<1>26. CASE IngestorDies
  BY <1>0, <1>26, Constants
     DEF IngestorDies, IdleIngestor, TypeInv, TypeOK, EventKnown
<1>27. CASE PauseRead \/ CancelRead \/ ResumeRead
  <2>1. PICK pc \in {"pause", "cancel", "resume"} : Click(pc)
    BY <1>27 DEF PauseRead, CancelRead, ResumeRead
  <2>2. campaign.status \in CampaignStatus
    BY <1>0 DEF TypeOK
  <2>3. admin' \in AdminState /\ clicks' \in Nat
    BY <1>0, <2>1, <2>2 DEF Click, AdminState, TypeOK
  <2>4. QED
    BY <1>0, <2>1, <2>3 DEF Click, TypeInv, TypeOK, EventKnown
<1>28. CASE PauseWrite
  BY <1>0, <1>28, Constants
     DEF PauseWrite, SetStatus, CampaignStatus, TypeInv, TypeOK, EventKnown
<1>29. CASE CancelWrite
  BY <1>0, <1>29, Constants, CancelsType
     DEF CancelWrite, TypeInv, TypeOK, EventKnown
<1>30. CASE ResumeWrite \/ RetryRequeue
  <2>1. admin' \in AdminState
    BY <1>0, <1>30 DEF ResumeWrite, RetryRequeue, AdminState, TypeOK
  <2>2. campaign' \in [status : CampaignStatus,
                       started : {"never", "fresh", "old"}]
    BY <1>0, <1>30 DEF ResumeWrite, RetryRequeue, SetStatus, CampaignStatus, TypeOK
  <2>3. QED
    BY <1>0, <1>30, <2>1, <2>2
       DEF ResumeWrite, RetryRequeue, TypeInv, TypeOK, EventKnown
<1>31. CASE RetryRead
  <2>1. campaign.status \in CampaignStatus
    BY <1>0 DEF TypeOK
  <2>2. admin' \in AdminState
    BY <1>31, <2>1 DEF RetryRead, AdminState, WithStatus
  <2>3. QED
    BY <1>0, <1>31, <2>2 DEF RetryRead, TypeInv, TypeOK, EventKnown
<1>32. CASE RetryReset
  <2>1. recipient' \in [Recipient -> Row]
    BY <1>0, <1>32, MarkedType DEF RetryReset, RecipientStatus
  <2>2. admin' \in AdminState
    BY <1>0, <1>32 DEF RetryReset, AdminState, TypeOK
  <2>3. QED
    BY <1>0, <1>32, <2>1, <2>2 DEF RetryReset, TypeInv, TypeOK, EventKnown
<1>33. CASE AdminDispatches
  <2>1. queue' \in [Lane \X {1, 2} -> Nat]
    BY <1>0, <1>33, QueueType, Constants DEF AdminDispatches
  <2>2. QED
    BY <1>0, <1>33, <2>1, Constants DEF AdminDispatches, TypeInv, TypeOK, EventKnown
<1>34. CASE AdminDies
  BY <1>0, <1>34, Constants DEF AdminDies, TypeInv, TypeOK, EventKnown
<1>35. CASE UNCHANGED vars
  BY <1>0, <1>35 DEF vars, TypeInv, TypeOK, EventKnown
<1>36. QED
  BY <1>1, <1>2, <1>3, <1>4, <1>5, <1>6, <1>7, <1>8, <1>9, <1>10, <1>11, <1>12,
     <1>13, <1>14, <1>15, <1>16, <1>17, <1>18, <1>19, <1>20, <1>21, <1>22, <1>23,
     <1>24, <1>25, <1>26, <1>27, <1>28, <1>29, <1>30, <1>31, <1>32, <1>33, <1>34,
     <1>35
     DEF Next, DispatchSteps, ReconcileSteps, IngestSteps, AdminSteps

\* Every reachable state of a campaign has its type, whatever the numbers of
\* recipients and processes (the SG6 tables and jobs).
THEOREM TypeCorrect == Spec => []TypeOK
<1>1. Spec => []TypeInv
  BY InitTypeInv, TypeOKStep, PTL DEF Spec
<1>2. TypeInv => TypeOK
  BY DEF TypeInv
<1>3. QED
  BY <1>1, <1>2, PTL

-----------------------------------------------------------------------------
(* Messages.  A claim entitles one process to one message to the recipient; *)
(* claims are counted by attempts; and a claim needs a recipient that is    *)
(* pending, which only the start and the retries make it.                   *)

\* The recipients a process may still send to.
ToMail(d) ==
  IF dispatcher[d].pc \in {"reload", "check", "send"}
  THEN dispatcher[d].batch
  ELSE IF dispatcher[d].pc \in {"accepted", "threw"}
       THEN dispatcher[d].batch \ {dispatcher[d].mail}
       ELSE {}

Holders(r) == {d \in Dispatcher : r \in ToMail(d)}

MailOfBatch ==
  \A d \in Dispatcher :
    /\ dispatcher[d].pc = "claim" => dispatcher[d].batch = {}
    /\ dispatcher[d].pc \in {"send", "accepted", "threw"} =>
         dispatcher[d].mail \in dispatcher[d].batch

ClaimPerMail ==
  \A r \in Recipient :
    sent[r] + Cardinality(Holders(r)) <= recipient[r].attempts

Pending(r) == IF recipient[r].status = "pending" THEN 1 ELSE 0
Resetting(r) == IF admin.pc = "reset" /\ r \in admin.ids THEN 1 ELSE 0

RetryPerClaim ==
  \A r \in Recipient :
    recipient[r].attempts + Pending(r) + Resetting(r) <= 1 + retries

MailInv == MailOfBatch /\ ClaimPerMail /\ RetryPerClaim

LEMMA MarkedValues ==
  ASSUME TypeOK, NEW ids, NEW s
  PROVE  \A r \in Recipient :
           /\ Marked(ids, s)[r].attempts = recipient[r].attempts
           /\ Marked(ids, s)[r].status = IF r \in ids THEN s
                                         ELSE recipient[r].status
BY DEF TypeOK, Marked, Row

LEMMA HoldersCounted ==
  ASSUME TypeOK, NEW r
  PROVE  IsFiniteSet(Holders(r)) /\ Cardinality(Holders(r)) \in Nat
BY FS_Subset, FS_CardinalityType, SeedSendAssumption DEF Holders

\* A process that gives up some of its batch only lowers the counts.
LEMMA FewerHolders ==
  ASSUME TypeOK, \A d \in Dispatcher : ToMail(d)' \subseteq ToMail(d)
  PROVE  \A r : /\ Cardinality(Holders(r))' \in Nat
                /\ Cardinality(Holders(r))' <= Cardinality(Holders(r))
<1> SUFFICES ASSUME NEW r
             PROVE  /\ Cardinality(Holders(r))' \in Nat
                    /\ Cardinality(Holders(r))' <= Cardinality(Holders(r))
  OBVIOUS
<1>1. Holders(r)' \subseteq Holders(r)
  BY DEF Holders
<1>2. IsFiniteSet(Holders(r))
  BY HoldersCounted
<1>3. QED
  BY <1>1, <1>2, FS_Subset, FS_CardinalityType

LEMMA InitMailInv == Init => MailInv
<1> SUFFICES ASSUME Init PROVE MailInv
  OBVIOUS
<1>1. MailOfBatch
  BY DEF Init, MailOfBatch, IdleDispatcher
<1>2. ASSUME NEW r \in Recipient
      PROVE  sent[r] + Cardinality(Holders(r)) <= recipient[r].attempts
  <2>1. Holders(r) = {}
    BY DEF Init, Holders, ToMail, IdleDispatcher
  <2>2. QED
    BY <2>1, FS_EmptySet DEF Init
<1>3. RetryPerClaim
  BY DEF Init, RetryPerClaim, Pending, Resetting, IdleAdmin
<1>4. QED
  BY <1>1, <1>2, <1>3 DEF MailInv, ClaimPerMail

LEMMA RetryPerClaimStep ==
  TypeInv /\ RetryPerClaim /\ [Next]_vars => RetryPerClaim'
<1> SUFFICES ASSUME TypeInv, RetryPerClaim, [Next]_vars, NEW r \in Recipient
             PROVE  (recipient[r].attempts + Pending(r) + Resetting(r)
                       <= 1 + retries)'
  BY DEF RetryPerClaim
<1> USE DEF rows, jobs, requests, mails
<1>0. /\ TypeOK /\ EventKnown
      /\ recipient[r].attempts \in Nat /\ retries \in Nat
      /\ recipient[r].status \in RecipientStatus
      /\ recipient[r].attempts + Pending(r) + Resetting(r) <= 1 + retries
  BY DEF TypeInv, TypeOK, Row, RetryPerClaim
<1> USE DEF Pending, Resetting
<1>1. CASE UNCHANGED <<recipient, admin, retries>>
  BY <1>0, <1>1
<1>2. CASE Cancels /\ UNCHANGED retries
           /\ (UNCHANGED admin \/ admin' = IdleAdmin)
  <2>1. recipient'[r].attempts = recipient[r].attempts
        /\ recipient'[r].status # "pending"
    BY <1>0, <1>2, CancelledType DEF Cancels, Unfinished
  <2>2. QED
    BY <1>0, <1>2, <2>1 DEF IdleAdmin
<1>3. ASSUME NEW d \in Dispatcher, Claim(d)
      PROVE  (recipient[r].attempts + Pending(r) + Resetting(r) <= 1 + retries)'
  <2>1. CASE UNCHANGED recipient
    BY <1>0, <1>3, <2>1 DEF Claim
  <2>2. ASSUME NEW batch \in Batches(WithStatus({"pending"})),
               recipient' = [q \in Recipient |->
                               IF q \in batch
                               THEN [status |-> "dispatching",
                                     attempts |-> recipient[q].attempts + 1]
                               ELSE recipient[q]]
        PROVE  (recipient[r].attempts + Pending(r) + Resetting(r)
                  <= 1 + retries)'
    <3>1. r \in batch => recipient[r].status = "pending"
      BY DEF Batches, WithStatus
    <3>2. QED
      BY <1>0, <1>3, <2>2, <3>1 DEF Claim
  <2>3. QED
    BY <1>3, <2>1, <2>2 DEF Claim
<1>4. ASSUME NEW ids, NEW s, s # "pending", recipient' = Marked(ids, s),
             UNCHANGED <<admin, retries>>
      PROVE  (recipient[r].attempts + Pending(r) + Resetting(r) <= 1 + retries)'
  BY <1>0, <1>4, MarkedValues
<1>5. CASE UNCHANGED <<recipient, retries>> /\ admin'.pc # "reset"
  BY <1>0, <1>5
<1>6. CASE RetryRead
  BY <1>0, <1>6 DEF RetryRead
<1>7. CASE RetryReset
  BY <1>0, <1>7, MarkedValues DEF RetryReset, TypeOK, AdminState
<1>8. QED
  <2>1. CASE RevokeConsent
    BY <1>1, <1>2, <2>1 DEF RevokeConsent
  <2>2. ASSUME NEW d \in Dispatcher, DispatchSteps(d) \/ DispatcherDies(d)
        PROVE  (recipient[r].attempts + Pending(r) + Resetting(r)
                  <= 1 + retries)'
    <3>1. CASE SafetyCancel(d)
      BY <1>2, <3>1 DEF SafetyCancel
    <3>2. CASE Record(d)
      <4>1. SendOutcome(d) # "pending"
        BY DEF SendOutcome
      <4>2. QED
        BY <1>4, <3>2, <4>1 DEF Record
    <3>3. CASE Claim(d)
      BY <1>3, <3>3
    <3>4. QED
      BY <1>1, <2>2, <3>1, <3>2, <3>3
         DEF DispatchSteps, DispatchStarts, Reload, Check, Send, WrapUp,
         DispatchPauses, DispatchEnds, DispatcherDies
  <2>3. CASE ReconcileSteps \/ ReconcilerDies
    <3>1. CASE Defer
      BY <1>4, <3>1 DEF Defer
    <3>2. QED
      BY <1>1, <2>3, <3>1
         DEF ReconcileSteps, TakeReconcile, Count, Total, Complete, SettleConsume,
         SettleRelease, ReconcilerDies
  <2>4. CASE IngestSteps
    <3>1. CASE Apply
      <4>1. ingestor.kind # "pending"
        BY <1>0, <3>1, SeedSendAssumption DEF Apply, EventKnown
      <4>2. QED
        BY <1>1, <1>4, <3>1, <4>1 DEF Apply
    <3>2. QED
      BY <1>1, <2>4, <3>1 DEF IngestSteps, Guard, IngestPauses
  <2>5. CASE AdminSteps \/ AdminDies
    <3>1. CASE CancelWrite
      BY <1>2, <3>1 DEF CancelWrite
    <3>2. CASE ResumeWrite \/ RetryRequeue
      BY <1>0, <1>5, <3>2 DEF ResumeWrite, RetryRequeue, TypeOK, AdminState
    <3>3. CASE PauseWrite \/ AdminDispatches \/ AdminDies
      BY <1>5, <3>3 DEF PauseWrite, AdminDispatches, AdminDies, IdleAdmin
    <3>4. QED
      BY <1>7, <2>5, <3>1, <3>2, <3>3 DEF AdminSteps
  <2>6. CASE PauseRead \/ CancelRead \/ ResumeRead
    BY <1>5, <2>6 DEF PauseRead, CancelRead, ResumeRead, Click
  <2>7. QED
    BY <1>1, <1>6, <2>1, <2>2, <2>3, <2>4, <2>5, <2>6
       DEF Next, CampaignAges, ConsentExpires, Reported, Ingest, IngestorDies, vars

\* A step of one process: the others keep what they hold.
LEMMA OneDispatches ==
  ASSUME TypeOK, NEW d \in Dispatcher, NEW s \in DispatcherState, Dispatches(d, s)
  PROVE  /\ dispatcher'[d] = s
         /\ \A e \in Dispatcher \ {d} : /\ dispatcher'[e] = dispatcher[e]
                                        /\ ToMail(e)' = ToMail(e)
BY DEF TypeOK, Dispatches, ToMail

LEMMA MailsKept ==
  ASSUME TypeInv, MailOfBatch, ClaimPerMail, UNCHANGED <<dispatcher, sent>>,
         \A r \in Recipient : recipient'[r].attempts = recipient[r].attempts
  PROVE  MailOfBatch' /\ ClaimPerMail'
BY DEF MailOfBatch, ClaimPerMail, Holders, ToMail

\* A process that moves on without sending.
LEMMA MailsDropped ==
  ASSUME TypeInv, MailOfBatch, ClaimPerMail, UNCHANGED sent,
         \A r \in Recipient : recipient'[r].attempts = recipient[r].attempts,
         NEW d \in Dispatcher, NEW s \in DispatcherState, Dispatches(d, s),
         ToMail(d)' \subseteq ToMail(d),
         s.pc = "claim" => s.batch = {},
         s.pc \in {"send", "accepted", "threw"} => s.mail \in s.batch
  PROVE  MailOfBatch' /\ ClaimPerMail'
<1>0. TypeOK
  BY DEF TypeInv
<1>1. MailOfBatch'
  BY <1>0, OneDispatches DEF MailOfBatch
<1>2. \A e \in Dispatcher : ToMail(e)' \subseteq ToMail(e)
  BY <1>0, OneDispatches
<1>3. ASSUME NEW r \in Recipient
      PROVE  (sent[r] + Cardinality(Holders(r)) <= recipient[r].attempts)'
  <2>1. /\ Cardinality(Holders(r)) \in Nat
        /\ Cardinality(Holders(r))' \in Nat
        /\ Cardinality(Holders(r))' <= Cardinality(Holders(r))
    BY <1>0, <1>2, FewerHolders, HoldersCounted
  <2>2. sent[r] \in Nat /\ recipient[r].attempts \in Nat
    BY <1>0 DEF TypeOK, Row
  <2>3. sent[r] + Cardinality(Holders(r)) <= recipient[r].attempts
    BY DEF ClaimPerMail
  <2>4. QED
    BY <2>1, <2>2, <2>3
<1>4. QED
  BY <1>1, <1>3 DEF ClaimPerMail

\* A claim adds the process to the holders of its batch, and an attempt to each.
LEMMA MailsClaimed ==
  ASSUME TypeInv, MailOfBatch, ClaimPerMail, NEW d \in Dispatcher,
         NEW batch \in SUBSET Recipient, dispatcher[d].pc = "claim",
         Dispatches(d, [At(d, "reload") EXCEPT !.batch = batch]),
         UNCHANGED sent,
         \A r \in Recipient : recipient'[r].attempts =
            IF r \in batch THEN recipient[r].attempts + 1 ELSE recipient[r].attempts
  PROVE  MailOfBatch' /\ ClaimPerMail'
<1> DEFINE s == [At(d, "reload") EXCEPT !.batch = batch]
<1>0. TypeOK
  BY DEF TypeInv
<1>1. s \in DispatcherState
  BY <1>0, DispatcherValues DEF DispatcherPC
<1>2. s.pc = "reload" /\ s.batch = batch
  BY <1>0, DispatcherValues DEF At, DispatcherState
<1>3. Dispatches(d, s)
  OBVIOUS
<1> HIDE DEF s
<1>4. /\ dispatcher'[d] = s
      /\ \A e \in Dispatcher \ {d} : /\ dispatcher'[e] = dispatcher[e]
                                     /\ ToMail(e)' = ToMail(e)
  BY <1>0, <1>1, <1>3, OneDispatches
<1>5. MailOfBatch'
  BY <1>2, <1>4 DEF MailOfBatch
<1>6. ToMail(d) = {} /\ ToMail(d)' = batch
  BY <1>2, <1>4 DEF ToMail
<1>7. ASSUME NEW r \in Recipient
      PROVE  (sent[r] + Cardinality(Holders(r)) <= recipient[r].attempts)'
  <2>1. /\ sent[r] \in Nat /\ recipient[r].attempts \in Nat
        /\ IsFiniteSet(Holders(r)) /\ Cardinality(Holders(r)) \in Nat
        /\ sent[r] + Cardinality(Holders(r)) <= recipient[r].attempts
    BY <1>0, HoldersCounted DEF TypeOK, Row, ClaimPerMail
  <2>2. CASE r \in batch
    <3>1. d \notin Holders(r) /\ Holders(r)' = Holders(r) \cup {d}
      BY <1>4, <1>6, <2>2 DEF Holders
    <3>2. Cardinality(Holders(r) \cup {d}) = Cardinality(Holders(r)) + 1
      BY <2>1, <3>1, FS_AddElement
    <3>3. Cardinality(Holders(r))' = Cardinality(Holders(r)) + 1
      BY <3>1, <3>2
    <3>4. QED
      BY <2>1, <2>2, <3>3
  <2>3. CASE r \notin batch
    <3>1. Holders(r)' = Holders(r)
      BY <1>4, <1>6, <2>3 DEF Holders
    <3>2. QED
      BY <2>1, <2>3, <3>1
  <2>4. QED
    BY <2>2, <2>3
<1>8. QED
  BY <1>5, <1>7 DEF ClaimPerMail

\* A message uses the claim up.
LEMMA MailSent ==
  ASSUME TypeInv, MailOfBatch, ClaimPerMail, NEW d \in Dispatcher,
         NEW pc \in {"accepted", "threw"}, dispatcher[d].pc = "send",
         Dispatches(d, At(d, pc)), UNCHANGED recipient,
         sent' = [sent EXCEPT ![dispatcher[d].mail] = @ + 1]
  PROVE  MailOfBatch' /\ ClaimPerMail'
<1> DEFINE s == At(d, pc)
           m == dispatcher[d].mail
<1>0. TypeOK
  BY DEF TypeInv
<1>1. s \in DispatcherState
  BY <1>0, DispatcherValues DEF DispatcherPC
<1>2. s.pc = pc /\ s.batch = dispatcher[d].batch /\ s.mail = m
  BY <1>0, DispatcherValues DEF At, DispatcherState
<1>3. Dispatches(d, s)
  OBVIOUS
<1> HIDE DEF s
<1>4. /\ dispatcher'[d] = s
      /\ \A e \in Dispatcher \ {d} : /\ dispatcher'[e] = dispatcher[e]
                                     /\ ToMail(e)' = ToMail(e)
  BY <1>0, <1>1, <1>3, OneDispatches
<1>5. m \in dispatcher[d].batch
  BY DEF MailOfBatch
<1>6. MailOfBatch'
  BY <1>2, <1>4, <1>5 DEF MailOfBatch
<1>7. ToMail(d) = dispatcher[d].batch /\ ToMail(d)' = dispatcher[d].batch \ {m}
  BY <1>2, <1>4 DEF ToMail
<1>8. ASSUME NEW r \in Recipient
      PROVE  (sent[r] + Cardinality(Holders(r)) <= recipient[r].attempts)'
  <2>1. /\ sent[r] \in Nat /\ recipient[r].attempts \in Nat
        /\ IsFiniteSet(Holders(r)) /\ Cardinality(Holders(r)) \in Nat
        /\ sent[r] + Cardinality(Holders(r)) <= recipient[r].attempts
    BY <1>0, HoldersCounted DEF TypeOK, Row, ClaimPerMail
  <2>2. CASE r = m
    <3>1. d \in Holders(r) /\ Holders(r)' = Holders(r) \ {d}
      BY <1>4, <1>5, <1>7, <2>2 DEF Holders
    <3>2. Cardinality(Holders(r) \ {d}) = Cardinality(Holders(r)) - 1
      BY <2>1, <3>1, FS_RemoveElement
    <3>3. Cardinality(Holders(r))' = Cardinality(Holders(r)) - 1
      BY <3>1, <3>2
    <3>4. sent'[r] = sent[r] + 1
      BY <1>0, <2>2 DEF TypeOK
    <3>5. QED
      BY <2>1, <3>3, <3>4
  <2>3. CASE r # m
    <3>1. Holders(r)' = Holders(r)
      BY <1>4, <1>7, <2>3 DEF Holders
    <3>2. sent'[r] = sent[r]
      BY <1>0, <2>3 DEF TypeOK
    <3>3. QED
      BY <2>1, <3>1, <3>2
  <2>4. QED
    BY <2>2, <2>3
<1>9. QED
  BY <1>6, <1>8 DEF ClaimPerMail

\* A process whose job ends.
LEMMA MailsIdle ==
  ASSUME TypeInv, MailOfBatch, ClaimPerMail, UNCHANGED sent,
         \A r \in Recipient : recipient'[r].attempts = recipient[r].attempts,
         NEW d \in Dispatcher, Dispatches(d, IdleDispatcher)
  PROVE  MailOfBatch' /\ ClaimPerMail'
<1>1. ToMail(d)' = {}
  BY OneDispatches, Constants DEF TypeInv, ToMail, IdleDispatcher
<1>2. QED
  BY <1>1, MailsDropped, Constants DEF IdleDispatcher

LEMMA ClaimPerMailDispatch ==
  ASSUME TypeInv, MailOfBatch, ClaimPerMail, NEW d \in Dispatcher,
         DispatchSteps(d) \/ DispatcherDies(d)
  PROVE  MailOfBatch' /\ ClaimPerMail'
<1> USE DEF rows, jobs, requests, mails
<1>0. /\ TypeOK
      /\ dispatcher[d] \in DispatcherState
      /\ \A pc \in DispatcherPC :
           At(d, pc) \in DispatcherState /\ At(d, pc).pc = pc
           /\ At(d, pc).batch = dispatcher[d].batch
           /\ At(d, pc).mail = dispatcher[d].mail
  BY DispatcherValues DEF TypeInv, At, DispatcherState
<1>1. ASSUME NEW try \in {1, 2}, DispatchStarts(d, try)
      PROVE  MailOfBatch' /\ ClaimPerMail'
  <2>1. CASE Dispatches(d, IdleDispatcher)
    BY <1>1, <2>1, MailsIdle DEF DispatchStarts
  <2>2. CASE ~(consent = "ended" /\ campaign.status \in Ended)
    <3> DEFINE s == [IdleDispatcher EXCEPT
                       !.pc = IF consent = "ended" THEN "cancel" ELSE "claim",
                       !.try = try]
    <3>1. s \in DispatcherState /\ s.batch = {} /\ s.pc \in {"cancel", "claim"}
      BY DEF IdleDispatcher, DispatcherState, DispatcherPC
    <3>2. Dispatches(d, s)
      BY <1>1, <2>2 DEF DispatchStarts
    <3> HIDE DEF s
    <3>3. ToMail(d)' = {}
      BY <1>0, <3>1, <3>2, OneDispatches DEF ToMail
    <3>4. QED
      BY <1>1, <3>1, <3>2, <3>3, MailsDropped DEF DispatchStarts
  <2>3. QED
    BY <1>1, <2>1, <2>2 DEF DispatchStarts
<1>2. CASE SafetyCancel(d)
  <2>1. \A r \in Recipient : recipient'[r].attempts = recipient[r].attempts
    BY <1>0, <1>2, CancelledType DEF SafetyCancel, Cancels
  <2>2. QED
    BY <1>2, <2>1, MailsIdle DEF SafetyCancel
<1>3. CASE Claim(d)
  <2>1. CASE UNCHANGED recipient /\ Dispatches(d, At(d, "reload"))
    <3>1. ToMail(d)' = {}
      BY <1>0, <1>3, <2>1, OneDispatches DEF Claim, MailOfBatch, ToMail, DispatcherPC
    <3>2. QED
      BY <1>0, <1>3, <2>1, <3>1, MailsDropped DEF Claim, DispatcherPC
  <2>2. ASSUME NEW batch \in Batches(WithStatus({"pending"})),
               recipient' = [r \in Recipient |->
                               IF r \in batch
                               THEN [status |-> "dispatching",
                                     attempts |-> recipient[r].attempts + 1]
                               ELSE recipient[r]],
               Dispatches(d, [At(d, "reload") EXCEPT !.batch = batch])
        PROVE  MailOfBatch' /\ ClaimPerMail'
    <3>1. batch \in SUBSET Recipient
      BY DEF Batches, WithStatus
    <3>2. \A r \in Recipient :
            recipient'[r].attempts = IF r \in batch THEN recipient[r].attempts + 1
                                     ELSE recipient[r].attempts
      BY <2>2
    <3>3. UNCHANGED sent /\ dispatcher[d].pc = "claim"
      BY <1>3 DEF Claim
    <3>4. QED
      BY <2>2, <3>1, <3>2, <3>3, MailsClaimed
  <2>3. QED
    BY <1>3, <2>1, <2>2 DEF Claim
<1>4. CASE Reload(d)
  <2>1. CASE Dispatches(d, IdleDispatcher)
    BY <1>4, <2>1, MailsIdle DEF Reload
  <2>2. CASE Dispatches(d, At(d, "cancel"))
    <3>1. ToMail(d)' = {}
      BY <1>0, <2>2, OneDispatches DEF ToMail, DispatcherPC
    <3>2. QED
      BY <1>0, <1>4, <2>2, <3>1, MailsDropped DEF Reload, DispatcherPC
  <2>3. ASSUME NEW live, live = dispatcher[d].batch \cap WithStatus({"dispatching"}),
               Dispatches(d, [At(d, "check") EXCEPT !.batch = live])
        PROVE  MailOfBatch' /\ ClaimPerMail'
    <3> DEFINE s == [At(d, "check") EXCEPT !.batch = live]
    <3>1. s \in DispatcherState /\ s.pc = "check" /\ s.batch = live
      BY <1>0, <2>3 DEF DispatcherState, DispatcherPC, WithStatus
    <3>2. Dispatches(d, s)
      BY <2>3
    <3> HIDE DEF s
    <3>3. ToMail(d)' \subseteq ToMail(d)
      BY <1>0, <1>4, <2>3, <3>1, <3>2, OneDispatches DEF ToMail, Reload
    <3>4. QED
      BY <1>4, <3>1, <3>2, <3>3, MailsDropped DEF Reload
  <2>4. QED
    BY <1>4, <2>1, <2>2, <2>3 DEF Reload, AbandonedAt
<1>5. CASE Check(d)
  <2>1. CASE Dispatches(d, IdleDispatcher)
    BY <1>5, <2>1, MailsIdle DEF Check
  <2>2. CASE Dispatches(d, At(d, "cancel"))
    <3>1. ToMail(d)' = {}
      BY <1>0, <2>2, OneDispatches DEF ToMail, DispatcherPC
    <3>2. QED
      BY <1>0, <1>5, <2>2, <3>1, MailsDropped DEF Check, DispatcherPC
  <2>3. ASSUME NEW r \in dispatcher[d].batch,
               Dispatches(d, [At(d, "send") EXCEPT !.mail = r])
        PROVE  MailOfBatch' /\ ClaimPerMail'
    <3> DEFINE s == [At(d, "send") EXCEPT !.mail = r]
    <3>1. /\ s \in DispatcherState /\ s.pc = "send"
          /\ s.batch = dispatcher[d].batch /\ s.mail = r
      BY <1>0 DEF DispatcherState, DispatcherPC
    <3>2. Dispatches(d, s)
      BY <2>3
    <3> HIDE DEF s
    <3>3. ToMail(d)' \subseteq ToMail(d)
      BY <1>0, <1>5, <3>1, <3>2, OneDispatches DEF ToMail, Check
    <3>4. QED
      BY <1>5, <3>1, <3>2, <3>3, MailsDropped DEF Check
  <2>4. QED
    BY <1>5, <2>1, <2>2, <2>3 DEF Check, AbandonedAt
<1>6. CASE Send(d)
  <2>1. CASE UNCHANGED mails
    <3>1. Dispatches(d, At(d, "accepted")) \/ Dispatches(d, At(d, "threw"))
      BY <1>6 DEF Send
    <3>2. ASSUME NEW pc \in {"accepted", "threw"}, Dispatches(d, At(d, pc))
          PROVE  MailOfBatch' /\ ClaimPerMail'
      <4>1. ToMail(d)' \subseteq ToMail(d)
        BY <1>0, <1>6, <3>2, OneDispatches DEF ToMail, Send, DispatcherPC
      <4>2. dispatcher[d].mail \in dispatcher[d].batch
        BY <1>6 DEF Send, MailOfBatch
      <4>3. /\ At(d, pc) \in DispatcherState /\ At(d, pc).pc = pc
            /\ At(d, pc).batch = dispatcher[d].batch
            /\ At(d, pc).mail = dispatcher[d].mail
        BY <1>0, <3>2 DEF DispatcherPC
      <4>4. UNCHANGED <<sent, recipient>>
        BY <1>6, <2>1 DEF Send
      <4>5. QED
        BY <3>2, <4>1, <4>2, <4>3, <4>4, MailsDropped
    <3>3. QED
      BY <3>1, <3>2
  <2>2. ASSUME NEW pc \in {"accepted", "threw"}, Dispatches(d, At(d, pc)),
               sent' = [sent EXCEPT ![dispatcher[d].mail] = @ + 1]
        PROVE  MailOfBatch' /\ ClaimPerMail'
    BY <1>6, <2>2, MailSent DEF Send
  <2>3. QED
    BY <1>6, <2>1, <2>2 DEF Send
<1>7. CASE Record(d)
  <2> DEFINE s == NextMail(d)
  <2>1. /\ s \in DispatcherState /\ s.pc \in {"wrapup", "check"}
        /\ s.batch = dispatcher[d].batch \ {dispatcher[d].mail}
    BY <1>0, DispatcherValues DEF NextMail, DispatcherState
  <2>2. Dispatches(d, s)
    BY <1>7 DEF Record
  <2> HIDE DEF s
  <2>3. ToMail(d)' \subseteq ToMail(d)
    BY <1>0, <1>7, <2>1, <2>2, OneDispatches DEF ToMail, Record
  <2>4. \A r \in Recipient : recipient'[r].attempts = recipient[r].attempts
    BY <1>0, <1>7, MarkedValues DEF Record
  <2>5. QED
    BY <1>7, <2>1, <2>2, <2>3, <2>4, MailsDropped DEF Record
<1>8. CASE WrapUp(d)
  <2>1. CASE Dispatches(d, IdleDispatcher)
    BY <1>8, <2>1, MailsIdle DEF WrapUp
  <2>2. ASSUME NEW pc \in {"pause", "next"}, Dispatches(d, At(d, pc))
        PROVE  MailOfBatch' /\ ClaimPerMail'
    <3>1. ToMail(d)' = {}
      BY <1>0, <2>2, OneDispatches DEF ToMail, DispatcherPC
    <3>2. QED
      BY <1>0, <1>8, <2>2, <3>1, MailsDropped DEF WrapUp, DispatcherPC
  <2>3. QED
    BY <1>8, <2>1, <2>2 DEF WrapUp
<1>9. CASE DispatchPauses(d) \/ DispatchEnds(d) \/ DispatcherDies(d)
  BY <1>9, MailsIdle DEF DispatchPauses, DispatchEnds, DispatcherDies
<1>10. QED
  BY <1>1, <1>2, <1>3, <1>4, <1>5, <1>6, <1>7, <1>8, <1>9 DEF DispatchSteps

LEMMA MailInvStep == TypeInv /\ MailInv /\ [Next]_vars => MailInv'
<1> SUFFICES ASSUME TypeInv, MailInv, [Next]_vars
             PROVE  MailOfBatch' /\ ClaimPerMail'
  BY RetryPerClaimStep DEF MailInv
<1> USE DEF rows, jobs, requests, mails, MailInv
<1>0. TypeOK
  BY DEF TypeInv
<1>1. ASSUME NEW d \in Dispatcher, DispatchSteps(d) \/ DispatcherDies(d)
      PROVE  MailOfBatch' /\ ClaimPerMail'
  BY <1>1, ClaimPerMailDispatch
<1>2. CASE UNCHANGED <<dispatcher, sent, recipient>>
  BY <1>2, MailsKept
<1>3. CASE UNCHANGED <<dispatcher, sent>> /\ Cancels
  BY <1>0, <1>3, MailsKept, CancelledType DEF Cancels
<1>4. ASSUME NEW ids, NEW s, recipient' = Marked(ids, s),
             UNCHANGED <<dispatcher, sent>>
      PROVE  MailOfBatch' /\ ClaimPerMail'
  BY <1>0, <1>4, MarkedValues, MailsKept
<1>5. CASE RevokeConsent
  BY <1>2, <1>3, <1>5 DEF RevokeConsent
<1>6. CASE ReconcileSteps \/ ReconcilerDies
  <2>1. CASE Defer
    BY <1>4, <2>1 DEF Defer
  <2>2. QED
    BY <1>2, <1>6, <2>1
       DEF ReconcileSteps, TakeReconcile, Count, Total, Complete, SettleConsume,
       SettleRelease, ReconcilerDies
<1>7. CASE IngestSteps
  BY <1>2, <1>4, <1>7 DEF IngestSteps, Apply, Guard, IngestPauses
<1>8. CASE AdminSteps \/ AdminDies
  <2>1. CASE CancelWrite
    BY <1>3, <2>1 DEF CancelWrite
  <2>2. CASE RetryReset
    BY <1>4, <2>2 DEF RetryReset
  <2>3. QED
    BY <1>2, <1>8, <2>1, <2>2
       DEF AdminSteps, AdminDies, PauseWrite, ResumeWrite, RetryRequeue,
       AdminDispatches
<1>9. QED
  BY <1>1, <1>2, <1>5, <1>6, <1>7, <1>8
     DEF Next, CampaignAges, ConsentExpires, Reported, Ingest, IngestorDies,
     PauseRead, CancelRead, ResumeRead, Click, RetryRead, vars

\* No recipient gets more messages than one and one per retry, although jobs run
\* twice, side by side, and die between a message and its record
\* (DispatchSeedSendCampaignJob).
THEOREM MailsAreBounded == Spec => []MailsBounded
<1>1. Spec => [](TypeInv /\ MailInv)
  BY InitTypeInv, TypeOKStep, InitMailInv, MailInvStep, PTL DEF Spec
<1>2. TypeInv /\ MailInv => MailsBounded
  <2> SUFFICES ASSUME TypeInv, MailInv, NEW r \in Recipient
               PROVE  sent[r] <= 1 + retries
    BY DEF MailsBounded
  <2>1. /\ TypeOK /\ Cardinality(Holders(r)) \in Nat
        /\ sent[r] + Cardinality(Holders(r)) <= recipient[r].attempts
        /\ recipient[r].attempts + Pending(r) + Resetting(r) <= 1 + retries
    BY HoldersCounted DEF TypeInv, MailInv, ClaimPerMail, RetryPerClaim
  <2>2. sent[r] \in Nat /\ recipient[r].attempts \in Nat /\ retries \in Nat
        /\ Pending(r) \in Nat /\ Resetting(r) \in Nat
    BY <2>1 DEF TypeOK, Row, Pending, Resetting
  <2>3. QED
    BY <2>1, <2>2
<1>3. QED
  BY <1>1, <1>2, PTL

-----------------------------------------------------------------------------
(* The consent.  A process that has sent a late message reads the consent    *)
(* again before it could send another.                                       *)

LateInv ==
  \A d \in Dispatcher :
    /\ late[d] \in {0, 1}
    /\ late[d] = 1 => consent = "ended" /\ dispatcher[d].pc # "send"

LEMMA LateInvStep == TypeInv /\ LateInv /\ [Next]_vars => LateInv'
<1> SUFFICES ASSUME TypeInv, LateInv, [Next]_vars PROVE LateInv'
  OBVIOUS
<1> USE DEF rows, jobs, requests, mails
<1>0. /\ TypeOK
      /\ \A d \in Dispatcher :
           /\ AbandonedAt(d).pc \in {"idle", "cancel"}
           /\ NextMail(d).pc \in {"wrapup", "check"}
           /\ \A pc \in DispatcherPC : At(d, pc).pc = pc
  <2>1. TypeOK
    BY DEF TypeInv
  <2>2. ASSUME NEW d \in Dispatcher
        PROVE  \A pc \in DispatcherPC : At(d, pc).pc = pc
    <3>1. dispatcher[d] \in DispatcherState
      BY <2>1, DispatcherValues
    <3>2. QED
      BY <3>1 DEF At, DispatcherState
  <2>3. ASSUME NEW d \in Dispatcher
        PROVE  AbandonedAt(d).pc \in {"idle", "cancel"}
    BY <2>2 DEF AbandonedAt, IdleDispatcher, DispatcherPC
  <2>4. ASSUME NEW d \in Dispatcher
        PROVE  NextMail(d).pc \in {"wrapup", "check"}
    <3>1. dispatcher[d] \in DispatcherState
      BY <2>1, DispatcherValues
    <3>2. QED
      BY <3>1 DEF NextMail, DispatcherState
  <2>5. QED
    BY <2>1, <2>2, <2>3, <2>4
<1>1. CASE UNCHANGED <<dispatcher, late>> /\ (consent' = consent \/ consent' = "ended")
  BY <1>1 DEF LateInv
<1>2. ASSUME NEW d \in Dispatcher, NEW s \in DispatcherState, Dispatches(d, s),
             s.pc # "send", UNCHANGED <<late, consent>>
      PROVE  LateInv'
  BY <1>0, <1>2, OneDispatches DEF LateInv
<1>3. ASSUME NEW d \in Dispatcher, DispatchSteps(d) \/ DispatcherDies(d)
      PROVE  LateInv'
  <2>1. CASE Check(d)
    <3>1. CASE consent = "ended"
      BY <1>0, <1>2, <2>1, <3>1, DispatcherValues DEF Check
    <3>2. ASSUME consent # "ended", NEW r \in dispatcher[d].batch,
                 Dispatches(d, [At(d, "send") EXCEPT !.mail = r])
          PROVE  LateInv'
      <4>1. late[d] = 0 /\ UNCHANGED <<late, consent>>
        BY <2>1, <3>2 DEF LateInv, Check
      <4>2. \A e \in Dispatcher \ {d} : dispatcher'[e] = dispatcher[e]
        BY <1>0, <3>2 DEF Dispatches, TypeOK
      <4>3. QED
        BY <4>1, <4>2 DEF LateInv
    <3>3. QED
      BY <2>1, <3>1, <3>2 DEF Check
  <2>2. CASE Send(d)
    <3>1. ASSUME NEW pc \in {"accepted", "threw"}, Dispatches(d, At(d, pc)),
                 late' = [late EXCEPT ![d] = IF consent = "ended" THEN @ + 1 ELSE @]
          PROVE  LateInv'
      <4>1. At(d, pc) \in DispatcherState /\ At(d, pc).pc # "send"
        BY <1>0, DispatcherValues DEF DispatcherPC
      <4>2. /\ dispatcher'[d].pc # "send"
            /\ \A e \in Dispatcher \ {d} : dispatcher'[e] = dispatcher[e]
        BY <1>0, <3>1, <4>1, OneDispatches
      <4>3. late[d] = 0 /\ UNCHANGED consent
        BY <2>2 DEF LateInv, Send
      <4>4. /\ late'[d] \in {0, 1} /\ (late'[d] = 1 => consent = "ended")
            /\ \A e \in Dispatcher \ {d} : late'[e] = late[e]
        BY <1>0, <3>1, <4>3 DEF TypeOK
      <4>5. QED
        BY <4>2, <4>3, <4>4 DEF LateInv
    <3>2. CASE UNCHANGED mails /\ Dispatches(d, At(d, "threw"))
      BY <1>0, <1>2, <2>2, <3>2, DispatcherValues DEF Send, DispatcherPC
    <3>3. QED
      BY <2>2, <3>1, <3>2 DEF Send
  <2>3. CASE Reload(d)
    <3>1. ASSUME NEW live, live = dispatcher[d].batch \cap WithStatus({"dispatching"})
          PROVE  /\ [At(d, "check") EXCEPT !.batch = live] \in DispatcherState
                 /\ [At(d, "check") EXCEPT !.batch = live].pc = "check"
      <4>1. At(d, "check") \in DispatcherState /\ live \in SUBSET Recipient
        BY <1>0, <3>1, DispatcherValues DEF DispatcherPC, WithStatus
      <4>2. At(d, "check").pc = "check"
        BY <1>0 DEF DispatcherPC
      <4>3. QED
        BY <4>1, <4>2 DEF DispatcherState
    <3>2. PICK s \in DispatcherState : Dispatches(d, s) /\ s.pc # "send"
      BY <1>0, <2>3, <3>1, DispatcherValues, Constants DEF Reload, IdleDispatcher
    <3>3. QED
      BY <1>2, <2>3, <3>2 DEF Reload
  <2>4. CASE Claim(d)
    <3>1. ASSUME NEW batch \in SUBSET Recipient
          PROVE  /\ [At(d, "reload") EXCEPT !.batch = batch] \in DispatcherState
                 /\ [At(d, "reload") EXCEPT !.batch = batch].pc = "reload"
      <4>1. At(d, "reload") \in DispatcherState /\ At(d, "reload").pc = "reload"
        BY <1>0, DispatcherValues DEF DispatcherPC
      <4>2. QED
        BY <4>1 DEF DispatcherState
    <3>2. \A batch \in Batches(WithStatus({"pending"})) : batch \in SUBSET Recipient
      BY DEF Batches, WithStatus
    <3>3. PICK s \in DispatcherState : Dispatches(d, s) /\ s.pc # "send"
      BY <1>0, <2>4, <3>1, <3>2, DispatcherValues DEF Claim, DispatcherPC
    <3>4. QED
      BY <1>2, <2>4, <3>3 DEF Claim
  <2>5. ASSUME NEW try \in {1, 2}, DispatchStarts(d, try) PROVE LateInv'
    <3>1. [IdleDispatcher EXCEPT
             !.pc = IF consent = "ended" THEN "cancel" ELSE "claim", !.try = try]
            \in DispatcherState
      BY Constants DEF DispatcherState, DispatcherPC
    <3>2. PICK s \in DispatcherState : Dispatches(d, s) /\ s.pc # "send"
      BY <2>5, <3>1, Constants DEF DispatchStarts, IdleDispatcher
    <3>3. QED
      BY <1>2, <2>5, <3>2 DEF DispatchStarts
  <2>6. CASE SafetyCancel(d) \/ DispatchPauses(d) \/ DispatchEnds(d)
             \/ DispatcherDies(d)
    <3>1. Dispatches(d, IdleDispatcher) /\ UNCHANGED <<late, consent>>
      BY <2>6 DEF SafetyCancel, DispatchPauses, DispatchEnds, DispatcherDies
    <3>2. QED
      BY <1>2, <3>1, Constants DEF IdleDispatcher
  <2>7. CASE Record(d) \/ WrapUp(d)
    <3>1. PICK s \in DispatcherState : Dispatches(d, s) /\ s.pc # "send"
      BY <1>0, <2>7, DispatcherValues, Constants
         DEF Record, WrapUp, DispatcherPC, IdleDispatcher
    <3>2. QED
      BY <1>2, <2>7, <3>1 DEF Record, WrapUp
  <2>8. QED
    BY <1>3, <2>1, <2>2, <2>3, <2>4, <2>5, <2>6, <2>7 DEF DispatchSteps
<1>4. CASE ReconcileSteps \/ ReconcilerDies
  BY <1>1, <1>4
     DEF ReconcileSteps, TakeReconcile, Count, Defer, Total, Complete,
     SettleConsume, SettleRelease, ReconcilerDies
<1>5. CASE IngestSteps \/ IngestorDies
  BY <1>1, <1>5 DEF IngestSteps, Apply, Guard, IngestPauses, IngestorDies
<1>6. CASE AdminSteps \/ AdminDies
  BY <1>1, <1>6
     DEF AdminSteps, AdminDies, PauseWrite, CancelWrite, ResumeWrite, RetryReset,
     RetryRequeue, AdminDispatches
<1>7. QED
  BY <1>1, <1>3, <1>4, <1>5, <1>6
     DEF Next, CampaignAges, ConsentExpires, RevokeConsent, Reported, Ingest,
     PauseRead, CancelRead, ResumeRead, Click, RetryRead, vars

\* After the consent has ended a process sends at most the message it had
\* checked the consent for (DispatchSeedSendCampaignJob, the loop).
THEOREM LateMailsAreBounded == Spec => []LateMailsBounded
<1>1. Init => LateInv
  BY DEF Init, LateInv
<1>2. Spec => [](TypeInv /\ LateInv)
  BY <1>1, InitTypeInv, TypeOKStep, LateInvStep, PTL DEF Spec
<1>3. LateInv => LateMailsBounded
  BY DEF LateInv, LateMailsBounded
<1>4. QED
  BY <1>2, <1>3, PTL

-----------------------------------------------------------------------------
(* Progress is never left to nobody.  A reconciliation counts only before it *)
(* has completed the campaign.                                               *)

Reconciling == reconciler.pc \in {"count", "defer", "total", "complete"}
QueuedJob == \E job \in Lane \X {1, 2} : queue[job] > 0
Dispatching == \E d \in Dispatcher : dispatcher[d].pc # "idle"

DrivenInv ==
  campaign.status \in Active /\ ~forgotten =>
    QueuedJob \/ Dispatching \/ Reconciling \/ admin.pc = "dispatch"

LEMMA EnqueuedJob ==
  ASSUME TypeOK, NEW job \in Lane \X {1, 2}, queue' = [queue EXCEPT ![job] = @ + 1]
  PROVE  QueuedJob'
<1>1. queue'[job] = queue[job] + 1 /\ queue[job] \in Nat
  BY DEF TypeOK
<1>2. QED
  BY <1>1 DEF QueuedJob

LEMMA Enqueued ==
  ASSUME TypeOK, NEW lane \in Lane, Enqueue(lane) \/ Redelivered(lane, 1)
  PROVE  QueuedJob'
<1>1. <<lane, 1>> \in Lane \X {1, 2} /\ <<lane, 2>> \in Lane \X {1, 2}
  OBVIOUS
<1>2. QED
  BY <1>1, EnqueuedJob DEF Enqueue, Redelivered

LEMMA DrivenInvStep == TypeInv /\ DrivenInv /\ [Next]_vars => DrivenInv'
<1> SUFFICES ASSUME TypeInv, DrivenInv, [Next]_vars,
                    campaign'.status \in Active, ~forgotten'
             PROVE  QueuedJob' \/ Dispatching' \/ Reconciling' \/ admin'.pc = "dispatch"
  BY DEF DrivenInv
<1> DEFINE Goal == QueuedJob' \/ Dispatching' \/ Reconciling' \/ admin'.pc = "dispatch"
<1> USE DEF rows, jobs, requests, mails
<1>0. /\ TypeOK
      /\ \A s : SetStatus(s) => campaign'.status = s
  BY DEF TypeInv, TypeOK, SetStatus
<1>1. CASE UNCHANGED <<campaign, forgotten, queue, dispatcher, reconciler, admin>>
  BY <1>1 DEF DrivenInv, QueuedJob, Dispatching, Reconciling
<1>2. ASSUME NEW d \in Dispatcher, NEW s \in DispatcherState, Dispatches(d, s),
             s.pc # "idle"
      PROVE  Goal
  BY <1>0, <1>2, OneDispatches DEF Dispatching
<1>3. CASE Cancels
  BY <1>0, <1>3 DEF Cancels, Active
<1>4. ASSUME NEW d \in Dispatcher, DispatchSteps(d) \/ DispatcherDies(d)
      PROVE  Goal
  <2>0. \A pc \in DispatcherPC : At(d, pc) \in DispatcherState /\ At(d, pc).pc = pc
    BY <1>0, DispatcherValues DEF At, DispatcherState
  <2>1. ASSUME NEW try \in {1, 2}, DispatchStarts(d, try) PROVE Goal
    <3>1. ~(consent = "ended" /\ campaign.status \in Ended)
      BY <2>1 DEF DispatchStarts, Active, Ended
    <3> DEFINE s == [IdleDispatcher EXCEPT
                       !.pc = IF consent = "ended" THEN "cancel" ELSE "claim",
                       !.try = try]
    <3>2. s \in DispatcherState /\ s.pc # "idle"
      BY DEF IdleDispatcher, DispatcherState, DispatcherPC
    <3>3. Dispatches(d, s)
      BY <2>1, <3>1 DEF DispatchStarts
    <3> HIDE DEF s
    <3>4. QED
      BY <1>2, <3>2, <3>3
  <2>2. CASE SafetyCancel(d)
    BY <1>3, <2>2 DEF SafetyCancel
  <2>3. CASE Claim(d)
    <3>1. \A batch \in Batches(WithStatus({"pending"})) : batch \in SUBSET Recipient
      BY DEF Batches, WithStatus
    <3>2. ASSUME NEW batch \in SUBSET Recipient
          PROVE  /\ [At(d, "reload") EXCEPT !.batch = batch] \in DispatcherState
                 /\ [At(d, "reload") EXCEPT !.batch = batch].pc = "reload"
      <4>1. At(d, "reload") \in DispatcherState /\ At(d, "reload").pc = "reload"
        BY <2>0 DEF DispatcherPC
      <4>2. QED
        BY <4>1 DEF DispatcherState
    <3>3. PICK s \in DispatcherState : Dispatches(d, s) /\ s.pc # "idle"
      BY <2>0, <2>3, <3>1, <3>2 DEF Claim, DispatcherPC
    <3>4. QED
      BY <1>2, <3>3
  <2>4. CASE Reload(d)
    <3> DEFINE live == dispatcher[d].batch \cap WithStatus({"dispatching"})
    <3>1. Enqueue("reconcile") \/ Dispatches(d, [At(d, "check") EXCEPT !.batch = live])
          \/ Dispatches(d, At(d, "cancel")) \/ campaign.status \in Ended
      BY <2>4 DEF Reload, AbandonedAt
    <3>2. UNCHANGED campaign
      BY <2>4 DEF Reload
    <3>3. /\ [At(d, "check") EXCEPT !.batch = live] \in DispatcherState
          /\ [At(d, "check") EXCEPT !.batch = live].pc # "idle"
      <4>1. At(d, "check") \in DispatcherState /\ At(d, "check").pc = "check"
            /\ live \in SUBSET Recipient
        BY <2>0 DEF DispatcherPC, WithStatus
      <4>2. QED
        BY <4>1 DEF DispatcherState
    <3>4. At(d, "cancel") \in DispatcherState /\ At(d, "cancel").pc # "idle"
      BY <2>0 DEF DispatcherPC
    <3> HIDE DEF live
    <3>5. QED
      BY <1>0, <1>2, <3>1, <3>2, <3>3, <3>4, Enqueued, Constants DEF Active, Ended
  <2>5. CASE Check(d)
    <3>1. Dispatches(d, At(d, "cancel")) \/ campaign.status \in Ended
          \/ \E r \in dispatcher[d].batch :
               Dispatches(d, [At(d, "send") EXCEPT !.mail = r])
      BY <2>5 DEF Check, AbandonedAt
    <3>2. UNCHANGED campaign
      BY <2>5 DEF Check
    <3>3. ASSUME NEW r \in dispatcher[d].batch
          PROVE  /\ [At(d, "send") EXCEPT !.mail = r] \in DispatcherState
                 /\ [At(d, "send") EXCEPT !.mail = r].pc # "idle"
      <4>1. /\ At(d, "send") \in DispatcherState /\ At(d, "send").pc = "send"
            /\ r \in Recipient
        BY <1>0, <2>0, DispatcherValues DEF DispatcherPC, DispatcherState
      <4>2. QED
        BY <4>1 DEF DispatcherState
    <3>4. At(d, "cancel") \in DispatcherState /\ At(d, "cancel").pc # "idle"
      BY <2>0 DEF DispatcherPC
    <3>5. QED
      BY <1>2, <3>1, <3>2, <3>3, <3>4 DEF Active, Ended
  <2>6. CASE Send(d)
    <3>1. Dispatches(d, At(d, "accepted")) \/ Dispatches(d, At(d, "threw"))
      BY <2>6 DEF Send
    <3>2. QED
      BY <1>2, <2>0, <3>1 DEF DispatcherPC
  <2>7. CASE Record(d)
    <3>1. NextMail(d) \in DispatcherState /\ NextMail(d).pc # "idle"
      BY <1>0, DispatcherValues DEF NextMail, DispatcherState
    <3>2. QED
      BY <1>2, <2>7, <3>1 DEF Record
  <2>8. CASE WrapUp(d)
    <3>1. Enqueue("reconcile") \/ Dispatches(d, At(d, "pause"))
          \/ Dispatches(d, At(d, "next"))
      BY <2>8 DEF WrapUp
    <3>2. QED
      BY <1>0, <1>2, <2>0, <3>1, Enqueued, Constants DEF DispatcherPC
  <2>9. CASE DispatchPauses(d) \/ DispatchEnds(d)
    <3>1. Enqueue("dispatch") \/ Enqueue("reconcile")
      BY <2>9 DEF DispatchPauses, DispatchEnds
    <3>2. QED
      BY <1>0, <3>1, Enqueued, Constants
  <2>10. CASE DispatcherDies(d)
    <3>1. Redelivered("dispatch", 1)
      BY <2>10 DEF DispatcherDies, Lost, Redelivered
    <3>2. QED
      BY <1>0, <3>1, Enqueued, Constants
  <2>11. QED
    BY <1>4, <2>1, <2>2, <2>3, <2>4, <2>5, <2>6, <2>7, <2>8, <2>9, <2>10
       DEF DispatchSteps
<1>5. CASE ReconcileSteps \/ ReconcilerDies
  <2>1. ASSUME NEW try \in {1, 2}, TakeReconcile(try) PROVE Goal
    BY <2>1 DEF TakeReconcile, Reconciling
  <2>2. CASE Count
    BY <1>0, <2>2, Enqueued, Constants
       DEF Count, Reconciles, Reconciling, TypeOK, ReconcilerState
  <2>3. CASE Defer \/ Total
    BY <1>0, <2>3 DEF Defer, Total, Reconciles, Reconciling, TypeOK, ReconcilerState
  <2>4. CASE Complete
    BY <1>0, <2>4 DEF Complete, Active
  <2>5. CASE SettleConsume \/ SettleRelease
    BY <2>5 DEF SettleConsume, SettleRelease, DrivenInv, QueuedJob, Dispatching,
       Reconciling
  <2>6. CASE ReconcilerDies
    <3>1. Redelivered("reconcile", 1)
      BY <2>6 DEF ReconcilerDies, Lost
    <3>2. QED
      BY <1>0, <3>1, Enqueued, Constants
  <2>7. QED
    BY <1>5, <2>1, <2>2, <2>3, <2>4, <2>5, <2>6 DEF ReconcileSteps
<1>6. CASE IngestSteps \/ IngestorDies
  <2>1. CASE IngestPauses
    BY <1>0, <2>1 DEF IngestPauses, Active
  <2>2. QED
    BY <1>1, <1>6, <2>1 DEF IngestSteps, Apply, Guard, IngestorDies
<1>7. CASE AdminSteps \/ AdminDies
  <2>1. CASE PauseWrite
    BY <1>0, <2>1 DEF PauseWrite, Active
  <2>2. CASE CancelWrite
    BY <1>3, <2>2 DEF CancelWrite
  <2>3. CASE ResumeWrite \/ RetryRequeue
    BY <1>0, <2>3 DEF ResumeWrite, RetryRequeue, TypeOK, AdminState
  <2>4. CASE RetryReset
    BY <1>0, <2>4 DEF RetryReset, DrivenInv, QueuedJob, Dispatching, Reconciling
  <2>5. CASE AdminDispatches
    BY <1>0, <2>5, Enqueued, Constants DEF AdminDispatches
  <2>6. CASE AdminDies
    BY <2>6 DEF AdminDies, DrivenInv, QueuedJob, Dispatching, Reconciling
  <2>7. QED
    BY <1>7, <2>1, <2>2, <2>3, <2>4, <2>5, <2>6 DEF AdminSteps
<1>8. CASE PauseRead \/ CancelRead \/ ResumeRead \/ RetryRead
  BY <1>8 DEF PauseRead, CancelRead, ResumeRead, Click, RetryRead, DrivenInv,
     QueuedJob, Dispatching, Reconciling
<1>9. CASE CampaignAges
  BY <1>0, <1>9 DEF CampaignAges, TypeOK, DrivenInv, QueuedJob, Dispatching,
     Reconciling
<1>10. CASE ConsentExpires \/ UNCHANGED vars
  BY <1>1, <1>10 DEF ConsentExpires, vars
<1>11. CASE RevokeConsent
  BY <1>1, <1>3, <1>11 DEF RevokeConsent
<1>12. ASSUME NEW r \in Recipient, NEW kind \in EventKind, Reported(r, kind)
       PROVE  Goal
  BY <1>1, <1>12 DEF Reported, Ingest
<1>13. QED
  BY <1>4, <1>5, <1>6, <1>7, <1>8, <1>9, <1>10, <1>11, <1>12 DEF Next

\* An active campaign always has somebody to carry it on, unless a job was lost
\* or found its batch taken away, or the administrator's request died.
THEOREM CampaignIsDriven == Spec => []Driven
<1>1. Init => DrivenInv
  <2> SUFFICES ASSUME Init PROVE QueuedJob
    BY DEF DrivenInv
  <2>1. <<"dispatch", 1>> \in Lane \X {1, 2}
    BY DEF Lane
  <2>2. queue[<<"dispatch", 1>>] = 1
    BY <2>1 DEF Init
  <2>3. QED
    BY <2>1, <2>2 DEF QueuedJob
<1>2. Spec => [](TypeInv /\ DrivenInv)
  BY <1>1, InitTypeInv, TypeOKStep, DrivenInvStep, PTL DEF Spec
<1>3. DrivenInv => Driven
  BY DEF DrivenInv, Driven, QueuedJob, Dispatching, Reconciling
<1>4. QED
  BY <1>2, <1>3, PTL

-----------------------------------------------------------------------------
(* The ledger.  An undisturbed reconciliation leaves nobody unfinished, so   *)
(* what it charges is the whole reservation; a cancellation charges every    *)
(* recipient that was ever claimed.                                          *)

Claimed == {r \in Recipient : recipient[r].attempts > 0}
Settling == reconciler.pc \in {"consume", "release"}
Accounted ==
  /\ ledger.consume + ledger.release = Reserved
  /\ Cardinality(Claimed) <= ledger.consume

NobodyUnfinished == reconciler.pc = "total" => WithStatus(Unfinished) = {}
ChargesAll ==
  /\ reconciler.pc = "complete" \/ Settling => reconciler.used = Reserved
  /\ reconciler.pc = "release" => ledger.consume = Reserved
EndedAccounted == campaign.status \in Ended /\ ~Settling => Accounted

SettleInv == ~torn => NobodyUnfinished /\ ChargesAll /\ EndedAccounted

\* A handler that settles nothing, ends no campaign and leaves no recipient
\* unfinished that was not.
LEMMA SettlesNothing ==
  ASSUME TypeInv, SettleInv, UNCHANGED <<ledger, reconciler>>, torn => torn',
         campaign'.status \in Ended =>
            /\ campaign.status \in Ended
            /\ \A r \in Recipient : recipient'[r].attempts = recipient[r].attempts,
         reconciler.pc = "total" /\ ~torn' /\ WithStatus(Unfinished) = {} =>
            WithStatus(Unfinished)' = {}
  PROVE  SettleInv'
<1> SUFFICES ASSUME ~torn' PROVE NobodyUnfinished' /\ ChargesAll' /\ EndedAccounted'
  BY DEF SettleInv
<1>1. NobodyUnfinished /\ ChargesAll /\ EndedAccounted
  BY DEF SettleInv
<1>2. NobodyUnfinished' /\ ChargesAll'
  BY <1>1 DEF NobodyUnfinished, ChargesAll, Settling
<1>3. EndedAccounted'
  <2> SUFFICES ASSUME campaign'.status \in Ended, ~Settling' PROVE Accounted'
    BY DEF EndedAccounted
  <2>1. Accounted /\ Claimed' = Claimed
    BY <1>1 DEF EndedAccounted, Settling, Claimed
  <2>2. QED
    BY <2>1 DEF Accounted
<1>4. QED
  BY <1>2, <1>3

\* The recipients change in their status only, and nobody becomes unfinished.
LEMMA FinishedStay ==
  ASSUME TypeInv, NEW ids, NEW s, recipient' = Marked(ids, s),
         s \in Unfinished => ids \cap Recipient \subseteq WithStatus(Unfinished)
  PROVE  /\ \A r \in Recipient : recipient'[r].attempts = recipient[r].attempts
         /\ WithStatus(Unfinished)' \subseteq WithStatus(Unfinished)
<1>1. TypeOK
  BY DEF TypeInv
<1>2. \A r \in Recipient :
        /\ recipient'[r].attempts = recipient[r].attempts
        /\ recipient'[r].status = IF r \in ids THEN s ELSE recipient[r].status
  BY <1>1, MarkedValues
<1>3. ASSUME NEW r \in WithStatus(Unfinished)' PROVE r \in WithStatus(Unfinished)
  BY <1>2, <1>3 DEF WithStatus
<1>4. QED
  BY <1>2, <1>3

\* A cancellation settles for every recipient that was ever claimed, wherever
\* the reconciliation is, unless it falls between its two entries.
LEMMA CancelSettles ==
  ASSUME TypeInv, SettleInv, Cancels, UNCHANGED reconciler
  PROVE  SettleInv'
<1> SUFFICES ASSUME ~torn' PROVE NobodyUnfinished' /\ ChargesAll' /\ EndedAccounted'
  BY DEF SettleInv
<1> DEFINE used == Cardinality(Attempted(CancelledRecipients))
<1>1. /\ TypeOK /\ ~torn /\ reconciler.pc # "release"
      /\ NobodyUnfinished /\ ChargesAll /\ EndedAccounted
  BY DEF Cancels, SettleInv, TypeInv
<1>2. /\ \A r \in Recipient : /\ recipient'[r].attempts = recipient[r].attempts
                              /\ recipient'[r].status \notin Unfinished
      /\ recipient' = CancelledRecipients
  BY <1>1, CancelledType DEF Cancels
<1>3. NobodyUnfinished' /\ ChargesAll'
  BY <1>1, <1>2 DEF NobodyUnfinished, ChargesAll, Settling, WithStatus
<1>4. used \in 0..Reserved /\ Reserved \in Nat
  BY Counted DEF Attempted
<1>5. ledger'.consume = used /\ ledger'.release = Reserved - used
  BY <1>4, SettlementType DEF Cancels
<1>6. Claimed' \subseteq Attempted(CancelledRecipients)
  BY <1>2 DEF Claimed, Attempted
<1>7. Cardinality(Claimed') <= used
  BY <1>6, Counted, FS_Subset DEF Attempted
<1>8. Accounted'
  BY <1>4, <1>5, <1>7 DEF Accounted
<1>9. QED
  BY <1>3, <1>8 DEF EndedAccounted

LEMMA SettleInvStep == TypeInv /\ SettleInv /\ [Next]_vars => SettleInv'
<1> SUFFICES ASSUME TypeInv, SettleInv, [Next]_vars PROVE SettleInv'
  OBVIOUS
<1> USE DEF rows, jobs, requests, mails
<1>0. /\ TypeOK
      /\ \A s : SetStatus(s) => campaign'.status = s
      /\ \A pc : Reconciles(pc) => /\ reconciler'.pc = pc
                                   /\ reconciler'.used = reconciler.used
  BY DEF TypeInv, TypeOK, SetStatus, Reconciles, ReconcilerState
<1>1. ASSUME UNCHANGED <<ledger, reconciler, torn, recipient>>,
             campaign'.status = campaign.status \/ campaign'.status \notin Ended
      PROVE  SettleInv'
  BY <1>1, SettlesNothing DEF WithStatus
<1>2. CASE UNCHANGED vars \/ CampaignAges \/ ConsentExpires
  BY <1>0, <1>1, <1>2 DEF vars, CampaignAges, ConsentExpires, TypeOK
<1>3. CASE RevokeConsent
  BY <1>1, <1>3, CancelSettles DEF RevokeConsent
<1>4. ASSUME NEW d \in Dispatcher, DispatchSteps(d) \/ DispatcherDies(d)
      PROVE  SettleInv'
  <2>1. CASE SafetyCancel(d)
    BY <2>1, CancelSettles DEF SafetyCancel
  <2>2. CASE Claim(d)
    <3>1. CASE consent = "ended" \/ campaign.status \notin Active
      BY <1>1, <2>2, <3>1 DEF Claim
    <3>2. ASSUME NEW batch \in Batches(WithStatus({"pending"})),
                 campaign' = Started,
                 recipient' = [r \in Recipient |->
                    IF r \in batch
                    THEN [status |-> "dispatching",
                          attempts |-> recipient[r].attempts + 1]
                    ELSE recipient[r]]
          PROVE  SettleInv'
      <4>1. campaign'.status \notin Ended
        BY <1>0, <3>2 DEF Started, Ended, TypeOK
      <4>2. batch \subseteq WithStatus({"pending"})
        BY DEF Batches
      <4>3. WithStatus(Unfinished)' \subseteq WithStatus(Unfinished)
        BY <3>2, <4>2 DEF WithStatus, Unfinished
      <4>4. UNCHANGED <<ledger, reconciler, torn>>
        BY <2>2 DEF Claim
      <4>5. QED
        BY <4>1, <4>3, <4>4, SettlesNothing
    <3>3. QED
      BY <2>2, <3>1, <3>2 DEF Claim
  <2>3. CASE Record(d)
    <3>1. /\ recipient' = Marked({dispatcher[d].mail} \cap WithStatus({"dispatching"}),
                                 SendOutcome(d))
          /\ UNCHANGED <<ledger, reconciler, torn, campaign>>
      BY <2>3 DEF Record
    <3>2. WithStatus({"dispatching"}) \subseteq WithStatus(Unfinished)
      BY DEF WithStatus, Unfinished, InFlight
    <3>3. QED
      BY <3>1, <3>2, FinishedStay, SettlesNothing
  <2>4. CASE DispatchPauses(d)
    BY <1>0, <1>1, <2>4 DEF DispatchPauses, Ended
  <2>5. ASSUME \/ \E try \in {1, 2} : DispatchStarts(d, try)
               \/ Reload(d) \/ Check(d) \/ Send(d) \/ WrapUp(d) \/ DispatchEnds(d)
               \/ DispatcherDies(d)
        PROVE  UNCHANGED <<ledger, reconciler, torn, recipient, campaign>>
    BY <2>5 DEF DispatchStarts, Reload, Check, Send, WrapUp, DispatchEnds,
       DispatcherDies
  <2>6. QED
    BY <1>1, <1>4, <2>1, <2>2, <2>3, <2>4, <2>5 DEF DispatchSteps
<1>5. CASE ReconcileSteps \/ ReconcilerDies
  <2> SUFFICES ASSUME ~torn'
               PROVE  NobodyUnfinished' /\ ChargesAll' /\ EndedAccounted'
    BY DEF SettleInv
  <2>0. /\ ~torn /\ NobodyUnfinished /\ ChargesAll /\ EndedAccounted
        /\ Reserved \in Nat
    <3>1. ~torn
      <4>1. CASE ReconcileSteps
        BY <4>1
           DEF ReconcileSteps, TakeReconcile, Count, Defer, Total, Complete,
           SettleConsume, SettleRelease
      <4>2. CASE ReconcilerDies
        BY <4>2 DEF ReconcilerDies
      <4>3. QED
        BY <1>5, <4>1, <4>2
    <3>2. QED
      BY <3>1, Counted DEF SettleInv
  <2>1. ASSUME UNCHANGED <<ledger, campaign, recipient>>, ~Settling,
               reconciler'.pc \in {"idle", "count", "defer"}
        PROVE  NobodyUnfinished' /\ ChargesAll' /\ EndedAccounted'
    BY <2>0, <2>1 DEF NobodyUnfinished, ChargesAll, EndedAccounted, Settling,
       Accounted, Claimed
  <2>2. CASE ReconcilerDies \/ (\E try \in {1, 2} : TakeReconcile(try)) \/ Count
    <3>1. /\ UNCHANGED <<ledger, campaign, recipient>> /\ ~Settling
          /\ reconciler'.pc \in {"idle", "count", "defer"}
      <4>1. CASE ReconcilerDies
        BY <4>1 DEF ReconcilerDies, Settling, IdleReconciler
      <4>2. ASSUME NEW try \in {1, 2}, TakeReconcile(try)
            PROVE  /\ UNCHANGED <<ledger, campaign, recipient>> /\ ~Settling
                   /\ reconciler'.pc \in {"idle", "count"}
        BY <4>2 DEF TakeReconcile, Settling, IdleReconciler
      <4>3. CASE Count
        BY <1>0, <4>3 DEF Count, Settling, IdleReconciler
      <4>4. QED
        BY <2>2, <4>1, <4>2, <4>3
    <3>2. QED
      BY <2>1, <3>1
  <2>3. CASE Defer
    <3>1. /\ reconciler'.pc = "total" /\ ~Settling
          /\ UNCHANGED <<ledger, campaign>>
          /\ recipient' = Marked(WithStatus(Unfinished), "deferred")
      BY <1>0, <2>3 DEF Defer, Settling
    <3>2. \A r \in Recipient :
            /\ recipient'[r].attempts = recipient[r].attempts
            /\ recipient'[r].status \notin Unfinished
      <4>1. \A r \in Recipient :
              /\ recipient'[r].attempts = recipient[r].attempts
              /\ recipient'[r].status = IF r \in WithStatus(Unfinished) THEN "deferred"
                                        ELSE recipient[r].status
        BY <1>0, <3>1, MarkedValues
      <4>2. QED
        BY <4>1 DEF WithStatus, Unfinished, InFlight
    <3>3. WithStatus(Unfinished)' = {} /\ Claimed' = Claimed
      BY <3>2 DEF WithStatus, Claimed
    <3>4. QED
      BY <2>0, <3>1, <3>3
         DEF NobodyUnfinished, ChargesAll, EndedAccounted, Settling, Accounted
  <2>4. CASE Total
    <3>1. WithStatus({"delivered", "bounced", "deferred", "failed"}) = Recipient
      <4>1. \A r \in Recipient : recipient[r].status \in RecipientStatus
        BY <1>0 DEF TypeOK, Row
      <4>2. \A r \in Recipient : recipient[r].status \notin Unfinished
        BY <2>0, <2>4 DEF Total, NobodyUnfinished, WithStatus
      <4>3. QED
        BY <4>1, <4>2 DEF WithStatus, RecipientStatus, Unfinished, InFlight
    <3>2. /\ reconciler'.pc = "complete" /\ reconciler'.used = Reserved
          /\ ~Settling /\ UNCHANGED <<ledger, campaign, recipient>>
      BY <1>0, <2>4, <3>1 DEF Total, Reserved, Settling, TypeOK, ReconcilerState
    <3>3. QED
      BY <2>0, <3>2
         DEF NobodyUnfinished, ChargesAll, EndedAccounted, Settling, Accounted,
         Claimed
  <2>5. CASE Complete
    <3>1. reconciler'.pc = "consume" /\ reconciler'.used = Reserved
      BY <1>0, <2>0, <2>5 DEF Complete, ChargesAll
    <3>2. QED
      BY <3>1 DEF NobodyUnfinished, ChargesAll, EndedAccounted, Settling
  <2>6. CASE SettleConsume
    <3>1. /\ reconciler'.pc = "release" /\ reconciler'.used = reconciler.used
          /\ reconciler.used = Reserved
      BY <1>0, <2>0, <2>6 DEF SettleConsume, ChargesAll, Settling
    <3>2. ledger'.consume = Reserved
      BY <1>0, <2>0, <2>6, <3>1, SettlementType DEF SettleConsume, TypeOK
    <3>3. QED
      BY <3>1, <3>2 DEF NobodyUnfinished, ChargesAll, EndedAccounted, Settling
  <2>7. CASE SettleRelease
    <3>1. reconciler.used = Reserved /\ ledger.consume = Reserved
      BY <2>0, <2>7 DEF SettleRelease, ChargesAll, Settling
    <3>2. /\ ledger'.consume = Reserved /\ ledger'.release = 0
          /\ reconciler'.pc = "idle"
      BY <1>0, <2>0, <2>7, <3>1, SettlementType
         DEF SettleRelease, TypeOK, IdleReconciler
    <3>3. Cardinality(Claimed') <= Reserved
      BY <2>0, Counted DEF Claimed
    <3>4. Accounted'
      BY <2>0, <3>2, <3>3 DEF Accounted
    <3>5. QED
      BY <3>2, <3>4 DEF NobodyUnfinished, ChargesAll, EndedAccounted, Settling
  <2>8. QED
    BY <1>5, <2>2, <2>3, <2>4, <2>5, <2>6, <2>7 DEF ReconcileSteps
<1>6. CASE Apply
  <2>1. UNCHANGED <<ledger, reconciler, torn, campaign>>
    BY <1>6 DEF Apply
  <2>2. ingestor.kind \notin Unfinished
    BY <1>6, SeedSendAssumption DEF Apply, TypeInv, EventKnown, Unfinished, InFlight
  <2>3. CASE recipient' = recipient
    BY <1>1, <2>1, <2>3
  <2>4. CASE recipient' = Marked({ingestor.recipient}, ingestor.kind)
    BY <2>1, <2>2, <2>4, FinishedStay, SettlesNothing
  <2>5. QED
    BY <1>6, <2>3, <2>4 DEF Apply
<1>7. CASE IngestPauses \/ PauseWrite \/ ResumeWrite \/ RetryRequeue
  BY <1>0, <1>1, <1>7
     DEF IngestPauses, PauseWrite, ResumeWrite, RetryRequeue, Ended
<1>8. CASE CancelWrite
  BY <1>8, CancelSettles DEF CancelWrite
<1>9. CASE RetryReset
  <2>1. \A r \in Recipient : recipient'[r].attempts = recipient[r].attempts
    BY <1>0, <1>9, MarkedValues DEF RetryReset
  <2>2. /\ UNCHANGED <<ledger, reconciler, campaign>>
        /\ torn' = (torn \/ reconciler.pc = "total")
    BY <1>9 DEF RetryReset
  <2>3. QED
    BY <2>1, <2>2, SettlesNothing
<1>10. ASSUME \/ Guard \/ IngestorDies \/ AdminDispatches \/ AdminDies
              \/ PauseRead \/ CancelRead \/ ResumeRead \/ RetryRead
              \/ \E r \in Recipient, kind \in EventKind : Reported(r, kind)
       PROVE  UNCHANGED <<ledger, reconciler, torn, recipient, campaign>>
  BY <1>10
     DEF Guard, IngestorDies, AdminDispatches, AdminDies, PauseRead, CancelRead,
     ResumeRead, Click, RetryRead, Reported, Ingest
<1>11. QED
  BY <1>1, <1>2, <1>3, <1>4, <1>5, <1>6, <1>7, <1>8, <1>9, <1>10
     DEF Next, IngestSteps, AdminSteps

\* The ledger of an ended campaign accounts for every reserved credit and
\* charges everybody a message went to (SeedSendCreditLedgerService,
\* ReconcileSeedSendCampaignJob, SeedSendCampaignService).
THEOREM LedgerIsSettled == Spec => []LedgerSettled
<1>1. Init => SettleInv
  BY DEF Init, SettleInv, NobodyUnfinished, ChargesAll, EndedAccounted, Settling,
     IdleReconciler, Ended
<1>2. Spec => [](TypeInv /\ MailInv /\ SettleInv)
  BY <1>1, InitTypeInv, TypeOKStep, InitMailInv, MailInvStep, SettleInvStep, PTL
     DEF Spec
<1>3. TypeInv /\ MailInv /\ SettleInv => LedgerSettled
  <2> SUFFICES ASSUME TypeInv, MailInv, SettleInv, campaign.status \in Ended,
                      reconciler.pc \notin {"consume", "release"}, ~torn
               PROVE  /\ ledger.consume + ledger.release = Reserved
                      /\ Cardinality({r \in Recipient : sent[r] > 0}) <= ledger.consume
    BY DEF LedgerSettled
  <2> DEFINE Mailed == {r \in Recipient : sent[r] > 0}
  <2>1. Accounted /\ TypeOK
    BY DEF SettleInv, EndedAccounted, Settling, TypeInv
  <2>2. ASSUME NEW r \in Recipient, sent[r] > 0 PROVE recipient[r].attempts > 0
    <3>1. /\ sent[r] + Cardinality(Holders(r)) <= recipient[r].attempts
          /\ Cardinality(Holders(r)) \in Nat
      BY <2>1, HoldersCounted DEF MailInv, ClaimPerMail
    <3>2. sent[r] \in Nat /\ recipient[r].attempts \in Nat
      BY <2>1 DEF TypeOK, Row
    <3>3. QED
      BY <2>2, <3>1, <3>2
  <2>3. Mailed \subseteq Claimed /\ Claimed \in SUBSET Recipient
    BY <2>2 DEF Claimed
  <2>4. /\ Cardinality(Mailed) <= Cardinality(Claimed)
        /\ Cardinality(Mailed) \in Int /\ Cardinality(Claimed) \in Int
    BY <2>3, Counted, FS_Subset
  <2>5. ledger.consume \in Int
    <3>1. Reserved \in Nat
      BY Counted
    <3>2. QED
      BY <2>1, <3>1 DEF TypeOK, NoEntry
  <2>6. QED
    BY <2>1, <2>4, <2>5 DEF Accounted
<1>4. QED
  BY <1>2, <1>3, PTL

-----------------------------------------------------------------------------
(* Outcomes. *)

\* Only an event or a retry changes a recorded delivery or bounce
\* (DispatchSeedSendCampaignJob, SeedSendCampaignService,
\* ReconcileSeedSendCampaignJob, SeedSendEventIngestor).
THEOREM OutcomesSurvive == Spec => OutcomeSurvives
<1> DEFINE Survives ==
      \A r \in Recipient :
        recipient[r].status \in {"delivered", "bounced"} =>
          \/ recipient'[r].status = recipient[r].status
          \/ ingestor.pc = "apply" /\ ingestor.recipient = r
          \/ admin.pc = "reset" /\ r \in admin.ids
<1>1. TypeInv /\ [Next]_vars => Survives
  <2> SUFFICES ASSUME TypeInv, [Next]_vars,
                      NEW r \in Recipient,
                      recipient[r].status \in {"delivered", "bounced"},
                      ~(ingestor.pc = "apply" /\ ingestor.recipient = r),
                      ~(admin.pc = "reset" /\ r \in admin.ids)
               PROVE  recipient'[r].status = recipient[r].status
    OBVIOUS
  <2> USE DEF rows, jobs, requests, mails
  <2>0. TypeOK
    BY DEF TypeInv
  <2>1. ASSUME NEW ids, NEW s, recipient' = Marked(ids, s), r \notin ids
        PROVE  recipient'[r].status = recipient[r].status
    BY <2>0, <2>1, MarkedValues
  <2>2. ASSUME Cancels PROVE recipient'[r].status = recipient[r].status
    <3>1. recipient[r] \in Row
      BY <2>0 DEF TypeOK
    <3>2. recipient'[r] = [recipient[r] EXCEPT !.status = @]
      BY <2>2, <3>1 DEF Cancels, CancelledRecipients, InFlight, Row
    <3>3. QED
      BY <3>1, <3>2 DEF Row
  <2>3. ASSUME NEW S, S \cap {"delivered", "bounced"} = {} PROVE r \notin WithStatus(S)
    BY <2>3 DEF WithStatus
  <2>4. CASE UNCHANGED vars \/ CampaignAges \/ ConsentExpires \/ RevokeConsent
    BY <2>2, <2>4 DEF vars, CampaignAges, ConsentExpires, RevokeConsent
  <2>5. ASSUME NEW d \in Dispatcher, DispatchSteps(d) \/ DispatcherDies(d)
        PROVE  recipient'[r].status = recipient[r].status
    <3>1. CASE Claim(d)
      <4>1. \A batch \in Batches(WithStatus({"pending"})) : r \notin batch
        BY <2>3 DEF Batches
      <4>2. QED
        BY <3>1, <4>1 DEF Claim
    <3>2. CASE Record(d)
      BY <2>1, <2>3, <3>2 DEF Record
    <3>3. CASE SafetyCancel(d)
      BY <2>2, <3>3 DEF SafetyCancel
    <3>4. ASSUME \/ \E try \in {1, 2} : DispatchStarts(d, try)
                 \/ Reload(d) \/ Check(d) \/ Send(d) \/ WrapUp(d)
                 \/ DispatchPauses(d) \/ DispatchEnds(d) \/ DispatcherDies(d)
          PROVE  UNCHANGED recipient
      BY <3>4 DEF DispatchStarts, Reload, Check, Send, WrapUp, DispatchPauses,
         DispatchEnds, DispatcherDies
    <3>5. QED
      BY <2>5, <3>1, <3>2, <3>3, <3>4 DEF DispatchSteps
  <2>6. CASE ReconcileSteps \/ ReconcilerDies
    <3>1. CASE Defer
      <4>1. Unfinished \cap {"delivered", "bounced"} = {}
        BY DEF Unfinished, InFlight
      <4>2. QED
        BY <2>1, <2>3, <3>1, <4>1 DEF Defer
    <3>2. CASE UNCHANGED recipient
      BY <3>2
    <3>3. QED
      BY <2>6, <3>1, <3>2
         DEF ReconcileSteps, TakeReconcile, Count, Total, Complete, SettleConsume,
         SettleRelease, ReconcilerDies
  <2>7. CASE Apply \/ RetryReset
    BY <2>1, <2>7 DEF Apply, RetryReset
  <2>8. CASE CancelWrite
    BY <2>2, <2>8 DEF CancelWrite
  <2>9. ASSUME \/ Guard \/ IngestPauses \/ IngestorDies
               \/ PauseWrite \/ ResumeWrite \/ RetryRequeue \/ AdminDispatches
               \/ AdminDies \/ PauseRead \/ CancelRead \/ ResumeRead \/ RetryRead
               \/ \E x \in Recipient, kind \in EventKind : Reported(x, kind)
        PROVE  UNCHANGED recipient
    BY <2>9
       DEF Guard, IngestPauses, IngestorDies, PauseWrite, ResumeWrite,
       RetryRequeue, AdminDispatches, AdminDies, PauseRead, CancelRead,
       ResumeRead, Click, RetryRead, Reported, Ingest
  <2>10. QED
    BY <2>4, <2>5, <2>6, <2>7, <2>8, <2>9 DEF Next, IngestSteps, AdminSteps
<1>2. TypeInv /\ [Next]_vars => [Survives]_vars
  BY <1>1
<1>3. QED
  BY <1>2, InitTypeInv, TypeOKStep, PTL DEF Spec, OutcomeSurvives
=============================================================================
