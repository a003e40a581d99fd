--------------------------- MODULE SeedSendCampaign ---------------------------
(***************************************************************************)
(* One seed-send (SG6) campaign from the moment it is queued: the queue    *)
(* jobs that dispatch its messages, reconcile it and ingest the provider's *)
(* events, the administrator's requests, the customer's consent and the    *)
(* credit ledger.                                                          *)
(*                                                                         *)
(* Each handler is a sequence of steps, one per database statement or      *)
(* transaction whose place between the steps of the others matters: claim  *)
(* and cancel are transactions, everything else reads first and writes     *)
(* later.  A queue worker may die between two steps; the queue gives its   *)
(* job to a worker a second time, if it has a try left.                    *)
(*                                                                         *)
(* A definition under a comment that begins with "Variant" belongs to no   *)
(* specification: it is a plausible mistake the properties must notice.    *)
(***************************************************************************)
EXTENDS Integers, FiniteSets

CONSTANTS
  Recipient,    \* the rows of seed_send_recipients
  NoRecipient,
  Dispatcher,   \* processes of the seed_send_dispatch lane
  BatchSize,    \* seed_send.dispatch.batch_size
  EventKind,    \* outcomes the provider reports
  MaxRetries,   \* bound: clicks on "retry failed/deferred"
  MaxClicks,    \* bound: clicks on pause, resume and cancel
  MaxDeaths     \* bound: processes that die

ASSUME SeedSendAssumption ==
  /\ IsFiniteSet(Recipient) /\ Recipient # {}
  /\ NoRecipient \notin Recipient
  /\ IsFiniteSet(Dispatcher)
  /\ BatchSize \in Nat \ {0}
  /\ EventKind \subseteq {"delivered", "bounced", "deferred", "failed"}
  /\ {MaxRetries, MaxClicks, MaxDeaths} \subseteq Nat

VARIABLES
  consent,     \* "approved", or "ended" once revoked or expired
  campaign,    \* the seed_send_campaigns row: status and age of started_at
  recipient,   \* the seed_send_recipients rows: status and attempt_count
  ledger,      \* the consume and release entries of seed_send_credit_ledger
  events,      \* the seed_send_events rows
  queue,       \* jobs waiting, by lane and number of their next try
  dispatcher,  \* DispatchSeedSendCampaignJob in each process
  reconciler,  \* ReconcileSeedSendCampaignJob
  ingestor,    \* IngestSeedSendEventJob
  admin,       \* the administrator's request
  clicks, retries, deaths,  \* so far
  sent,        \* messages the provider has accepted, by recipient
  late,        \* of these, by process, those after the consent had ended
  forgotten,   \* has a job been lost, or one ended without a successor?
  torn         \* was a settlement cut in two, or counted during a retry?

rows == <<consent, campaign, recipient, ledger, events>>
jobs == <<queue, dispatcher, reconciler, ingestor>>
requests == <<admin, clicks, retries>>
mails == <<sent, late>>
vars == <<rows, jobs, requests, deaths, mails, forgotten, torn>>

-----------------------------------------------------------------------------
CampaignStatus == {"queued", "running", "paused", "completed", "cancelled"}
RecipientStatus == {"pending", "dispatching", "dispatched", "delivered",
                    "bounced", "deferred", "failed"}
Active == {"queued", "running"}
Ended == {"completed", "cancelled"}
InFlight == {"dispatching", "dispatched"}
Unfinished == {"pending"} \cup InFlight

NoEntry == -1
Entry == Nat \cup {NoEntry}
Lane == {"dispatch", "reconcile"}
Reserved == Cardinality(Recipient)

IdleDispatcher == [pc |-> "idle", try |-> 1, batch |-> {}, mail |-> NoRecipient]
IdleReconciler == [pc |-> "idle", try |-> 1, started |-> FALSE, used |-> 0]
IdleIngestor ==
  [pc |-> "idle", recipient |-> NoRecipient, kind |-> "none", seen |-> "pending"]
IdleAdmin == [pc |-> "idle", ids |-> {}, seen |-> "queued"]

\* startCampaign has committed and its dispatch job is queued.
Init ==
  /\ consent = "approved"
  /\ campaign = [status |-> "queued", started |-> "never"]
  /\ recipient = [r \in Recipient |-> [status |-> "pending", attempts |-> 0]]
  /\ ledger = [consume |-> NoEntry, release |-> NoEntry]
  /\ events = {}
  /\ queue = [job \in Lane \X {1, 2} |-> IF job = <<"dispatch", 1>> THEN 1 ELSE 0]
  /\ dispatcher = [d \in Dispatcher |-> IdleDispatcher]
  /\ reconciler = IdleReconciler
  /\ ingestor = IdleIngestor
  /\ admin = IdleAdmin
  /\ clicks = 0 /\ retries = 0 /\ deaths = 0
  /\ sent = [r \in Recipient |-> 0]
  /\ late = [d \in Dispatcher |-> 0]
  /\ forgotten = FALSE
  /\ torn = FALSE

-----------------------------------------------------------------------------
(* What several handlers do. *)

WithStatus(s) == {r \in Recipient : recipient[r].status \in s}

\* UPDATE ... SET status = s WHERE id IN ids.
Marked(ids, s) ==
  [r \in Recipient |->
     IF r \in ids THEN [recipient[r] EXCEPT !.status = s] ELSE recipient[r]]

Enqueue(lane) == queue' = [queue EXCEPT ![<<lane, 1>>] = @ + 1]
SetStatus(s) == campaign' = [campaign EXCEPT !.status = s]

\* Variant: the difference is taken the wrong way round.
SettlementReversed(usedCredits) ==
  [consume |-> usedCredits, release |-> usedCredits - Reserved]

\* Credits per recipient are the unit.
Settlement(usedCredits) ==
  [consume |-> usedCredits, release |-> Reserved - usedCredits]

CancelledRecipients ==
  [r \in Recipient |->
     [recipient[r] EXCEPT
        !.status = CASE @ = "pending"  -> "failed"
                     [] @ \in InFlight -> "deferred"
                     [] OTHER          -> @]]

\* settleCancellation: those a message may have gone to.
Attempted(recipients) ==
  {r \in Recipient : \/ recipients[r].attempts > 0
                     \/ recipients[r].status
                          \in {"dispatched", "delivered", "bounced", "deferred"}}

\* Variant: charges only those whose message is known to have gone out.
CancelsChargingKnown ==
  /\ recipient' = CancelledRecipients
  /\ SetStatus("cancelled")
  /\ ledger' = Settlement(Cardinality(WithStatus({"dispatched", "delivered",
                                                  "bounced"})))
  /\ torn' = (torn \/ reconciler.pc = "release")

\* One transaction.  It is cut into a settlement by reconcile if that one has
\* written consume and not yet release.
Cancels ==
  /\ recipient' = CancelledRecipients
  /\ SetStatus("cancelled")
  /\ ledger' = Settlement(Cardinality(Attempted(CancelledRecipients)))
  /\ torn' = (torn \/ reconciler.pc = "release")

\* The guardrails pause an active campaign with too many bounces or deferrals;
\* the counts and thresholds are left to chance.
MayTrip == campaign.status \in Active /\ WithStatus({"bounced", "deferred"}) # {}

-----------------------------------------------------------------------------
(* Time and the customer's consent. *)

\* started_at + max_pending_age_minutes passes.
CampaignAges ==
  /\ campaign.started = "fresh"
  /\ campaign' = [campaign EXCEPT !.started = "old"]
  /\ UNCHANGED <<consent, recipient, ledger, events, jobs, requests, deaths,
                 mails, forgotten, torn>>

ConsentExpires ==
  /\ consent = "approved"
  /\ consent' = "ended"
  /\ UNCHANGED <<campaign, recipient, ledger, events, jobs, requests, deaths,
                 mails, forgotten, torn>>

\* One transaction with the cancellation of the campaigns it stops.
RevokeConsent ==
  /\ consent = "approved"
  /\ consent' = "ended"
  /\ IF campaign.status \in Active \cup {"paused"}
     THEN Cancels
     ELSE UNCHANGED <<campaign, recipient, ledger, torn>>
  /\ UNCHANGED <<events, jobs, requests, deaths, mails, forgotten>>

-----------------------------------------------------------------------------
(* DispatchSeedSendCampaignJob. *)

Dispatches(d, changes) == dispatcher' = [dispatcher EXCEPT ![d] = changes]
At(d, pc) == [dispatcher[d] EXCEPT !.pc = pc]

\* cancelCampaignForSafety leaves a campaign alone that it read as ended.
AbandonedAt(d) ==
  IF campaign.status \in Ended THEN IdleDispatcher ELSE At(d, "cancel")

\* A process takes a job and reads the campaign and its consent.
DispatchStarts(d, try) ==
  /\ dispatcher[d].pc = "idle"
  /\ queue[<<"dispatch", try>>] > 0
  /\ queue' = [queue EXCEPT ![<<"dispatch", try>>] = @ - 1]
  /\ Dispatches(d, IF consent = "ended" /\ campaign.status \in Ended
                   THEN IdleDispatcher
                   ELSE [IdleDispatcher EXCEPT
                           !.pc = IF consent = "ended" THEN "cancel" ELSE "claim",
                           !.try = try])
  /\ UNCHANGED <<rows, reconciler, ingestor, requests, deaths, mails, forgotten,
                 torn>>

SafetyCancel(d) ==
  /\ dispatcher[d].pc = "cancel"
  /\ Cancels
  /\ Dispatches(d, IdleDispatcher)
  /\ UNCHANGED <<consent, events, queue, reconciler, ingestor, requests, deaths,
                 mails, forgotten>>

Batches(ids) ==
  {b \in SUBSET ids : IF Cardinality(ids) <= BatchSize THEN b = ids
                      ELSE Cardinality(b) = BatchSize}

Started == [campaign EXCEPT
              !.status = "running",
              !.started = IF @ = "never" THEN "fresh" ELSE @]

\* Variant: also takes what a dead process left behind.
ClaimLeftBehind(d) ==
  /\ dispatcher[d].pc = "claim"
  /\ IF consent = "ended" \/ campaign.status \notin Active
     THEN /\ Dispatches(d, At(d, "reload"))
          /\ UNCHANGED <<campaign, recipient>>
     ELSE \E batch \in Batches(WithStatus({"pending", "dispatching"})) :
            /\ campaign' = Started
            /\ recipient' =
                 [r \in Recipient |->
                    IF r \in batch
                    THEN [status |-> "dispatching",
                          attempts |-> recipient[r].attempts + 1]
                    ELSE recipient[r]]
            /\ Dispatches(d, [At(d, "reload") EXCEPT !.batch = batch])
  /\ UNCHANGED <<consent, ledger, events, queue, reconciler, ingestor, requests,
                 deaths, mails, forgotten, torn>>

\* One transaction that holds the campaign's lock.  The order of ids decides
\* which recipients make up the batch; here any may.
Claim(d) ==
  /\ dispatcher[d].pc = "claim"
  /\ IF consent = "ended" \/ campaign.status \notin Active
     THEN /\ Dispatches(d, At(d, "reload"))
          /\ UNCHANGED <<campaign, recipient>>
     ELSE \E batch \in Batches(WithStatus({"pending"})) :
            /\ campaign' = Started
            /\ recipient' =
                 [r \in Recipient |->
                    IF r \in batch
                    THEN [status |-> "dispatching",
                          attempts |-> recipient[r].attempts + 1]
                    ELSE recipient[r]]
            /\ Dispatches(d, [At(d, "reload") EXCEPT !.batch = batch])
  /\ UNCHANGED <<consent, ledger, events, queue, reconciler, ingestor, requests,
                 deaths, mails, forgotten, torn>>

\* Reads campaign, consent and those of the batch that are still dispatching.
\* If none is, the job ends without a successor.
Reload(d) ==
  /\ dispatcher[d].pc = "reload"
  /\ LET claimed == dispatcher[d].batch
         live == claimed \cap WithStatus({"dispatching"})
     IN CASE consent = "ended" ->
               /\ Dispatches(d, AbandonedAt(d))
               /\ UNCHANGED <<queue, forgotten>>
          [] consent # "ended" /\ claimed = {} ->
               /\ Enqueue("reconcile")
               /\ Dispatches(d, IdleDispatcher)
               /\ UNCHANGED forgotten
          [] consent # "ended" /\ claimed # {} /\ live = {} ->
               /\ Dispatches(d, IdleDispatcher)
               /\ forgotten' = TRUE
               /\ UNCHANGED queue
          [] OTHER ->
               /\ Dispatches(d, [At(d, "check") EXCEPT !.batch = live])
               /\ UNCHANGED <<queue, forgotten>>
  /\ UNCHANGED <<rows, reconciler, ingestor, requests, deaths, mails, torn>>

\* Variant: the consent is not read again for each recipient.
CheckOnce(d) ==
  /\ dispatcher[d].pc = "check"
  /\ \E r \in dispatcher[d].batch :
       Dispatches(d, [At(d, "send") EXCEPT !.mail = r])
  /\ UNCHANGED <<rows, queue, reconciler, ingestor, requests, deaths, mails,
                 forgotten, torn>>

\* The loop over the batch reads campaign and consent before each message; it
\* does not look at the campaign's status.
Check(d) ==
  /\ dispatcher[d].pc = "check"
  /\ IF consent = "ended"
     THEN Dispatches(d, AbandonedAt(d))
     ELSE \E r \in dispatcher[d].batch :
            Dispatches(d, [At(d, "send") EXCEPT !.mail = r])
  /\ UNCHANGED <<rows, queue, reconciler, ingestor, requests, deaths, mails,
                 forgotten, torn>>

\* The provider accepts the message and says so, or throws; a response that
\* times out throws after the message was accepted.
Send(d) ==
  LET r == dispatcher[d].mail IN
  /\ dispatcher[d].pc = "send"
  /\ \/ /\ Dispatches(d, At(d, "accepted"))
        /\ sent' = [sent EXCEPT ![r] = @ + 1]
        /\ late' = [late EXCEPT ![d] = IF consent = "ended" THEN @ + 1 ELSE @]
     \/ /\ Dispatches(d, At(d, "threw"))
        /\ sent' = [sent EXCEPT ![r] = @ + 1]
        /\ late' = [late EXCEPT ![d] = IF consent = "ended" THEN @ + 1 ELSE @]
     \/ /\ Dispatches(d, At(d, "threw"))
        /\ UNCHANGED mails
  /\ UNCHANGED <<rows, queue, reconciler, ingestor, requests, deaths, forgotten,
                 torn>>

NextMail(d) ==
  LET rest == dispatcher[d].batch \ {dispatcher[d].mail} IN
  [dispatcher[d] EXCEPT !.pc = IF rest = {} THEN "wrapup" ELSE "check",
                        !.batch = rest, !.mail = NoRecipient]

SendOutcome(d) == IF dispatcher[d].pc = "accepted" THEN "dispatched" ELSE "deferred"

\* Variant: the outcome of the send is saved whatever the row says meanwhile.
RecordAnyway(d) ==
  /\ dispatcher[d].pc \in {"accepted", "threw"}
  /\ recipient' = Marked({dispatcher[d].mail}, SendOutcome(d))
  /\ Dispatches(d, NextMail(d))
  /\ UNCHANGED <<consent, campaign, ledger, events, queue, reconciler, ingestor,
                 requests, deaths, mails, forgotten, torn>>

\* Only a row that is still dispatching takes the outcome of the send.
Record(d) ==
  /\ dispatcher[d].pc \in {"accepted", "threw"}
  /\ recipient' = Marked({dispatcher[d].mail} \cap WithStatus({"dispatching"}),
                         SendOutcome(d))
  /\ Dispatches(d, NextMail(d))
  /\ UNCHANGED <<consent, campaign, ledger, events, queue, reconciler, ingestor,
                 requests, deaths, mails, forgotten, torn>>

\* Counters, then the guardrails on a fresh row.
WrapUp(d) ==
  /\ dispatcher[d].pc = "wrapup"
  /\ \/ /\ MayTrip
        /\ Dispatches(d, At(d, "pause"))
        /\ UNCHANGED queue
     \/ /\ campaign.status = "running"
        /\ Dispatches(d, At(d, "next"))
        /\ UNCHANGED queue
     \/ /\ campaign.status # "running"
        /\ Enqueue("reconcile")
        /\ Dispatches(d, IdleDispatcher)
  /\ UNCHANGED <<rows, reconciler, ingestor, requests, deaths, mails, forgotten,
                 torn>>

\* The guardrails save paused on the row they read before.
DispatchPauses(d) ==
  /\ dispatcher[d].pc = "pause"
  /\ SetStatus("paused")
  /\ Enqueue("reconcile")
  /\ Dispatches(d, IdleDispatcher)
  /\ UNCHANGED <<consent, recipient, ledger, events, reconciler, ingestor,
                 requests, deaths, mails, forgotten, torn>>

\* Variant: the next batch is left to whoever comes.
DispatchEndsQuietly(d) ==
  /\ dispatcher[d].pc = "next"
  /\ IF WithStatus({"pending"}) # {} THEN UNCHANGED queue ELSE Enqueue("reconcile")
  /\ Dispatches(d, IdleDispatcher)
  /\ UNCHANGED <<rows, reconciler, ingestor, requests, deaths, mails, forgotten,
                 torn>>

DispatchEnds(d) ==
  /\ dispatcher[d].pc = "next"
  /\ Enqueue(IF WithStatus({"pending"}) # {} THEN "dispatch" ELSE "reconcile")
  /\ Dispatches(d, IdleDispatcher)
  /\ UNCHANGED <<rows, reconciler, ingestor, requests, deaths, mails, forgotten,
                 torn>>

\* The process of a job dies.  A job on its second try is lost, and so is one
\* that ran into its timeout (failOnTimeout).
Redelivered(lane, try) ==
  /\ try = 1
  /\ queue' = [queue EXCEPT ![<<lane, 2>>] = @ + 1]
  /\ UNCHANGED forgotten
Lost ==
  /\ forgotten' = TRUE
  /\ UNCHANGED queue

DispatcherDies(d) ==
  /\ deaths < MaxDeaths
  /\ deaths' = deaths + 1
  /\ dispatcher[d].pc # "idle"
  /\ Redelivered("dispatch", dispatcher[d].try) \/ Lost
  /\ Dispatches(d, IdleDispatcher)
  /\ UNCHANGED <<rows, reconciler, ingestor, requests, mails, torn>>

-----------------------------------------------------------------------------
(* ReconcileSeedSendCampaignJob. *)

Reconciles(pc) == reconciler' = [reconciler EXCEPT !.pc = pc]

\* Reads the campaign and leaves one alone that has ended or is paused.
TakeReconcile(try) ==
  /\ reconciler.pc = "idle"
  /\ queue[<<"reconcile", try>>] > 0
  /\ queue' = [queue EXCEPT ![<<"reconcile", try>>] = @ - 1]
  /\ reconciler' =
       IF campaign.status \in Active
       THEN [pc |-> "count", try |-> try, started |-> campaign.started # "never",
             used |-> 0]
       ELSE IdleReconciler
  /\ UNCHANGED <<rows, dispatcher, ingestor, requests, deaths, mails, forgotten,
                 torn>>

\* Variant: a young campaign is left to the job that dispatches it.
CountGivesUp ==
  /\ reconciler.pc = "count"
  /\ IF /\ WithStatus(Unfinished) # {}
        /\ reconciler.started /\ campaign.started = "fresh"
     THEN reconciler' = IdleReconciler
     ELSE Reconciles("defer")
  /\ UNCHANGED <<rows, queue, dispatcher, ingestor, requests, deaths, mails,
                 forgotten, torn>>

\* A young campaign with recipients in flight is looked at again later.  One
\* that has not started is never young.
Count ==
  /\ reconciler.pc = "count"
  /\ IF /\ WithStatus(Unfinished) # {}
        /\ reconciler.started /\ campaign.started = "fresh"
     THEN Enqueue("reconcile") /\ reconciler' = IdleReconciler
     ELSE Reconciles("defer") /\ UNCHANGED queue
  /\ UNCHANGED <<rows, dispatcher, ingestor, requests, deaths, mails, forgotten,
                 torn>>

Defer ==
  /\ reconciler.pc = "defer"
  /\ recipient' = Marked(WithStatus(Unfinished), "deferred")
  /\ Reconciles("total")
  /\ UNCHANGED <<consent, campaign, ledger, events, queue, dispatcher, ingestor,
                 requests, deaths, mails, forgotten, torn>>

Total ==
  /\ reconciler.pc = "total"
  /\ reconciler' =
       [reconciler EXCEPT
          !.pc = "complete",
          !.used = Cardinality(WithStatus({"delivered", "bounced", "deferred",
                                           "failed"}))]
  /\ UNCHANGED <<rows, queue, dispatcher, ingestor, requests, deaths, mails,
                 forgotten, torn>>

\* Saves completed on the row it read long before.
Complete ==
  /\ reconciler.pc = "complete"
  /\ SetStatus("completed")
  /\ Reconciles("consume")
  /\ UNCHANGED <<consent, recipient, ledger, events, queue, dispatcher, ingestor,
                 requests, deaths, mails, forgotten, torn>>

\* settleCampaign, one entry after the other.
SettleConsume ==
  /\ reconciler.pc = "consume"
  /\ ledger' = [ledger EXCEPT !.consume = Settlement(reconciler.used).consume]
  /\ Reconciles("release")
  /\ UNCHANGED <<consent, campaign, recipient, events, queue, dispatcher,
                 ingestor, requests, deaths, mails, forgotten, torn>>

SettleRelease ==
  /\ reconciler.pc = "release"
  /\ ledger' = [ledger EXCEPT !.release = Settlement(reconciler.used).release]
  /\ reconciler' = IdleReconciler
  /\ UNCHANGED <<consent, campaign, recipient, events, queue, dispatcher,
                 ingestor, requests, deaths, mails, forgotten, torn>>

\* A second try finds a completed campaign and does not settle it.
ReconcilerDies ==
  /\ deaths < MaxDeaths
  /\ deaths' = deaths + 1
  /\ reconciler.pc # "idle"
  /\ IF reconciler.try = 1 THEN Redelivered("reconcile", 1) ELSE Lost
  /\ torn' = (torn \/ reconciler.pc \in {"consume", "release"})
  /\ reconciler' = IdleReconciler
  /\ UNCHANGED <<rows, dispatcher, ingestor, requests, mails>>

-----------------------------------------------------------------------------
(* IngestSeedSendEventJob. *)

\* Finds the recipient and inserts the event, unless it is known: then nothing
\* happens.  The provider reports on messages it has accepted.
Ingest(r, kind, n) ==
  /\ ingestor.pc = "idle"
  /\ n <= sent[r]
  /\ <<r, kind, n>> \notin events
  /\ events' = events \cup {<<r, kind, n>>}
  /\ ingestor' = [pc |-> "apply", recipient |-> r, kind |-> kind,
                  seen |-> recipient[r].status]
  /\ UNCHANGED <<consent, campaign, recipient, ledger, queue, dispatcher,
                 reconciler, requests, deaths, mails, forgotten, torn>>

\* The status is saved if it differs from the one that was read.
Apply ==
  /\ ingestor.pc = "apply"
  /\ recipient' = IF ingestor.seen = ingestor.kind THEN recipient
                  ELSE Marked({ingestor.recipient}, ingestor.kind)
  /\ ingestor' = [ingestor EXCEPT !.pc = "guard"]
  /\ UNCHANGED <<consent, campaign, ledger, events, queue, dispatcher,
                 reconciler, requests, deaths, mails, forgotten, torn>>

\* Counters, then the guardrails on a fresh row.
Guard ==
  /\ ingestor.pc = "guard"
  /\ \/ MayTrip /\ ingestor' = [ingestor EXCEPT !.pc = "pause"]
     \/ ingestor' = IdleIngestor
  /\ UNCHANGED <<rows, queue, dispatcher, reconciler, requests, deaths, mails,
                 forgotten, torn>>

IngestPauses ==
  /\ ingestor.pc = "pause"
  /\ SetStatus("paused")
  /\ ingestor' = IdleIngestor
  /\ UNCHANGED <<consent, recipient, ledger, events, queue, dispatcher,
                 reconciler, requests, deaths, mails, forgotten, torn>>

\* The next try finds the event and does nothing more.
IngestorDies ==
  /\ deaths < MaxDeaths
  /\ deaths' = deaths + 1
  /\ ingestor.pc # "idle"
  /\ ingestor' = IdleIngestor
  /\ UNCHANGED <<rows, queue, dispatcher, reconciler, requests, mails, forgotten,
                 torn>>

-----------------------------------------------------------------------------
(* The administrator: a request loads the campaign, then acts on it. *)

Click(pc) ==
  /\ admin.pc = "idle"
  /\ clicks < MaxClicks
  /\ clicks' = clicks + 1
  /\ admin' = [pc |-> pc, ids |-> {}, seen |-> campaign.status]
  /\ UNCHANGED <<rows, jobs, retries, deaths, mails, forgotten, torn>>

PauseRead == campaign.status \in Active /\ Click("pause")
CancelRead == campaign.status \notin Ended /\ Click("cancel")
ResumeRead == campaign.status = "paused" /\ Click("resume")

PauseWrite ==
  /\ admin.pc = "pause"
  /\ SetStatus("paused")
  /\ admin' = IdleAdmin
  /\ UNCHANGED <<consent, recipient, ledger, events, jobs, clicks, retries,
                 deaths, mails, forgotten, torn>>

CancelWrite ==
  /\ admin.pc = "cancel"
  /\ Cancels
  /\ admin' = IdleAdmin
  /\ UNCHANGED <<consent, events, jobs, clicks, retries, deaths, mails,
                 forgotten>>

ResumeWrite ==
  /\ admin.pc = "resume"
  /\ SetStatus("queued")
  /\ admin' = [admin EXCEPT !.pc = "dispatch"]
  /\ UNCHANGED <<consent, recipient, ledger, events, jobs, clicks, retries,
                 deaths, mails, forgotten, torn>>

\* retryDeferredOrFailedRecipients selects its recipients ...
RetryRead ==
  LET ids == WithStatus({"deferred", "failed"}) IN
  /\ admin.pc = "idle"
  /\ campaign.status # "cancelled"
  /\ retries < MaxRetries
  /\ ids # {}
  /\ retries' = retries + 1
  /\ admin' = [pc |-> "reset", ids |-> ids, seen |-> campaign.status]
  /\ UNCHANGED <<rows, jobs, clicks, deaths, mails, forgotten, torn>>

\* ... makes them pending, whatever they are by now ...
RetryReset ==
  /\ admin.pc = "reset"
  /\ recipient' = Marked(admin.ids, "pending")
  /\ admin' = [admin EXCEPT !.pc = "requeue", !.ids = {}]
  /\ torn' = (torn \/ reconciler.pc = "total")
  /\ UNCHANGED <<consent, campaign, ledger, events, jobs, clicks, retries,
                 deaths, mails, forgotten>>

\* ... and queues the campaign, if it did not load it as queued.
RetryRequeue ==
  /\ admin.pc = "requeue"
  /\ IF admin.seen = "queued" THEN UNCHANGED campaign ELSE SetStatus("queued")
  /\ admin' = [admin EXCEPT !.pc = "dispatch"]
  /\ UNCHANGED <<consent, recipient, ledger, events, jobs, clicks, retries,
                 deaths, mails, forgotten, torn>>

AdminDispatches ==
  /\ admin.pc = "dispatch"
  /\ Enqueue("dispatch")
  /\ admin' = IdleAdmin
  /\ UNCHANGED <<rows, dispatcher, reconciler, ingestor, clicks, retries, deaths,
                 mails, forgotten, torn>>

AdminDies ==
  /\ deaths < MaxDeaths
  /\ deaths' = deaths + 1
  /\ admin.pc # "idle"
  /\ forgotten' = (forgotten \/ admin.pc \in {"requeue", "dispatch"})
  /\ admin' = IdleAdmin
  /\ UNCHANGED <<rows, jobs, clicks, retries, mails, torn>>

-----------------------------------------------------------------------------
DispatchSteps(d) ==
  \/ \E try \in {1, 2} : DispatchStarts(d, try)
  \/ SafetyCancel(d) \/ Claim(d) \/ Reload(d) \/ Check(d) \/ Send(d) \/ Record(d)
  \/ WrapUp(d) \/ DispatchPauses(d) \/ DispatchEnds(d)

ReconcileSteps ==
  \/ \E try \in {1, 2} : TakeReconcile(try)
  \/ Count \/ Defer \/ Total \/ Complete \/ SettleConsume \/ SettleRelease

IngestSteps == Apply \/ Guard \/ IngestPauses

\* A request that has loaded the campaign goes on.
AdminSteps ==
  \/ PauseWrite \/ CancelWrite \/ ResumeWrite
  \/ RetryReset \/ RetryRequeue \/ AdminDispatches

Reported(r, kind) == \E n \in 1..(1 + MaxRetries) : Ingest(r, kind, n)

Next ==
  \/ CampaignAges \/ ConsentExpires \/ RevokeConsent
  \/ \E d \in Dispatcher : DispatchSteps(d) \/ DispatcherDies(d)
  \/ ReconcileSteps \/ ReconcilerDies
  \/ \E r \in Recipient, kind \in EventKind : Reported(r, kind)
  \/ IngestSteps \/ IngestorDies
  \/ PauseRead \/ CancelRead \/ ResumeRead \/ RetryRead
  \/ AdminSteps \/ AdminDies

Spec == Init /\ [][Next]_vars

\* Processes go on with what they have begun and take what is queued, requests
\* end, and time passes.
FairSpec ==
  /\ Spec
  /\ \A d \in Dispatcher : WF_vars(DispatchSteps(d))
  /\ WF_vars(ReconcileSteps)
  /\ WF_vars(IngestSteps)
  /\ WF_vars(AdminSteps)
  /\ WF_vars(CampaignAges)

-----------------------------------------------------------------------------
(* Properties. *)

Row == [status : RecipientStatus, attempts : Nat]
DispatcherPC == {"idle", "cancel", "claim", "reload", "check", "send", "accepted",
                 "threw", "wrapup", "pause", "next"}
DispatcherState ==
  [pc : DispatcherPC,
   try : {1, 2},
   batch : SUBSET Recipient,
   mail : Recipient \cup {NoRecipient}]
ReconcilerState ==
  [pc : {"idle", "count", "defer", "total", "complete", "consume", "release"},
   try : {1, 2}, started : BOOLEAN, used : 0..Reserved]
IngestorState ==
  [pc : {"idle", "apply", "guard", "pause"},
   recipient : Recipient \cup {NoRecipient},
   kind : EventKind \cup {"none"}, seen : RecipientStatus]
AdminState ==
  [pc : {"idle", "pause", "cancel", "resume", "reset", "requeue", "dispatch"},
   ids : SUBSET Recipient, seen : CampaignStatus]

\* The types of the rows, the jobs and the requests; a ledger entry is a number
\* of credits within the reservation (the columns of the SG6 migrations).
TypeOK ==
  /\ consent \in {"approved", "ended"}
  /\ campaign \in [status : CampaignStatus, started : {"never", "fresh", "old"}]
  /\ recipient \in [Recipient -> Row]
  /\ ledger \in [consume : NoEntry..Reserved, release : NoEntry..Reserved]
  /\ events \subseteq Recipient \X EventKind \X Nat
  /\ queue \in [Lane \X {1, 2} -> Nat]
  /\ dispatcher \in [Dispatcher -> DispatcherState]
  /\ reconciler \in ReconcilerState
  /\ ingestor \in IngestorState
  /\ admin \in AdminState
  /\ clicks \in Nat /\ retries \in Nat /\ deaths \in Nat
  /\ sent \in [Recipient -> Nat]
  /\ late \in [Dispatcher -> Nat]
  /\ forgotten \in BOOLEAN
  /\ torn \in BOOLEAN

\* A recipient gets at most one message more than the administrator asked for
\* retries, although a dispatch job may run twice, beside another, and die
\* between a message and its record (DispatchSeedSendCampaignJob claims before
\* it sends and never takes a claim back).
MailsBounded == \A r \in Recipient : sent[r] <= 1 + retries

\* Once the consent has ended a dispatching process sends at most the one
\* message it had already checked the consent for (test_dispatch_stops_
\* immediately_when_consent_is_revoked_mid_run).
LateMailsBounded == \A d \in Dispatcher : late[d] <= 1

\* The ledger of an ended campaign accounts for every reserved credit once and
\* charges every recipient a message went to, unless the settlement was cut
\* short or counted in the middle of a retry.
LedgerSettled ==
  /\ campaign.status \in Ended
  /\ reconciler.pc \notin {"consume", "release"}
  /\ ~torn
  =>
  /\ ledger.consume + ledger.release = Reserved
  /\ Cardinality({r \in Recipient : sent[r] > 0}) <= ledger.consume

\* A recorded delivery or bounce is not undone by a dispatching process that
\* returns late, a cancellation or a reconciliation: only by another event, or
\* by a retry that had selected the recipient before.
OutcomeSurvives ==
  [][\A r \in Recipient :
       recipient[r].status \in {"delivered", "bounced"} =>
         \/ recipient'[r].status = recipient[r].status
         \/ ingestor.pc = "apply" /\ ingestor.recipient = r
         \/ admin.pc = "reset" /\ r \in admin.ids]_vars

\* An active campaign has a job that will carry it on: queued, being worked on,
\* or about to be queued by the administrator's request.  The exceptions are
\* jobs the queue gave up, a request that died, and the dispatch job that found
\* its whole batch taken away.
Driven ==
  campaign.status \in Active /\ ~forgotten =>
    \/ \E job \in Lane \X {1, 2} : queue[job] > 0
    \/ \E d \in Dispatcher : dispatcher[d].pc # "idle"
    \/ reconciler.pc # "idle"
    \/ admin.pc = "dispatch"

\* A campaign does not stay active for ever: it is completed, cancelled or
\* paused in the end, with the exceptions of Driven.
EventuallyAtRest ==
  campaign.status \in Active ~> (campaign.status \notin Active \/ forgotten)
=============================================================================
