--------------------------- MODULE McpRefundWorld ---------------------------
(***************************************************************************)
(* The MCP refund case around one perturbed trial: the preflight session,  *)
(* the world from its provisioning to its removal, the schedule of         *)
(* LostResult whose subject calls the refund tool of a server process      *)
(* (_mcp_refund_comparison.py), the server's SQLite transaction, statement *)
(* by statement (_mcp_refund_server.py, _mcp_refund_store.py), and the     *)
(* observer, whose three SELECTs are three transactions.  The client's     *)
(* sessions are those of McpSession.  The server runs beside the harness:  *)
(* it may be slow, hang, fail or exit anywhere, and the client may give up *)
(* on it at any moment.                                                    *)
(***************************************************************************)
EXTENDS McpSession, ReportableTrial

CONSTANTS Payment,  \* what the payment can still refund
          Amounts   \* what a trial's command may ask to refund

RefundEvent == [id: Nat, amount: Amounts, key: {OpKey, None}]
RefundReceipt == [id: Nat, amount: Amounts]
Observation == [refunded: Nat, keys: {0, 1}, history: Seq(RefundEvent)]
Database == [refunded: Nat, events: Seq(RefundEvent),
             receipt: RefundReceipt \cup {None}, deliveries: Nat]

ASSUME McpRefundAssumption ==
    /\ Payment \in Nat /\ Amounts \subseteq Nat
    /\ None \notin {OpKey} \cup Nat \cup RefundReceipt \cup Observation \cup Database

VARIABLES
    mode, amount,   \* the server's --mode and the command's amount
    variants,       \* the server variants of the preflight and of the world
    world,          \* how far provisioning and cleanup have come
    resources,      \* the ExitStack: what is entered and not yet closed
    db,             \* the committed database
    txn,            \* the server's open transaction, None if there is none
    server,         \* the statement of commit_refund, "idle" outside of it
    answer,         \* the receipt commit_refund returned, until it is sent
    wire,           \* the stdio pipes: a request, a reply, or nothing
    call,           \* the client's call_tool: "none", "waiting", "received"
    received,       \* the receipt it returned
    reads, seen,    \* the observer's SELECTs so far and what they read
    deliveries,     \* record.deliveries: how many, None until they are read
    schedule, signal, held, reached, injected, undelivered,  \* of LostResult
    baseline, afterLost, final, subjectResult

storeVars == <<db, txn, server, answer>>
callVars == <<call, received>>
observerVars == <<reads, seen>>
lifecycleVars == <<variants, world, resources, deliveries, sessionVars>>
scheduleVars == <<schedule, signal, held, reached, injected, undelivered,
                  baseline, afterLost, final, subjectResult>>
vars == <<mode, amount, lifecycleVars, storeVars, wire, callVars, observerVars,
          scheduleVars>>

Empty == [kind |-> "empty"]
Request == [kind |-> "request"]
ErrorReply == [kind |-> "error"]
Messages == {Empty, Request, ErrorReply} \cup [kind: {"reply"}, receipt: RefundReceipt]

Schedule == INSTANCE LostResult WITH
    World <- Observation, Result <- RefundReceipt, CrossingBound <- 2

Statements == {"begun", "inserted", "updated", "stored"}

TypeOK ==
    /\ SessionTypeOK
    /\ mode \in {"unsafe", "keyed"} /\ amount \in Amounts
    /\ variants \in [preflight: Variant, world: Variant]
    /\ world \in {"preflight", "preflighting", "refused", "provisioning", "open",
                  "closing", "releasing", "closed", "abandoned"}
    /\ resources \in {<<>>, <<"directory">>, <<"directory", "client">>}
    /\ db \in Database
    /\ txn \in Database \cup {None}
    /\ server \in Statements \cup {"idle", "committed"}
    /\ answer \in RefundReceipt \cup {None}
    /\ wire \in Messages
    /\ call \in {"none", "waiting", "received"}
    /\ received \in RefundReceipt \cup {None}
    /\ reads \in 0..3 /\ seen \in Observation
    /\ deliveries \in Nat \cup {None}
    /\ Schedule!TypeOK

(* The same server is started for the preflight and for the world, or the  *)
(* preflight's is a normal one and the world's then fails.                 *)
Configurations ==
    {[preflight |-> v, world |-> v] : v \in Variant}
        \cup [preflight: {"normal"},
              world: {"startup_exit", "tool_error", "tool_exit", "unstructured", "hang"}]

(* initialize_refund_database and the observation of what it created.      *)
FreshDatabase == [refunded |-> 0, events |-> <<>>, receipt |-> None, deliveries |-> 0]
FreshObservation == [refunded |-> 0, keys |-> 0, history |-> <<>>]

Init ==
    /\ mode \in {"unsafe", "keyed"}
    /\ amount \in Amounts
    /\ variants \in Configurations
    /\ SessionInit
    /\ world = "preflight" /\ resources = <<>>
    /\ db = FreshDatabase /\ txn = None
    /\ server = "idle" /\ answer = None
    /\ wire = Empty /\ call = "none" /\ received = None
    /\ reads = 0 /\ seen = FreshObservation
    /\ deliveries = None
    /\ Schedule!InitController /\ baseline = None

-----------------------------------------------------------------------------
(* preflight(): a session of its own, on os.devnull, before any world.     *)

HarnessKeeps == UNCHANGED <<mode, amount, variants, deliveries, wire, callVars,
                            observerVars, scheduleVars>>

StartPreflight ==
    /\ world = "preflight"
    /\ world' = "preflighting"
    /\ EnterSession(variants.preflight)
    /\ UNCHANGED <<resources, storeVars>> /\ HarnessKeeps

PreflightSession ==
    /\ world = "preflighting"
    /\ \/ Entering \/ Discovering \/ Leaving
       \/ client = "validated" /\ BeginExit
    /\ UNCHANGED <<world, resources, storeVars>> /\ HarnessKeeps

(* Slip: the evidence is taken for a verdict, whatever was raised after it.*)
PreflightForgives ==
    /\ world = "preflighting" /\ client \in {"out", "abandoned"}
    /\ world' = IF failure \in {"no", "cleanup"} THEN "provisioning" ELSE "refused"
    /\ UNCHANGED <<resources, storeVars, sessionVars>> /\ HarnessKeeps

PreflightEnds ==
    /\ world = "preflighting" /\ client \in {"out", "abandoned"}
    /\ world' = IF failure = "no" THEN "provisioning" ELSE "refused"
    /\ UNCHANGED <<resources, storeVars, sessionVars>> /\ HarnessKeeps

-----------------------------------------------------------------------------
(* provision(): the directory with its database, then the client, whose    *)
(* __enter__ starts the server.  Either may fail; the session then calls   *)
(* cleanup() all the same.                                                 *)

EnterDirectory ==
    /\ world = "provisioning" /\ resources = <<>>
    /\ resources' = <<"directory">>
    /\ UNCHANGED <<world, storeVars, sessionVars>> /\ HarnessKeeps

StartClient ==
    /\ world = "provisioning" /\ resources = <<"directory">> /\ failure = "no"
    /\ EnterSession(variants.world)
    /\ UNCHANGED <<world, resources, storeVars>> /\ HarnessKeeps

StartingClient ==
    /\ world = "provisioning"
    /\ Entering \/ Leaving
    /\ UNCHANGED <<world, resources, storeVars>> /\ HarnessKeeps

EnterClient ==
    /\ world = "provisioning" /\ client = "inside"
    /\ resources' = Append(resources, "client")
    /\ world' = "open"
    /\ UNCHANGED <<storeVars, sessionVars>> /\ HarnessKeeps

ProvisionFails ==
    /\ world = "provisioning" /\ client = "out"
    /\ world' = IF failure = "interrupt" THEN "abandoned" ELSE "closing"
    /\ UNCHANGED <<resources, storeVars, sessionVars>> /\ HarnessKeeps

-----------------------------------------------------------------------------
(* commit_refund in the server process.                                    *)

ServerKeeps == UNCHANGED <<mode, amount, lifecycleVars, callVars, observerVars,
                           scheduleVars>>

(* BEGIN IMMEDIATE and the delivery row.                                   *)
BeginImmediate ==
    /\ process = "running" /\ serves = "normal"
    /\ server = "idle" /\ wire = Request
    /\ server' = "begun"
    /\ txn' = [db EXCEPT !.deliveries = @ + 1]
    /\ wire' = Empty
    /\ UNCHANGED <<db, answer>> /\ ServerKeeps

(* Slip: the receipt is returned, and the connection left uncommitted.     *)
AnswerUncommitted(receipt) ==
    /\ txn' = None
    /\ server' = "committed" /\ answer' = receipt
    /\ UNCHANGED <<db, wire>> /\ ServerKeeps

CommitTransaction(receipt) ==
    /\ db' = txn /\ txn' = None
    /\ server' = "committed" /\ answer' = receipt
    /\ UNCHANGED wire /\ ServerKeeps

Stored == mode = "keyed" /\ txn.receipt # None
Acceptable == amount > 0 /\ txn.refunded + amount <= Payment

(* Slip: a stored receipt is returned without a commit.                    *)
ReturnStoredUncommitted ==
    /\ server = "begun" /\ Stored
    /\ server' = "committed" /\ answer' = txn.receipt /\ txn' = None
    /\ UNCHANGED <<db, wire>> /\ ServerKeeps

ReturnStored ==
    /\ server = "begun" /\ Stored
    /\ CommitTransaction(txn.receipt)

(* Slip: the identity is counted before the refund it names.               *)
InsertEventMiscounted ==
    /\ server = "begun" /\ ~Stored /\ Acceptable /\ server' = "inserted"
    /\ txn' = [txn EXCEPT !.events = Append(@,
                   [id |-> Len(@), amount |-> amount,
                    key |-> IF mode = "keyed" THEN OpKey ELSE None])]
    /\ UNCHANGED <<db, answer, wire>> /\ ServerKeeps

InsertEvent ==
    /\ server = "begun" /\ ~Stored /\ Acceptable
    /\ server' = "inserted"
    /\ txn' = [txn EXCEPT !.events = Append(@,
                   [id |-> Len(@) + 1, amount |-> amount,
                    key |-> IF mode = "keyed" THEN OpKey ELSE None])]
    /\ UNCHANGED <<db, answer, wire>> /\ ServerKeeps

(* Slip: SET refunded_minor_units to the amount, not to the sum.           *)
OverwritePayment ==
    /\ server = "inserted" /\ server' = "updated"
    /\ txn' = [txn EXCEPT !.refunded = amount]
    /\ UNCHANGED <<db, answer, wire>> /\ ServerKeeps

UpdatePayment ==
    /\ server = "inserted"
    /\ server' = "updated"
    /\ txn' = [txn EXCEPT !.refunded = @ + amount]
    /\ UNCHANGED <<db, answer, wire>> /\ ServerKeeps

NewReceipt == [id |-> Len(txn.events), amount |-> amount]

(* Slip: the key's receipt is not stored.                                  *)
SkipReceipt ==
    /\ server = "updated" /\ mode = "keyed" /\ server' = "stored"
    /\ UNCHANGED <<txn, db, answer, wire>> /\ ServerKeeps

StoreReceipt ==
    /\ server = "updated" /\ mode = "keyed"
    /\ server' = "stored"
    /\ txn' = [txn EXCEPT !.receipt = NewReceipt]
    /\ UNCHANGED <<db, answer, wire>> /\ ServerKeeps

CommitRefund ==
    /\ server = IF mode = "keyed" THEN "stored" ELSE "updated"
    /\ CommitTransaction(NewReceipt)

(* A refused refund, or a statement that fails, leaves the connection's    *)
(* with block: everything is rolled back, the delivery row included, and   *)
(* the tool returns an error.                                              *)
RollBack ==
    /\ txn' = None /\ server' = "idle" /\ wire' = ErrorReply
    /\ UNCHANGED <<db, answer>> /\ ServerKeeps

Refuse == server = "begun" /\ ~Stored /\ ~Acceptable /\ RollBack
StatementFails == server \in Statements /\ RollBack

Reply ==
    /\ server = "committed"
    /\ server' = "idle" /\ wire' = [kind |-> "reply", receipt |-> answer] /\ answer' = None
    /\ UNCHANGED <<db, txn>> /\ ServerKeeps

(* What the other variants that get past a preflight answer, if they do:   *)
(* an error, or no structured content, of which the client makes one.      *)
EffectlessAnswers(variant) ==
    IF variant \in {"tool_error", "unstructured"} THEN {ErrorReply} ELSE {}

AnswerWithoutEffect ==
    /\ process = "running" /\ server = "idle" /\ wire = Request
    /\ wire' \in EffectlessAnswers(serves)
    /\ UNCHANGED <<db, txn, server, answer>> /\ ServerKeeps

(* The process is gone: SQLite rolls back what it had not committed.       *)
StopServer == server' = "idle" /\ txn' = None /\ answer' = None

ServerExits ==
    /\ ProcessExits
    /\ StopServer
    /\ UNCHANGED <<mode, amount, variants, world, resources, deliveries, db, wire,
                   callVars, observerVars, scheduleVars>>

-----------------------------------------------------------------------------
(* invoke(): call_tool, then deliver_result of the receipt it returned.    *)

ClientKeeps == UNCHANGED <<mode, amount, lifecycleVars, storeVars, observerVars>>

CallTool ==
    /\ world = "open" /\ Schedule!Invoking /\ call = "none"
    /\ call' = "waiting" /\ wire' = Request
    /\ UNCHANGED <<received, scheduleVars>> /\ ClientKeeps

ReceiveReply ==
    /\ call = "waiting" /\ wire.kind = "reply"
    /\ call' = "received" /\ received' = wire.receipt /\ wire' = Empty
    /\ Schedule!Deliver(Schedule!CurrentAttempt, wire.receipt)
    /\ ClientKeeps

(* Slip: the session is opened without read_timeout_seconds.               *)
CallRaisesWithoutTimeout ==
    /\ call = "waiting" /\ (wire = ErrorReply \/ process = "exited")
    /\ call' = "none" /\ UNCHANGED <<received, wire>>
    /\ Schedule!SubjectRaises
    /\ ClientKeeps

(* An error reply, a server that is gone, or read_timeout_seconds: the     *)
(* late answer to a call the client gave up on is never read.              *)
CallRaises ==
    /\ call = "waiting"
    /\ call' = "none" /\ UNCHANGED <<received, wire>>
    /\ Schedule!SubjectRaises
    /\ ClientKeeps

(* deliver_result raised the loss, which invoke() lets pass, or returned.  *)
InvokeEnds ==
    /\ call = "received"
    /\ call' = "none" /\ received' = None
    /\ Schedule!LossPropagates \/ Schedule!SecondReturns(received)
    /\ UNCHANGED wire /\ ClientKeeps

-----------------------------------------------------------------------------
(* observe_refunds: SELECTs outside a transaction, each of them reading    *)
(* what is committed when it runs.                                         *)

Observing == world = "open" /\ schedule \in {"baseline", "observe_lost", "observe_final"}

Select ==
    /\ Observing /\ reads < 3
    /\ reads' = reads + 1
    /\ seen' = CASE reads = 0 -> [seen EXCEPT !.refunded = db.refunded]
                 [] reads = 1 -> [seen EXCEPT !.keys = IF db.receipt = None THEN 0 ELSE 1]
                 [] reads = 2 -> [seen EXCEPT !.history = db.events]
    /\ UNCHANGED <<scheduleVars, callVars, wire, mode, amount, lifecycleVars, storeVars>>

Observe ==
    /\ Observing /\ reads = 3
    /\ \/ baseline' = seen /\ Schedule!RecordBaseline
       \/ afterLost' = seen /\ Schedule!ObserveLost
       \/ final' = seen /\ Schedule!ObserveFinal
    /\ reads' = 0 /\ UNCHANGED seen
    /\ UNCHANGED <<callVars, wire, mode, amount, lifecycleVars, storeVars>>

ObserverRaises ==
    /\ Observing
    /\ Schedule!ObserverRaises
    /\ reads' = 0 /\ UNCHANGED seen
    /\ UNCHANGED <<callVars, wire, mode, amount, lifecycleVars, storeVars>>

Interrupt ==
    /\ world = "open"
    /\ Schedule!Interrupt
    /\ call' = "none" /\ reads' = 0
    /\ UNCHANGED <<received, seen, wire, mode, amount, lifecycleVars, storeVars>>

-----------------------------------------------------------------------------
(* cleanup(): the deliveries are read while the server still runs, then    *)
(* the resources are closed, last in, first out.                           *)

CleanupKeeps == UNCHANGED <<mode, amount, variants, callVars, observerVars, scheduleVars>>

LeaveWorld ==
    /\ world = "open" /\ schedule \in Schedule!Outcomes
    /\ world' = "closing"
    /\ UNCHANGED <<resources, deliveries, storeVars, wire, sessionVars>> /\ CleanupKeeps

ReadDeliveries ==
    /\ world = "closing"
    /\ world' = "releasing"
    /\ deliveries' \in IF resources = <<>> THEN {None} ELSE {db.deliveries, None}
    /\ UNCHANGED <<resources, storeVars, wire, sessionVars>> /\ CleanupKeeps

Releasing(resource) ==
    world = "releasing" /\ resources # <<>> /\ Last(resources) = resource

(* The client's __exit__ ends its server, wherever that is in its work.    *)
ExitClient ==
    /\ Releasing("client")
    /\ BeginExit \/ Leaving
    /\ IF process = "running" /\ process' = "none"
       THEN StopServer /\ wire' = Empty /\ UNCHANGED db
       ELSE UNCHANGED <<storeVars, wire>>
    /\ resources' = IF client' = "out" THEN Front(resources) ELSE resources
    /\ UNCHANGED <<world, deliveries>> /\ CleanupKeeps

(* A removal that raises ends in the cleanup's error, like a failed close, *)
(* and the ExitStack holds the directory no longer.                        *)
RemoveDirectory ==
    /\ Releasing("directory")
    /\ resources' = Front(resources)
    /\ failure' \in {failure, "cleanup"}
    /\ UNCHANGED <<world, deliveries, storeVars, wire, client, stack, process, serves>>
    /\ CleanupKeeps

Closed ==
    /\ world = "releasing" /\ resources = <<>>
    /\ world' = "closed"
    /\ UNCHANGED <<resources, deliveries, storeVars, wire, sessionVars>> /\ CleanupKeeps

(* An interrupt of preflight, of provisioning, whose rollback is skipped,  *)
(* or of the client's __exit__.                                            *)
InterruptSessions ==
    /\ \/ world = "preflighting" /\ InterruptSession /\ UNCHANGED world
       \/ world = "provisioning" /\ client = "rollback" /\ InterruptSession /\ UNCHANGED world
       \/ /\ world = "provisioning" /\ client # "rollback"
          /\ world' = "abandoned" /\ UNCHANGED sessionVars
       \/ /\ Releasing("client") /\ client = "closing"
          /\ InterruptSession /\ UNCHANGED world
    /\ UNCHANGED <<resources, storeVars>> /\ HarnessKeeps

Preflight == StartPreflight \/ PreflightSession \/ PreflightEnds
Provisioning == \/ EnterDirectory \/ StartClient \/ StartingClient \/ EnterClient
                \/ ProvisionFails
Server == \/ BeginImmediate \/ ReturnStored \/ InsertEvent \/ UpdatePayment
          \/ StoreReceipt \/ CommitRefund \/ Refuse \/ StatementFails \/ Reply
          \/ AnswerWithoutEffect
Client == CallTool \/ ReceiveReply \/ CallRaises \/ InvokeEnds
Observer == Select \/ Observe \/ ObserverRaises
Cleanup == LeaveWorld \/ ReadDeliveries \/ ExitClient \/ RemoveDirectory \/ Closed

Harness == Preflight \/ Provisioning \/ Client \/ Observer \/ Cleanup

Next == Harness \/ Server \/ ServerExits \/ Interrupt \/ InterruptSessions

Spec == Init /\ [][Next]_vars

(* The harness takes its next statement and its calls time out; nothing is *)
(* assumed of the server, which may hang for ever.                         *)
FairSpec == Spec /\ WF_vars(Harness)

-----------------------------------------------------------------------------
Named(receipt, events) ==
    \E k \in DOMAIN events : /\ events[k].id = receipt.id
                             /\ events[k].amount = receipt.amount

(* Three SELECTs taken beside a running server still make one observation: *)
(* state and history of each agree and overdraw nothing, the baseline is   *)
(* of a fresh world, and each history extends the one before it, which the *)
(* kernel relies on where it takes the difference of two histories.        *)
ObservationsAreSnapshots ==
    /\ \A o \in {baseline, afterLost, final} \ {None} :
           /\ o.refunded = Len(o.history) * amount /\ o.refunded <= Payment
           /\ o.keys = IF mode = "keyed" /\ o.history # <<>> THEN 1 ELSE 0
    /\ baseline # None => baseline = FreshObservation
    /\ afterLost # None => IsPrefix(baseline.history, afterLost.history)
    /\ final # None => IsPrefix(afterLost.history, final.history)

(* No answer without its effect: a receipt that reached the harness, the   *)
(* one it dropped included, names a refund that is committed and stays     *)
(* so, whatever becomes of the server, and that the next observation sees. *)
ReceiptsNameCommits ==
    /\ undelivered # None => Named(undelivered, db.events)
    /\ subjectResult # None => Named(subjectResult, db.events)
    /\ afterLost # None => Named(undelivered, afterLost.history)
    /\ final # None => Named(subjectResult, final.history)

(* _retry_refund_matches, with the history delta of the clean trial, which *)
(* ran the same subject once: the state after the lost result.             *)
Canonical(events) == [k \in DOMAIN events |-> <<events[k].amount, events[k].key>>]

Delta(from, to) == SubSeq(to.history, Len(from.history) + 1, Len(to.history))

RetryRefundMatches ==
    LET clean == Delta(baseline, afterLost)
        perturbed == Delta(baseline, final)
    IN  /\ Canonical(clean) = Canonical(perturbed)
        /\ afterLost.refunded - baseline.refunded = amount
        /\ final.refunded - baseline.refunded = amount
        /\ Len(perturbed) = 1
        /\ subjectResult.id = perturbed[1].id
        /\ subjectResult.amount = amount

(* _clean_refund_matches *)
CleanRefundMatches(from, to, result) ==
    LET delta == Delta(from, to)
    IN  /\ Len(delta) = 1
        /\ delta[1].id = result.id
        /\ delta[1].amount = amount /\ result.amount = amount
        /\ to.refunded - from.refunded = amount

(* The case tells its two subjects apart: a trial that completes has       *)
(* contradicted the unsafe one and not the keyed one, no matter what the   *)
(* server and its timing did; and what it compares with is a clean refund. *)
VerdictsTellSubjectsApart ==
    schedule = "completed" =>
        /\ RetryRefundMatches <=> mode = "keyed"
        /\ CleanRefundMatches(baseline, afterLost, undelivered)

(* The world is taken down in the right order: no server, and so no        *)
(* transaction, outlives its database, unless a close was interrupted or   *)
(* raised and the trial is told so; a closed world holds no resource any   *)
(* more, though a removal that raised may leave the database on the disk;  *)
(* and the delivery rows that cleanup read cover every answered attempt.   *)
CloseIsReported == failure \in {"startup_rollback", "cleanup", "interrupt"}

ServerNeverOutlivesDatabase ==
    /\ world \in {"open", "closing", "releasing", "closed"}
           /\ (process # "none" \/ txn # None) /\ "directory" \notin {resources[k] : k \in DOMAIN resources}
               => CloseIsReported
    /\ client = "out" /\ process # "none" => CloseIsReported
    /\ world = "closed" => resources = <<>> /\ client = "out"
    /\ deliveries # None => deliveries >= Len(reached)

(* Worlds come after a preflight that passed, which takes more than a tool *)
(* with the right contract: its session was closed without an error, and   *)
(* so its process is gone before a database exists.  Everything else ends  *)
(* the evaluation before its first world.                                  *)
WorldsFollowPreflight ==
    /\ world = "provisioning" /\ resources = <<>> => process = "none" /\ stack = <<>>
    /\ world \notin {"preflight", "preflighting", "refused"} =>
           variants.preflight \in {"normal", "tool_error", "tool_exit", "hang"}
    /\ world \in {"preflight", "preflighting", "refused"} =>
           resources = <<>> /\ db = FreshDatabase

(* A report checks the evidence of a trial without the kernel's verdicts,  *)
(* and the two agree: whatever the server and its timing did, the evidence *)
(* of a trial that completed is refused only where the cleanup of its      *)
(* world was reported as an error, and never otherwise.                    *)
PerturbedEvidence ==
    [baseline |-> baseline, afterLost |-> afterLost, final |-> final,
     result |-> subjectResult, undelivered |-> undelivered,
     injected |-> injected, reached |-> reached, deliveries |-> deliveries,
     cleanup |-> IF deliveries # None /\ failure = "no" THEN "pass" ELSE "error"]

ReportsAcceptTrials ==
    world = "closed" /\ schedule = "completed" =>
        /\ CleanTrialIsReportable(
               [baseline |-> baseline, observed |-> afterLost, result |-> undelivered],
               mode, amount)
        /\ PerturbedTrialIsReportable(PerturbedEvidence, mode, amount)
               <=> PerturbedEvidence.cleanup = "pass"

(* The store keeps the promise of the ledger, transaction and all.         *)
Ledger == INSTANCE RefundLedger WITH
    Key <- {OpKey}, Amount <- Amounts, history <- db.events,
    received <- {undelivered, subjectResult} \ {None}

KeepsLedger == Ledger!Spec

(* The world is always taken down, even when the server hangs for ever in  *)
(* whatever it was asked, unless an interrupt keeps it from being rolled   *)
(* back or preflight refuses the case.                                     *)
WorldIsClosed == <>(world \in {"closed", "refused", "abandoned"})
=============================================================================
