------------------------ MODULE McpRefundWorldProofs ------------------------
(***************************************************************************)
(* Theorems about McpRefundWorld, for every payment, amount, server        *)
(* variant and interleaving of the harness with its server.                *)
(***************************************************************************)
EXTENDS McpRefundWorld, SequenceTheorems, TLAPS

-----------------------------------------------------------------------------
(* The values that a trial goes through.                                   *)

Own(k) == [id |-> k, amount |-> amount, key |-> RecordedKey(mode)]
OwnReceipt(k) == [id |-> k, amount |-> amount]

Refunds(n) == IF n = 0 THEN <<>> ELSE IF n = 1 THEN <<Own(1)>> ELSE <<Own(1), Own(2)>>
Total(n) == IF n = 0 THEN 0 ELSE IF n = 1 THEN amount ELSE amount + amount

(* The database after n refunds and d deliveries, and what is seen of it.  *)
Holding(n, d) ==
    [refunded |-> Total(n), events |-> Refunds(n),
     receipt |-> IF mode = "keyed" /\ n > 0 THEN OwnReceipt(1) ELSE None,
     deliveries |-> d]

Showing(n) ==
    [refunded |-> Total(n), keys |-> IF mode = "keyed" /\ n > 0 THEN 1 ELSE 0,
     history |-> Refunds(n)]

(* The refunds before and after the attempt that is under way or, in the   *)
(* second case, was the last; an attempt is over when its loss is injected.*)
Base == IF injected = None THEN 0 ELSE 1
Top == IF mode = "keyed" THEN 1 ELSE Base + 1

Before == Holding(Base, Base)
After == Holding(Top, Base + 1)

-----------------------------------------------------------------------------
(* The server: what it has committed, and what its transaction holds.      *)

Inserting ==
    [refunded |-> IF server = "inserted" THEN Total(Base) ELSE Total(Base + 1),
     events |-> Refunds(Base + 1),
     receipt |-> IF server = "stored" THEN OwnReceipt(1) ELSE None,
     deliveries |-> Base + 1]

TransactionInv ==
    /\ server \in Statements \cup {"idle", "committed"}
    /\ server \notin Statements => txn = None
    /\ server = "begun" => txn = Holding(Base, Base + 1)
    /\ server \in {"inserted", "updated", "stored"} =>
           /\ txn = Inserting
           /\ mode = "keyed" => Base = 0
           /\ Total(Base + 1) <= Payment
    /\ server = "stored" => mode = "keyed"
    /\ answer = IF server = "committed" THEN OwnReceipt(Top) ELSE None
    /\ process # "running" => server = "idle"

StoreInv ==
    /\ db \in {Before, After} /\ db.refunded <= Payment
    /\ wire \in {Empty, Request, ErrorReply, [kind |-> "reply", receipt |-> OwnReceipt(Top)]}
    /\ server # "idle" => wire = Empty
    /\ wire = Request \/ server \in Statements => db = Before
    /\ wire.kind = "reply" \/ server = "committed" => db = After
    /\ wire # Empty \/ server # "idle" => reached # <<1, 2>>

(* Nothing is under way between the client and its server.                 *)
Quiet == server = "idle" /\ wire = Empty

-----------------------------------------------------------------------------
(* The harness: what it was delivered and has observed, and where it is.   *)

EvidenceInv ==
    /\ injected \in {None, 1}
    /\ undelivered = IF injected = None THEN None ELSE OwnReceipt(1)
    /\ reached \in IF injected = None THEN {<<>>} ELSE {<<1>>, <<1, 2>>}
    /\ reached = <<1, 2>> => db = After
    /\ subjectResult = None \/ (subjectResult = OwnReceipt(Top) /\ reached = <<1, 2>>)
    /\ baseline \in {None, Showing(0)} /\ (injected # None => baseline # None)
    /\ afterLost = None \/ (afterLost = Showing(1) /\ injected # None)
    /\ final = None \/ (final = Showing(Top) /\ subjectResult # None /\ afterLost # None)

ScheduleInv ==
    /\ schedule \in {"baseline", "first", "observe_lost", "second", "observe_final",
                     "completed", "raised", "interrupted"}
    /\ call \in {"none", "waiting", "received"}
    /\ call # "none" => Schedule!Invoking
    /\ schedule \in {"baseline", "observe_lost"} \/ (Schedule!Invoking /\ call = "none") =>
           Quiet /\ db = Before
    /\ schedule = "baseline" \/ (schedule = "first" /\ call # "received") => injected = None
    /\ schedule = "observe_lost" \/ (schedule = "second" /\ call # "received") =>
           reached = <<1>>
    /\ call = "received" => IF schedule = "first"
                            THEN received = OwnReceipt(1) /\ reached = <<1>> /\ Quiet /\ db = Before
                            ELSE received = OwnReceipt(Top) /\ reached = <<1, 2>>
    /\ signal = IF schedule = "first" /\ call = "received" THEN "lost" ELSE "none"
    /\ schedule \in {"observe_final", "completed"} => subjectResult # None
    /\ schedule \in {"first", "observe_lost", "second", "observe_final", "completed"}
           => baseline # None
    /\ schedule \in {"second", "observe_final", "completed"} => afterLost # None
    /\ schedule = "completed" => final # None

ObserverInv ==
    /\ reads \in 0..3
    /\ seen \in Observation
    /\ reads > 0 => Observing
    /\ reads >= 1 => seen.refunded = db.refunded
    /\ reads >= 2 => seen.keys = IF db.receipt = None THEN 0 ELSE 1
    /\ reads = 3 => seen.history = db.events

DeliveriesInv ==
    /\ deliveries = None \/ (deliveries \in Nat /\ deliveries >= Len(reached))
    /\ deliveries # None => world \in {"releasing", "closed"}
    /\ schedule = "completed" => deliveries \in {None, 2}

-----------------------------------------------------------------------------
(* The sessions of the client, and the world around them.                  *)

Stacks == {<<>>, <<"stderr">>, <<"stderr", "portal">>, <<"stderr", "portal", "process">>,
           Contexts}

SessionInv ==
    /\ client \in {"out", "entering", "rollback", "inside", "listing",
                   "validated", "closing", "abandoned"}
    /\ stack \in Stacks
    /\ process \in {"none", "running", "exited"}
    /\ serves \in Variant /\ failure \in Failure
    /\ client = "out" => stack = <<>>
    /\ client = "abandoned" => failure = "interrupt"
    /\ client \in {"entering", "inside", "listing", "validated"} => failure = "no"
    /\ client = "rollback" => failure # "no"
    /\ process # "none" => Len(stack) >= 3 \/ CloseIsReported

Passing == {"normal", "tool_error", "tool_exit", "hang"}

PreflightInv ==
    /\ variants.preflight \in Variant /\ variants.world \in Variant
    /\ world = "preflight" => client = "out" /\ process = "none"
    /\ world = "preflighting" =>
           /\ serves = variants.preflight
           /\ client = "inside" => serves # "startup_exit"
           /\ client = "listing" => serves \notin {"startup_exit", "no_tools"}
           /\ client = "validated" \/ (client \in {"closing", "out"} /\ failure = "no")
                  => serves \in Passing
    /\ world \notin {"preflight", "preflighting", "refused"} => variants.preflight \in Passing

WorldInv ==
    /\ world \in {"preflight", "preflighting", "refused", "provisioning", "open",
                  "closing", "releasing", "closed", "abandoned"}
    /\ resources \in {<<>>, <<"directory">>, <<"directory", "client">>}
    /\ world \in {"preflight", "preflighting", "refused"} => resources = <<>>
    /\ world = "provisioning" => resources # <<"directory", "client">>
    /\ world = "provisioning" /\ resources = <<>> => client = "out" /\ failure = "no"
    /\ world = "open" => resources = <<"directory", "client">>
    /\ world \in {"open", "closing"} /\ resources = <<"directory", "client">> =>
           client = "inside"
    /\ world \in {"closing", "releasing"} /\ resources # <<"directory", "client">> =>
           client = "out"
    /\ world = "closed" => resources = <<>> /\ client = "out"
    /\ world \in {"preflight", "preflighting", "refused", "provisioning", "abandoned"} =>
           schedule = "baseline" /\ baseline = None
    /\ schedule \notin {"baseline", "completed", "raised", "interrupted"} => world = "open"

TrialInv ==
    /\ mode \in {"unsafe", "keyed"} /\ amount \in Amounts
    /\ TransactionInv /\ StoreInv
    /\ EvidenceInv /\ ScheduleInv /\ ObserverInv /\ DeliveriesInv
    /\ SessionInv /\ PreflightInv /\ WorldInv

-----------------------------------------------------------------------------
(* The values, and the stack of contexts.                                  *)

LEMMA FrontOfAppend ==
    ASSUME NEW S, NEW s \in Seq(S), NEW e \in S
    PROVE  Front(Append(s, e)) = s /\ Last(Append(s, e)) = e
BY DEF Front, Last

ContextNames == {"stderr", "portal", "process", "session"}
ResourceNames == {"directory", "client"}

LEMMA StackFacts ==
    ASSUME NEW s \in Stacks
    PROVE  /\ s # <<>> => /\ Front(s) \in Stacks /\ Len(Front(s)) = Len(s) - 1
                          /\ Last(s) = "process" <=> Len(s) = 3
           /\ s # Contexts => /\ Append(s, Contexts[Len(s) + 1]) \in Stacks
                              /\ Len(Append(s, Contexts[Len(s) + 1])) = Len(s) + 1
                              /\ Contexts[Len(s) + 1] = "process" <=> Len(s) = 2
           /\ Len(s) \in 0..4
           /\ Len(s) = 0 <=> s = <<>>
<1> DEFINE One == <<"stderr">>
           Two == <<"stderr", "portal">>
           Three == <<"stderr", "portal", "process">>
<1>1. {"stderr", "portal", "process", "session"} \subseteq ContextNames
  BY DEF ContextNames
<1>2. /\ One = Append(<<>>, "stderr") /\ Two = Append(One, "portal")
      /\ Three = Append(Two, "process") /\ Contexts = Append(Three, "session")
  BY DEF Contexts
<1>3. /\ <<>> \in Seq(ContextNames) /\ One \in Seq(ContextNames)
      /\ Two \in Seq(ContextNames) /\ Three \in Seq(ContextNames)
  BY <1>1
<1>4. /\ Len(<<>>) = 0 /\ Len(One) = 1 /\ Len(Two) = 2 /\ Len(Three) = 3
      /\ Len(Contexts) = 4
      /\ Contexts[1] = "stderr" /\ Contexts[2] = "portal" /\ Contexts[3] = "process"
      /\ Contexts[4] = "session"
      /\ Len(One) = Len(Two) - 1 /\ Len(Three) = Len(Contexts) - 1
      /\ "stderr" # "process" /\ "portal" # "process" /\ "session" # "process"
  BY DEF Contexts
<1>5. Stacks = {<<>>, One, Two, Three, Contexts}
  BY DEF Stacks
<1> HIDE DEF One, Two, Three
<1>6. Front(One) = <<>> /\ Last(One) = "stderr"
  BY <1>1, <1>2, <1>3, FrontOfAppend
<1>7. Front(Two) = One /\ Last(Two) = "portal"
  BY <1>1, <1>2, <1>3, FrontOfAppend
<1>8. Front(Three) = Two /\ Last(Three) = "process"
  BY <1>1, <1>2, <1>3, FrontOfAppend
<1>9. Front(Contexts) = Three /\ Last(Contexts) = "session"
  BY <1>1, <1>2, <1>3, FrontOfAppend
<1>10. CASE s = <<>>
  BY <1>2, <1>4, <1>5, <1>10
<1>11. CASE s = One
  BY <1>2, <1>4, <1>5, <1>6, <1>11
<1>12. CASE s = Two
  <2>1. Last(s) # "process" /\ Len(s) # 3
    BY <1>4, <1>7, <1>12
  <2>2. Front(s) \in Stacks /\ Len(Front(s)) = Len(s) - 1
    BY <1>4, <1>5, <1>7, <1>12
  <2> QED
    BY <1>2, <1>4, <1>5, <1>12, <2>1, <2>2
<1>13. CASE s = Three
  <2>1. Last(s) = "process" /\ Len(s) = 3
    BY <1>4, <1>8, <1>13
  <2>2. Front(s) \in Stacks /\ Len(Front(s)) = Len(s) - 1
    <3>1. Front(s) = Two
      BY <1>8, <1>13
    <3>2. Two \in Stacks
      BY <1>5
    <3>3. Len(Two) = Len(Three) - 1
      BY <1>4
    <3> QED
      BY <1>13, <3>1, <3>2, <3>3, Zenon
  <2> QED
    BY <1>2, <1>4, <1>5, <1>13, <2>1, <2>2
<1>14. CASE s = Contexts
  <2>1. Last(s) # "process" /\ Len(s) # 3
    BY <1>4, <1>9, <1>14
  <2>2. Front(s) \in Stacks /\ Len(Front(s)) = Len(s) - 1
    BY <1>4, <1>5, <1>9, <1>14
  <2> QED
    BY <1>2, <1>4, <1>5, <1>14, <2>1, <2>2
<1> QED
  BY <1>5, <1>10, <1>11, <1>12, <1>13, <1>14

LEMMA ResourceFacts ==
    /\ Front(<<"directory", "client">>) = <<"directory">>
    /\ Front(<<"directory">>) = <<>>
    /\ Last(<<"directory", "client">>) = "client" /\ Last(<<"directory">>) = "directory"
    /\ Append(<<"directory">>, "client") = <<"directory", "client">>
    /\ <<"directory">> # <<"directory", "client">> /\ <<"directory">> # <<>>
    /\ <<"directory", "client">> # <<>>
<1>1. {"directory", "client"} \subseteq ResourceNames
  BY DEF ResourceNames
<1>2. /\ <<"directory">> = Append(<<>>, "directory")
      /\ <<"directory", "client">> = Append(<<"directory">>, "client")
      /\ <<>> \in Seq(ResourceNames) /\ <<"directory">> \in Seq(ResourceNames)
  BY <1>1
<1>3. /\ Front(<<"directory", "client">>) = <<"directory">>
      /\ Last(<<"directory", "client">>) = "client"
  BY <1>1, <1>2, FrontOfAppend
<1>4. Front(<<"directory">>) = <<>> /\ Last(<<"directory">>) = "directory"
  BY <1>1, <1>2, FrontOfAppend
<1>5. /\ <<"directory">> # <<"directory", "client">> /\ <<"directory">> # <<>>
      /\ <<"directory", "client">> # <<>>
  OBVIOUS
<1> QED
  BY <1>2, <1>3, <1>4, <1>5

(* Only these variants list a tool with the schemas of the contract.       *)
LEMMA ContractVariants ==
    ASSUME NEW v \in Variant, SatisfiesToolContract(v)
    PROVE  v \notin {"wrong_schema", "wrong_input_type", "wrong_output_type", "unstructured"}
<1>1. v # "wrong_schema"
  BY DEF SatisfiesToolContract, Provides, ListedInput, InputSchema
<1>2. v # "unstructured"
  BY DEF SatisfiesToolContract, Provides, ListedOutput, OutputSchema
<1>3. v # "wrong_input_type"
  <2>1. <<"amount_minor_units", "integer">> \in InputSchema
    BY DEF InputSchema
  <2>2. <<"amount_minor_units", "integer">> \notin
            Retyped(InputSchema, "amount_minor_units", "string")
    BY DEF Retyped, InputSchema
  <2> QED
    BY <2>1, <2>2 DEF SatisfiesToolContract, Provides, ListedInput
<1>4. v # "wrong_output_type"
  <2>1. <<"amount_minor_units", "integer">> \in OutputSchema
    BY DEF OutputSchema
  <2>2. <<"amount_minor_units", "integer">> \notin
            Retyped(OutputSchema, "amount_minor_units", "string")
    BY DEF Retyped, OutputSchema
  <2> QED
    BY <2>1, <2>2 DEF SatisfiesToolContract, Provides, ListedOutput
<1> QED
  BY <1>1, <1>2, <1>3, <1>4

-----------------------------------------------------------------------------
(* The client's sessions.                                                  *)

LEMMA SessionStep ==
    ASSUME SessionInv,
           \/ \E v \in Variant : EnterSession(v) /\ process = "none"
           \/ Entering \/ Discovering \/ Leaving \/ BeginExit
           \/ InterruptSession \/ ProcessExits \/ UNCHANGED sessionVars
    PROVE  SessionInv'
<1> USE DEF SessionInv, CloseIsReported, Failure
<1>1. CASE \E v \in Variant : EnterSession(v) /\ process = "none"
  BY <1>1 DEF EnterSession
<1>2. CASE Entering
  <2>1. CASE EnterContext
    <3>1. stack \in Stacks /\ stack # Contexts /\ client = "entering"
      BY <2>1 DEF EnterContext
    <3>2. stack' \in Stacks /\ Len(stack') = Len(stack) + 1 /\ Len(stack) \in 0..4
      BY <2>1, <3>1, StackFacts DEF EnterContext
    <3>3. process' = IF Len(stack) = 2 THEN "running" ELSE process
      BY <2>1, <3>1, StackFacts DEF EnterContext
    <3> QED
      BY <2>1, <3>1, <3>2, <3>3 DEF EnterContext
  <2>2. CASE Initialize
    BY <2>2 DEF Initialize
  <2>3. CASE EnterFails
    BY <2>3 DEF EnterFails
  <2> QED
    BY <1>2, <2>1, <2>2, <2>3 DEF Entering
<1>3. CASE Discovering
  BY <1>3 DEF Discovering, CapabilityMissing, RequestTools, AcceptTool, RefuseTool,
              DiscoveryFails, Refuses, ListsTools
<1>4. CASE Leaving
  <2>1. CASE ClosingStack /\ stack' = Front(stack)
    <3>1. /\ stack \in Stacks /\ stack # <<>> /\ client \in {"rollback", "closing"}
          /\ stack' \in Stacks /\ Len(stack') = Len(stack) - 1 /\ Len(stack) \in 0..4
          /\ Last(stack) = "process" <=> Len(stack) = 3
      BY <2>1, StackFacts DEF ClosingStack
    <3>2. CASE CloseContext
      BY <3>1, <3>2 DEF CloseContext
    <3>3. CASE CloseContextFails
      BY <3>1, <3>3 DEF CloseContextFails
    <3> QED
      BY <1>4, <3>1, <3>2, <3>3 DEF Leaving, LeaveSession
  <2>2. CASE LeaveSession
    BY <2>2 DEF LeaveSession
  <2> QED
    BY <1>4, <2>1, <2>2 DEF Leaving, CloseContext, CloseContextFails
<1>5. CASE BeginExit
  BY <1>5 DEF BeginExit
<1>6. CASE InterruptSession
  BY <1>6, StackFacts DEF InterruptSession, ClosingStack, Refuses
<1>7. CASE ProcessExits
  BY <1>7 DEF ProcessExits
<1>8. CASE UNCHANGED sessionVars
  BY <1>8 DEF sessionVars
<1> QED
  BY <1>1, <1>2, <1>3, <1>4, <1>5, <1>6, <1>7, <1>8

-----------------------------------------------------------------------------
(* Steps that leave the harness's data, the store or both alone.           *)

DataInv == TransactionInv /\ StoreInv /\ EvidenceInv /\ ScheduleInv

LEMMA ValuesUntouched ==
    ASSUME UNCHANGED <<mode, amount, injected>>
    PROVE  /\ Base' = Base /\ Top' = Top /\ Before' = Before /\ After' = After
           /\ \A k : Own(k)' = Own(k) /\ OwnReceipt(k)' = OwnReceipt(k)
           /\ \A n : Refunds(n)' = Refunds(n) /\ Total(n)' = Total(n)
           /\ \A n : Showing(n)' = Showing(n)
BY DEF Base, Top, Before, After, Holding, Own, OwnReceipt, Refunds, Total, Showing,
       RecordedKey

LEMMA DataUntouched ==
    ASSUME DataInv,
           UNCHANGED <<mode, amount, storeVars, wire, callVars, scheduleVars>>,
           process' = process \/ server = "idle"
    PROVE  DataInv'
<1> USE DEF storeVars, callVars, scheduleVars, Base, Top, Before, After, Holding, Own,
            OwnReceipt, Refunds, Total, Showing, RecordedKey
<1>1. TransactionInv'
  BY DEF DataInv, TransactionInv, Inserting
<1>2. StoreInv'
  BY DEF DataInv, StoreInv
<1>3. EvidenceInv'
  BY DEF DataInv, EvidenceInv
<1>4. ScheduleInv'
  BY DEF DataInv, ScheduleInv, Schedule!Invoking, Quiet
<1> QED
  BY <1>1, <1>2, <1>3, <1>4 DEF DataInv

LEMMA ObserverUntouched ==
    ASSUME ObserverInv, UNCHANGED <<reads, seen, db, schedule>>, world' = world \/ reads = 0
    PROVE  ObserverInv'
BY DEF ObserverInv, Observing

LEMMA TrialInvInit == Init => TrialInv
<1> SUFFICES ASSUME Init PROVE TrialInv
  OBVIOUS
<1> USE DEF Init, Schedule!InitController
<1>1. SessionInv /\ PreflightInv
  <2>1. variants.preflight \in Variant /\ variants.world \in Variant
    BY DEF Configurations, Variant
  <2> QED
    BY <2>1 DEF SessionInit, SessionInv, PreflightInv, Stacks, Variant, Failure
<1>2. WorldInv
  BY DEF WorldInv
<1>3. /\ Base = 0 /\ Before = FreshDatabase /\ Payment \in Nat
  BY McpRefundAssumption
     DEF Base, Before, Holding, FreshDatabase, Total, Refunds
<1>4. TransactionInv
  BY DEF TransactionInv, SessionInit
<1>5. StoreInv
  BY <1>3 DEF StoreInv, FreshDatabase, Empty, Request
<1>6. EvidenceInv
  BY DEF EvidenceInv
<1>7. ScheduleInv
  BY <1>3 DEF ScheduleInv, Schedule!Invoking, Quiet
<1>8. ObserverInv /\ DeliveriesInv
  BY DEF ObserverInv, DeliveriesInv, FreshObservation, Observation
<1> QED
  BY <1>1, <1>2, <1>4, <1>5, <1>6, <1>7, <1>8 DEF TrialInv

-----------------------------------------------------------------------------
(* The world before it is open, and an interrupt of its sessions.          *)

LEMMA LifecyclePreserves ==
    ASSUME TrialInv, HarnessKeeps, UNCHANGED storeVars,
           world # "open", world' = world \/ world \notin {"releasing", "closed"},
           process' = process \/ schedule = "baseline",
           SessionInv', PreflightInv', WorldInv'
    PROVE  TrialInv'
<1> USE DEF HarnessKeeps
<1>1. reads = 0
  BY DEF TrialInv, ObserverInv, Observing
<1>2. process' = process \/ server = "idle"
  BY DEF TrialInv, ScheduleInv, Quiet
<1>3. DataInv'
  BY <1>2, DataUntouched DEF DataInv, TrialInv
<1>4. ObserverInv'
  BY <1>1, ObserverUntouched DEF TrialInv, observerVars, scheduleVars, storeVars
<1>5. DeliveriesInv'
  BY DEF TrialInv, DeliveriesInv, scheduleVars
<1> QED
  BY <1>3, <1>4, <1>5 DEF TrialInv, DataInv

LEMMA PreflightPreserves ==
    ASSUME TrialInv, Preflight
    PROVE  TrialInv'
<1>1. /\ SessionInv /\ PreflightInv /\ WorldInv /\ schedule = "baseline"
      /\ HarnessKeeps /\ UNCHANGED storeVars
      /\ world \in {"preflight", "preflighting"}
  BY DEF Preflight, StartPreflight, PreflightSession, PreflightEnds, TrialInv, WorldInv
<1>2. UNCHANGED <<variants, schedule, baseline>>
  BY <1>1 DEF HarnessKeeps, scheduleVars
<1>3. CASE StartPreflight
  <2>1. SessionInv'
    BY <1>1, <1>3, SessionStep DEF StartPreflight, PreflightInv
  <2>2. PreflightInv' /\ WorldInv'
    BY <1>1, <1>2, <1>3 DEF StartPreflight, EnterSession, PreflightInv, WorldInv
  <2> QED
    BY <1>1, <2>1, <2>2, LifecyclePreserves
<1>4. CASE PreflightSession
  <2>1. SessionInv'
    BY <1>1, <1>4, SessionStep DEF PreflightSession
  <2>2. serves' = serves
    BY <1>4 DEF PreflightSession, Entering, EnterContext, Initialize, EnterFails,
                Discovering, CapabilityMissing, RequestTools, AcceptTool, RefuseTool,
                DiscoveryFails, Refuses, Leaving, CloseContext, CloseContextFails,
                LeaveSession, BeginExit
  <2>3. /\ client' = "inside" => client = "inside" \/ Initialize
        /\ client' = "listing" => client = "listing" \/ RequestTools
        /\ client' = "validated" => client = "validated" \/ AcceptTool
    BY <1>4 DEF PreflightSession, Entering, EnterContext, Initialize, EnterFails,
                Discovering, CapabilityMissing, RequestTools, AcceptTool, RefuseTool,
                DiscoveryFails, Refuses, Leaving, CloseContext, CloseContextFails,
                LeaveSession, BeginExit
  <2>4. client' \in {"closing", "out"} /\ failure' = "no"
            => client = "validated" \/ (client \in {"closing", "out"} /\ failure = "no")
    BY <1>1, <1>4
       DEF PreflightSession, Entering, EnterContext, Initialize, EnterFails,
           Discovering, CapabilityMissing, RequestTools, AcceptTool, RefuseTool,
           DiscoveryFails, Refuses, Leaving, CloseContext, CloseContextFails,
           LeaveSession, BeginExit, SessionInv
  <2>5. AcceptTool => serves \in Passing
    <3> SUFFICES ASSUME AcceptTool PROVE serves \in Passing
      OBVIOUS
    <3>1. client = "listing" /\ serves \in Variant /\ SatisfiesToolContract(serves)
          /\ serves \notin {"discovery_hang", "discovery_exit"}
      BY <1>1 DEF AcceptTool, ListsTools, SessionInv
    <3>2. serves \notin {"startup_exit", "no_tools"}
      BY <1>1, <1>4, <3>1 DEF PreflightInv, PreflightSession
    <3> QED
      BY <3>1, <3>2, ContractVariants DEF Variant, Passing
  <2>6. PreflightInv'
    BY <1>1, <1>2, <1>4, <2>2, <2>3, <2>4, <2>5
       DEF PreflightSession, PreflightInv, Initialize, RequestTools
  <2>7. WorldInv'
    BY <1>1, <1>2, <1>4 DEF PreflightSession, WorldInv
  <2> QED
    BY <1>1, <1>4, <2>1, <2>6, <2>7, LifecyclePreserves DEF PreflightSession
<1>5. CASE PreflightEnds
  <2>1. SessionInv' /\ UNCHANGED sessionVars
    BY <1>1, <1>5, SessionStep DEF PreflightEnds
  <2>2. failure = "no" => client = "out" /\ serves \in Passing /\ serves = variants.preflight
    BY <1>1, <1>5 DEF PreflightEnds, SessionInv, PreflightInv
  <2>3. PreflightInv' /\ WorldInv'
    BY <1>1, <1>2, <1>5, <2>1, <2>2 DEF PreflightEnds, PreflightInv, WorldInv, sessionVars
  <2> QED
    BY <1>1, <1>5, <2>1, <2>3, LifecyclePreserves DEF PreflightEnds, sessionVars
<1> QED
  BY <1>3, <1>4, <1>5 DEF Preflight

LEMMA ProvisioningPreserves ==
    ASSUME TrialInv, Provisioning
    PROVE  TrialInv'
<1>1. /\ SessionInv /\ PreflightInv /\ WorldInv /\ schedule = "baseline"
      /\ HarnessKeeps /\ UNCHANGED storeVars /\ world = "provisioning"
  BY DEF Provisioning, EnterDirectory, StartClient, StartingClient, EnterClient,
         ProvisionFails, TrialInv, WorldInv
<1>2. UNCHANGED <<variants, schedule, baseline>>
  BY <1>1 DEF HarnessKeeps, scheduleVars
<1>3. CASE EnterDirectory \/ EnterClient \/ ProvisionFails
  <2>1. SessionInv' /\ UNCHANGED sessionVars
    BY <1>1, <1>3, SessionStep DEF EnterDirectory, EnterClient, ProvisionFails
  <2>2. PreflightInv'
    BY <1>1, <1>2, <1>3, <2>1
       DEF EnterDirectory, EnterClient, ProvisionFails, PreflightInv, sessionVars
  <2>3. WorldInv'
    <3>1. CASE EnterDirectory
      BY <1>1, <1>2, <2>1, <3>1, ResourceFacts DEF EnterDirectory, WorldInv, sessionVars
    <3>2. CASE EnterClient
      <4>1. resources' = <<"directory", "client">>
        BY <1>1, <3>2, ResourceFacts DEF EnterClient, WorldInv
      <4> QED
        BY <1>1, <1>2, <2>1, <3>2, <4>1 DEF EnterClient, WorldInv, sessionVars
    <3>3. CASE ProvisionFails
      BY <1>1, <1>2, <2>1, <3>3 DEF ProvisionFails, WorldInv, sessionVars
    <3> QED
      BY <1>3, <3>1, <3>2, <3>3
  <2> QED
    BY <1>1, <2>1, <2>2, <2>3, LifecyclePreserves DEF sessionVars
<1>4. CASE StartClient
  <2>1. process = "none" /\ variants.world \in Variant
    BY <1>1, <1>4, StackFacts
       DEF StartClient, EnterSession, SessionInv, CloseIsReported, PreflightInv
  <2>2. SessionInv'
    BY <1>1, <1>4, <2>1, SessionStep DEF StartClient
  <2>3. PreflightInv' /\ WorldInv'
    BY <1>1, <1>2, <1>4, ResourceFacts DEF StartClient, EnterSession, PreflightInv, WorldInv
  <2> QED
    BY <1>1, <1>4, <2>2, <2>3, LifecyclePreserves DEF StartClient
<1>5. CASE StartingClient
  <2>1. SessionInv'
    BY <1>1, <1>5, SessionStep DEF StartingClient
  <2>2. PreflightInv'
    BY <1>1, <1>2, <1>5 DEF StartingClient, PreflightInv
  <2>3. client # "out"
    BY <1>5 DEF StartingClient, Entering, EnterContext, Initialize, EnterFails, Leaving,
                CloseContext, CloseContextFails, ClosingStack, LeaveSession
  <2>4. WorldInv'
    BY <1>1, <1>2, <1>5, <2>3 DEF StartingClient, WorldInv
  <2> QED
    BY <1>1, <1>5, <2>1, <2>2, <2>4, LifecyclePreserves DEF StartingClient
<1> QED
  BY <1>3, <1>4, <1>5 DEF Provisioning

LEMMA InterruptSessionsPreserves ==
    ASSUME TrialInv, InterruptSessions
    PROVE  TrialInv'
<1>1. /\ SessionInv /\ PreflightInv /\ WorldInv /\ HarnessKeeps
      /\ UNCHANGED <<storeVars, resources, process>>
      /\ world \in {"preflighting", "provisioning", "releasing"}
  BY DEF InterruptSessions, InterruptSession, Refuses, Releasing, sessionVars, TrialInv
<1>2. UNCHANGED <<variants, schedule, baseline>>
  BY <1>1 DEF HarnessKeeps, scheduleVars
<1>3. SessionInv' /\ serves' = serves
  BY <1>1, SessionStep
     DEF InterruptSessions, InterruptSession, Refuses, sessionVars
<1>4. world' = world \/ world \notin {"releasing", "closed"}
  BY DEF InterruptSessions
<1>5. InterruptSession => /\ failure' = "interrupt"
                          /\ client' \notin {"inside", "listing", "validated"}
  BY DEF InterruptSession, Refuses, ClosingStack
<1>6. PreflightInv'
  BY <1>1, <1>2, <1>3, <1>5 DEF InterruptSessions, PreflightInv, Releasing
<1>7. WorldInv'
  BY <1>1, <1>2, <1>5, ResourceFacts
     DEF InterruptSessions, WorldInv, Releasing, InterruptSession
<1> QED
  BY <1>1, <1>3, <1>4, <1>6, <1>7, LifecyclePreserves

-----------------------------------------------------------------------------
(* The server's steps: while they change the store, the harness waits for  *)
(* an answer, or has given up on it.                                       *)

LEMMA StoreStepPreserves ==
    ASSUME TrialInv,
           UNCHANGED <<mode, amount, scheduleVars, callVars, observerVars, variants, world,
                       resources, deliveries, client, serves, failure>>,
           ~Quiet \/ (UNCHANGED <<db, wire>> /\ server' = "idle"),
           TransactionInv', StoreInv', SessionInv', PreflightInv'
    PROVE  TrialInv'
<1> USE DEF scheduleVars, callVars, observerVars
<1>1. /\ EvidenceInv /\ ScheduleInv /\ ObserverInv /\ UNCHANGED <<Base, Top>>
      /\ db' # db => ~Quiet
  BY DEF TrialInv, Base, Top
<1>2. ~Quiet => /\ schedule \notin {"baseline", "observe_lost", "observe_final", "completed"}
                /\ ~(Schedule!Invoking /\ call = "none") /\ call # "received"
                /\ reached # <<1, 2>>
  BY DEF TrialInv, EvidenceInv, ScheduleInv, StoreInv, Quiet, Schedule!Invoking
<1>3. EvidenceInv'
  <2>1. CASE ~Quiet
    BY <1>1, <1>2, <2>1
       DEF EvidenceInv, OwnReceipt, Showing, Total, Refunds, Own, RecordedKey
  <2>2. CASE Quiet
    BY <1>1, <2>2
       DEF EvidenceInv, OwnReceipt, Showing, Total, Refunds, Own, RecordedKey,
           After, Holding, Base, Top
  <2> QED
    BY <2>1, <2>2
<1>4. ScheduleInv'
  <2>1. CASE ~Quiet
    BY <1>1, <1>2, <2>1 DEF ScheduleInv, Schedule!Invoking
  <2>2. CASE Quiet
    BY <1>1, <2>2
       DEF ScheduleInv, Schedule!Invoking, Quiet, Before, Holding, Base, Top,
           OwnReceipt, Total, Refunds, Own, RecordedKey
  <2> QED
    BY <2>1, <2>2
<1>5. ObserverInv'
  BY <1>1, <1>2 DEF ObserverInv, Observing
<1>6. DeliveriesInv' /\ WorldInv'
  BY DEF TrialInv, DeliveriesInv, WorldInv
<1> QED
  BY <1>3, <1>4, <1>5, <1>6 DEF TrialInv

LEMMA PairFacts ==
    ASSUME NEW a, NEW b
    PROVE  /\ Append(<<>>, a) = <<a>> /\ Append(<<a>>, b) = <<a, b>>
           /\ Len(<<a>>) = 1 /\ Len(<<a, b>>) = 2 /\ Len(<<>>) = 0
<1> DEFINE S == {a, b}
<1>1. <<a>> \in Seq(S) /\ <<a, b>> \in Seq(S) /\ b \in S
  OBVIOUS
<1>2. /\ Len(<<a>>) = 1 /\ Len(<<a, b>>) = 2 /\ Len(<<>>) = 0
      /\ <<a>>[1] = a /\ <<a, b>>[1] = a /\ <<a, b>>[2] = b
      /\ Append(<<>>, a) = <<a>>
  OBVIOUS
<1> HIDE DEF S
<1>3. Append(<<a>>, b) \in Seq(S) /\ Len(Append(<<a>>, b)) = 2
  BY <1>1, <1>2
<1>4. \A i \in 1..Len(Append(<<a>>, b)) : Append(<<a>>, b)[i] = <<a, b>>[i]
  BY <1>1, <1>2, <1>3
<1> QED
  BY <1>1, <1>2, <1>3, <1>4, SeqEqual

LEMMA ValueFacts ==
    ASSUME TrialInv
    PROVE  /\ Base \in {0, 1} /\ Payment \in Nat /\ amount \in Nat
           /\ Total(Base + 1) = Total(Base) + amount
           /\ Len(Refunds(Base)) = Base /\ Len(Refunds(Base + 1)) = Base + 1
           /\ Append(Refunds(Base), Own(Base + 1)) = Refunds(Base + 1)
           /\ OwnReceipt(1) # None
<1>1. Base \in {0, 1} /\ Payment \in Nat /\ amount \in Nat /\ amount \in Amounts
  BY McpRefundAssumption DEF Base, TrialInv
<1>2. Total(Base + 1) = Total(Base) + amount
  BY <1>1 DEF Total
<1>3. /\ Len(Refunds(Base)) = Base /\ Len(Refunds(Base + 1)) = Base + 1
      /\ Append(Refunds(Base), Own(Base + 1)) = Refunds(Base + 1)
  <2>1. Len(<<Own(1), Own(2)>>) = 2 /\ Append(<<Own(1)>>, Own(2)) = <<Own(1), Own(2)>>
    BY PairFacts
  <2>2. Len(<<Own(1)>>) = 1 /\ Append(<<>>, Own(1)) = <<Own(1)>> /\ Len(<<>>) = 0
    BY PairFacts
  <2>3. /\ Refunds(0) = <<>> /\ Refunds(1) = <<Own(1)>> /\ Refunds(2) = <<Own(1), Own(2)>>
        /\ 0 + 1 = 1 /\ 1 + 1 = 2
    BY DEF Refunds
  <2> QED
    BY <1>1, <2>1, <2>2, <2>3
<1>4. OwnReceipt(1) # None
  <2>1. OwnReceipt(1) \in RefundReceipt
    BY <1>1 DEF OwnReceipt, RefundReceipt
  <2> QED
    BY <2>1, McpRefundAssumption
<1> QED
  BY <1>1, <1>2, <1>3, <1>4

LEMMA ServerPreserves ==
    ASSUME TrialInv, Server
    PROVE  TrialInv'
<1>1. /\ ServerKeeps /\ ~Quiet
      /\ TransactionInv /\ StoreInv /\ SessionInv /\ PreflightInv
      /\ mode \in {"unsafe", "keyed"} /\ reached # <<1, 2>>
  BY DEF Server, BeginImmediate, ReturnStored, InsertEvent, UpdatePayment, StoreReceipt,
         CommitRefund, CommitTransaction, Refuse, StatementFails, RollBack, Reply,
         AnswerWithoutEffect, Quiet, TrialInv, Statements, StoreInv, Request, Empty
<1>2. /\ UNCHANGED <<mode, amount, scheduleVars, callVars, observerVars, variants, world,
                     resources, deliveries, sessionVars>>
      /\ UNCHANGED <<injected, reached, client, stack, process, serves, failure>>
  BY <1>1 DEF ServerKeeps, lifecycleVars, sessionVars, scheduleVars
<1>3. SessionInv' /\ PreflightInv'
  BY <1>1, <1>2, SessionStep DEF PreflightInv
<1>4. /\ UNCHANGED <<Base, Top, Before, After>>
      /\ \A k : Own(k)' = Own(k) /\ OwnReceipt(k)' = OwnReceipt(k)
      /\ \A n : Refunds(n)' = Refunds(n) /\ Total(n)' = Total(n)
  BY <1>2, ValuesUntouched
<1>5. CASE BeginImmediate
  <2>1. /\ server = "idle" /\ wire = Request /\ server' = "begun" /\ wire' = Empty
        /\ process = "running" /\ UNCHANGED <<db, answer>>
        /\ txn' = [db EXCEPT !.deliveries = @ + 1]
    BY <1>5 DEF BeginImmediate
  <2>2. db = Before /\ Before = Holding(Base, Base)
    BY <1>1, <2>1 DEF StoreInv, Before
  <2>3. txn' = Holding(Base, Base + 1)
    BY <2>1, <2>2 DEF Holding
  <2>4. TransactionInv'
    BY <1>1, <1>2, <1>4, <2>1, <2>3
       DEF TransactionInv, Statements, Holding, Total, Refunds, Own, OwnReceipt, RecordedKey
  <2>5. StoreInv'
    BY <1>1, <1>2, <1>4, <2>1, <2>2 DEF StoreInv, Empty, Request, OwnReceipt
  <2> QED
    BY <1>1, <1>2, <1>3, <2>4, <2>5, StoreStepPreserves
<1>6. CASE ReturnStored
  <2>1. /\ server = "begun" /\ mode = "keyed" /\ txn.receipt # None
        /\ db' = txn /\ txn' = None /\ server' = "committed" /\ answer' = txn.receipt
        /\ wire' = wire
    BY <1>6 DEF ReturnStored, Stored, CommitTransaction
  <2>2. txn = Holding(Base, Base + 1) /\ wire = Empty /\ process = "running"
        /\ db = Holding(Base, Base) /\ db.refunded <= Payment
    BY <1>1, <2>1 DEF TransactionInv, StoreInv, Statements, Before
  <2>3. Base = 1 /\ Top = 1 /\ After = Holding(1, 2)
    BY <2>1, <2>2, ValueFacts DEF Holding, Top, After
  <2>4. db' = After /\ answer' = OwnReceipt(Top) /\ db'.refunded = db.refunded
    BY <2>1, <2>2, <2>3 DEF Holding
  <2>5. TransactionInv'
    BY <1>1, <1>2, <1>4, <2>1, <2>2, <2>4 DEF TransactionInv, Statements, OwnReceipt
  <2>6. StoreInv'
    BY <1>1, <1>2, <1>4, <2>1, <2>2, <2>4 DEF StoreInv, Statements, Empty, Request, OwnReceipt
  <2> QED
    BY <1>1, <1>2, <1>3, <2>5, <2>6, StoreStepPreserves
<1>7. CASE InsertEvent
  <2>1. /\ server = "begun" /\ ~Stored /\ Acceptable /\ server' = "inserted"
        /\ txn' = [txn EXCEPT !.events = Append(@, [id |-> Len(@) + 1, amount |-> amount,
                                                    key |-> RecordedKey(mode)])]
        /\ UNCHANGED <<db, answer, wire>>
    BY <1>7 DEF InsertEvent, RecordedKey
  <2>2. txn = Holding(Base, Base + 1) /\ process = "running"
    BY <1>1, <2>1 DEF TransactionInv, Statements
  <2>3. mode = "keyed" => Base = 0
    BY <2>1, <2>2, ValueFacts DEF Stored, Holding
  <2>4. Total(Base + 1) <= Payment
    BY <2>1, <2>2, ValueFacts DEF Acceptable, Holding
  <2>5. txn' = [refunded |-> Total(Base), events |-> Refunds(Base + 1),
                receipt |-> None, deliveries |-> Base + 1]
    <3>1. [id |-> Len(Refunds(Base)) + 1, amount |-> amount, key |-> RecordedKey(mode)]
              = Own(Base + 1)
      BY ValueFacts DEF Own
    <3>2. txn.events = Refunds(Base) /\ txn.receipt = None
      BY <2>2, <2>3, ValueFacts DEF Holding
    <3>3. txn'.events = Refunds(Base + 1)
      BY <2>1, <2>2, <3>1, <3>2, ValueFacts DEF Holding
    <3> QED
      BY <2>1, <2>2, <3>2, <3>3 DEF Holding
  <2>6. TransactionInv'
    BY <1>1, <1>2, <1>4, <2>1, <2>2, <2>3, <2>4, <2>5
       DEF TransactionInv, Statements, Inserting, Refunds, Total, Own, OwnReceipt,
           RecordedKey
  <2>7. StoreInv'
    BY <1>1, <1>2, <1>4, <2>1 DEF StoreInv, Statements, Empty, Request, OwnReceipt
  <2> QED
    BY <1>1, <1>2, <1>3, <2>6, <2>7, StoreStepPreserves
<1>8. CASE UpdatePayment \/ StoreReceipt
  <2>1. /\ server \in {"inserted", "updated"} /\ UNCHANGED <<db, answer, wire>>
        /\ server' \in {"updated", "stored"}
        /\ server' = "stored" => mode = "keyed"
        /\ process = "running" /\ txn = Inserting
        /\ mode = "keyed" => Base = 0
        /\ Total(Base + 1) <= Payment
    BY <1>1, <1>8 DEF UpdatePayment, StoreReceipt, TransactionInv
  <2>2. txn' = [refunded |-> Total(Base + 1), events |-> Refunds(Base + 1),
                receipt |-> IF server' = "stored" THEN OwnReceipt(1) ELSE None,
                deliveries |-> Base + 1]
    <3>1. CASE UpdatePayment
      BY <2>1, <3>1, ValueFacts DEF UpdatePayment, Inserting
    <3>2. CASE StoreReceipt
      <4>1. mode = "keyed" /\ Base = 0 /\ server = "updated" /\ server' = "stored"
        BY <2>1, <3>2 DEF StoreReceipt
      <4>2. NewReceipt = OwnReceipt(1)
        BY <2>1, <4>1, ValueFacts DEF NewReceipt, Inserting, OwnReceipt
      <4> QED
        BY <2>1, <3>2, <4>1, <4>2 DEF StoreReceipt, Inserting
    <3> QED
      BY <1>8, <3>1, <3>2
  <2>3. TransactionInv'
    BY <1>1, <1>2, <1>4, <2>1, <2>2
       DEF TransactionInv, Statements, Inserting, Refunds, Total, Own, OwnReceipt,
           RecordedKey
  <2>4. StoreInv'
    BY <1>1, <1>2, <1>4, <2>1 DEF StoreInv, Statements, Empty, Request, OwnReceipt
  <2> QED
    BY <1>1, <1>2, <1>3, <2>3, <2>4, StoreStepPreserves
<1>9. CASE CommitRefund
  <2>1. /\ server = IF mode = "keyed" THEN "stored" ELSE "updated"
        /\ db' = txn /\ txn' = None /\ server' = "committed" /\ answer' = NewReceipt
        /\ wire' = wire
    BY <1>9 DEF CommitRefund, CommitTransaction
  <2>2. /\ txn = Inserting /\ (mode = "keyed" => Base = 0)
        /\ Total(Base + 1) <= Payment /\ process = "running" /\ wire = Empty
    BY <1>1, <2>1 DEF TransactionInv, StoreInv
  <2>3. Top = Base + 1
    BY <1>1, <2>2 DEF Top
  <2>4. db' = After
    BY <1>1, <2>1, <2>2, <2>3, ValueFacts DEF Inserting, After, Holding
  <2>5. answer' = OwnReceipt(Top)
    BY <2>1, <2>2, <2>3, ValueFacts DEF NewReceipt, Inserting, OwnReceipt
  <2>6. db'.refunded <= Payment
    BY <1>1, <2>1, <2>2 DEF Inserting
  <2>7. TransactionInv'
    BY <1>1, <1>2, <1>4, <2>1, <2>2, <2>5 DEF TransactionInv, Statements, OwnReceipt
  <2>8. StoreInv'
    BY <1>1, <1>2, <1>4, <2>1, <2>2, <2>4, <2>6
       DEF StoreInv, Statements, Empty, Request, OwnReceipt
  <2> QED
    BY <1>1, <1>2, <1>3, <2>7, <2>8, StoreStepPreserves
<1>10. CASE Refuse \/ StatementFails
  <2>1. /\ server \in Statements /\ txn' = None /\ server' = "idle" /\ wire' = ErrorReply
        /\ UNCHANGED <<db, answer>>
    BY <1>10 DEF Refuse, StatementFails, RollBack, Statements
  <2>2. db = Before
    BY <1>1, <2>1 DEF StoreInv
  <2>3. TransactionInv'
    BY <1>1, <1>2, <1>4, <2>1 DEF TransactionInv, Statements
  <2>4. StoreInv'
    BY <1>1, <1>2, <1>4, <2>1, <2>2
       DEF StoreInv, Statements, Empty, Request, ErrorReply, OwnReceipt
  <2> QED
    BY <1>1, <1>2, <1>3, <2>3, <2>4, StoreStepPreserves
<1>11. CASE Reply
  <2>1. /\ server = "committed" /\ server' = "idle" /\ answer' = None
        /\ wire' = [kind |-> "reply", receipt |-> answer] /\ UNCHANGED <<db, txn>>
    BY <1>11 DEF Reply
  <2>2. db = After /\ answer = OwnReceipt(Top)
    BY <1>1, <2>1 DEF StoreInv, TransactionInv
  <2>3. TransactionInv'
    BY <1>1, <1>2, <1>4, <2>1 DEF TransactionInv, Statements
  <2>4. StoreInv'
    BY <1>1, <1>2, <1>4, <2>1, <2>2
       DEF StoreInv, Statements, Empty, Request, ErrorReply, OwnReceipt
  <2> QED
    BY <1>1, <1>2, <1>3, <2>3, <2>4, StoreStepPreserves
<1>12. CASE AnswerWithoutEffect
  <2>1. /\ server = "idle" /\ wire = Request /\ wire' = ErrorReply
        /\ UNCHANGED <<db, txn, server, answer>>
    BY <1>12 DEF AnswerWithoutEffect, EffectlessAnswers
  <2>2. db = Before
    BY <1>1, <2>1 DEF StoreInv
  <2>3. TransactionInv'
    BY <1>1, <1>2, <1>4, <2>1 DEF TransactionInv, Statements
  <2>4. StoreInv'
    BY <1>1, <1>2, <1>4, <2>1, <2>2
       DEF StoreInv, Statements, Empty, Request, ErrorReply, OwnReceipt
  <2> QED
    BY <1>1, <1>2, <1>3, <2>3, <2>4, StoreStepPreserves
<1> QED
  BY <1>5, <1>6, <1>7, <1>8, <1>9, <1>10, <1>11, <1>12 DEF Server

LEMMA ServerExitsPreserves ==
    ASSUME TrialInv, ServerExits
    PROVE  TrialInv'
<1>1. /\ SessionInv /\ PreflightInv /\ StoreInv /\ TransactionInv
      /\ StopServer /\ ProcessExits
      /\ UNCHANGED <<mode, amount, scheduleVars, callVars, observerVars, variants, world,
                     resources, deliveries, client, serves, failure, stack, db, wire>>
  BY DEF TrialInv, ServerExits, ProcessExits
<1>2. UNCHANGED <<injected, reached>>
  BY <1>1 DEF scheduleVars
<1>3. UNCHANGED <<Base, Top, Before, After>>
  BY <1>1, <1>2, ValuesUntouched
<1>4. SessionInv'
  BY <1>1, SessionStep
<1>5. PreflightInv'
  BY <1>1 DEF PreflightInv, ProcessExits
<1>6. TransactionInv'
  BY <1>1 DEF TransactionInv, StopServer, Statements
<1>7. StoreInv'
  BY <1>1, <1>2, <1>3 DEF StoreInv, StopServer, Statements, Empty, Request, OwnReceipt
<1> QED
  BY <1>1, <1>4, <1>5, <1>6, <1>7, StoreStepPreserves DEF StopServer

-----------------------------------------------------------------------------
(* The steps of an open world.                                             *)

LEMMA OpenStepPreserves ==
    ASSUME TrialInv, world = "open", UNCHANGED <<mode, amount, lifecycleVars>>,
           DataInv', ObserverInv'
    PROVE  TrialInv'
<1> USE DEF lifecycleVars
<1>1. SessionInv'
  BY SessionStep DEF TrialInv
<1>2. PreflightInv'
  BY DEF TrialInv, PreflightInv, sessionVars
<1>3. DeliveriesInv' /\ WorldInv'
  BY DEF TrialInv, DeliveriesInv, WorldInv, sessionVars
<1> QED
  BY <1>1, <1>2, <1>3 DEF TrialInv, DataInv

LEMMA ClientPreserves ==
    ASSUME TrialInv, Client
    PROVE  TrialInv'
<1>1. /\ ClientKeeps /\ TransactionInv /\ StoreInv /\ EvidenceInv /\ ScheduleInv
      /\ ObserverInv /\ mode \in {"unsafe", "keyed"}
      /\ UNCHANGED <<mode, amount, lifecycleVars, storeVars, observerVars>>
  BY DEF Client, CallTool, ReceiveReply, CallRaises, InvokeEnds, ClientKeeps, TrialInv
<1>2. Schedule!Invoking /\ world = "open" /\ reads = 0 /\ schedule \in {"first", "second"}
  BY <1>1 DEF Client, CallTool, ReceiveReply, CallRaises, InvokeEnds, ScheduleInv,
              TrialInv, WorldInv, Schedule!Invoking, ObserverInv, Observing
<1>3. UNCHANGED <<process, db, server, txn, answer, reads, seen>>
  BY <1>1 DEF lifecycleVars, sessionVars, storeVars, observerVars
<1>4. ObserverInv'
  BY <1>1, <1>2, <1>3 DEF ObserverInv
<1>5. /\ <<>> # <<1>> /\ <<1>> # <<1, 2>> /\ <<>> # <<1, 2>>
      /\ Append(<<>>, 1) = <<1>> /\ Append(<<1>>, 2) = <<1, 2>>
  BY PairFacts
<1> SUFFICES DataInv'
  BY <1>1, <1>2, <1>4, OpenStepPreserves
<1>6. CASE CallTool
  <2>1. /\ call = "none" /\ call' = "waiting" /\ wire' = Request
        /\ UNCHANGED <<received, scheduleVars>>
    BY <1>6 DEF CallTool
  <2>2. UNCHANGED <<schedule, signal, reached, injected, undelivered, baseline,
                    afterLost, final, subjectResult>>
    BY <2>1 DEF scheduleVars
  <2>3. UNCHANGED <<Base, Top, Before, After>>
    BY <1>1, <2>2, ValuesUntouched
  <2>4. Quiet /\ db = Before /\ reached # <<1, 2>>
    BY <1>1, <1>2, <1>5, <2>1 DEF ScheduleInv, EvidenceInv
  <2>5. TransactionInv' /\ EvidenceInv'
    BY <1>1, <1>3, <2>2, <2>3, <2>4
       DEF TransactionInv, EvidenceInv, Quiet, Statements, OwnReceipt, Showing, Total,
           Refunds, Own, RecordedKey
  <2>6. StoreInv'
    BY <1>1, <1>3, <2>1, <2>2, <2>3, <2>4
       DEF StoreInv, Quiet, Statements, Empty, Request, OwnReceipt
  <2>7. ScheduleInv'
    BY <1>1, <1>2, <2>1, <2>2, <2>3 DEF ScheduleInv, Schedule!Invoking
  <2> QED
    BY <2>5, <2>6, <2>7 DEF DataInv
<1>7. CASE CallRaises
  <2>1. /\ call' = "none" /\ schedule' = "raised" /\ signal' = "none"
        /\ UNCHANGED <<received, wire, reached, injected, undelivered, baseline,
                       afterLost, final, subjectResult>>
    BY <1>7 DEF CallRaises, Schedule!SubjectRaises, Schedule!controller,
                Schedule!observations
  <2>2. UNCHANGED <<Base, Top, Before, After>>
    BY <1>1, <2>1, ValuesUntouched
  <2>3. TransactionInv'
    BY <1>1, <1>3, <2>1, <2>2
       DEF TransactionInv, Statements, Holding, Inserting, OwnReceipt, Total, Refunds,
           Own, RecordedKey
  <2>4. StoreInv' /\ EvidenceInv'
    BY <1>1, <1>3, <2>1, <2>2
       DEF StoreInv, EvidenceInv, Statements, OwnReceipt, Showing, Total, Refunds, Own,
           RecordedKey
  <2>5. ScheduleInv'
    BY <2>1 DEF ScheduleInv, Schedule!Invoking
  <2> QED
    BY <2>3, <2>4, <2>5 DEF DataInv
<1>8. CASE ReceiveReply
  <2>1. /\ call = "waiting" /\ wire.kind = "reply" /\ call' = "received"
        /\ received' = wire.receipt /\ wire' = Empty /\ signal = "none"
        /\ reached' = Append(reached, Schedule!CurrentAttempt)
        /\ UNCHANGED <<schedule, baseline, afterLost, final, subjectResult>>
    BY <1>8 DEF ReceiveReply, Schedule!Deliver, Schedule!observations
  <2>2. wire.receipt = OwnReceipt(Top) /\ db = After /\ server = "idle" /\ reached # <<1, 2>>
    BY <1>1, <2>1 DEF StoreInv, Empty, Request, ErrorReply
  <2>3. subjectResult = None /\ final = None
    BY <1>1, <2>2 DEF EvidenceInv
  <2>4. CASE injected = None
    <3>1. /\ schedule = "first" /\ Base = 0 /\ Top = 1 /\ reached = <<>> /\ afterLost = None
          /\ Schedule!CurrentAttempt = 1 /\ baseline # None
      BY <1>1, <1>2, <1>5, <2>1, <2>4
         DEF ScheduleInv, EvidenceInv, Base, Top, Schedule!CurrentAttempt
    <3>2. /\ reached' = <<1>> /\ injected' = 1 /\ undelivered' = OwnReceipt(1)
          /\ signal' = "lost" /\ received' = OwnReceipt(1)
      BY <1>5, <1>8, <2>1, <2>2, <2>4, <3>1 DEF ReceiveReply, Schedule!Deliver
    <3>3. 1 # None
      BY McpRefundAssumption
    <3>4. Base' = 1 /\ Before' = Holding(1, 1) /\ db = Holding(1, 1)
      BY <1>1, <2>2, <3>1, <3>2, <3>3
         DEF Base, Before, After, Holding, Total, Refunds, Own, OwnReceipt, RecordedKey
    <3>5. TransactionInv'
      BY <1>1, <1>3, <2>2 DEF TransactionInv, Statements
    <3>6. StoreInv'
      BY <1>1, <1>3, <1>5, <2>1, <2>2, <3>2, <3>4
         DEF StoreInv, Statements, Empty, Request
    <3>7. EvidenceInv'
      BY <1>1, <1>3, <1>5, <2>1, <2>3, <3>1, <3>2, <3>3
         DEF EvidenceInv, OwnReceipt, Showing, Total, Refunds, Own, RecordedKey
    <3>8. ScheduleInv'
      BY <1>1, <1>3, <2>1, <2>2, <2>3, <3>1, <3>2, <3>4
         DEF ScheduleInv, Schedule!Invoking, Quiet, OwnReceipt
    <3> QED
      BY <3>5, <3>6, <3>7, <3>8 DEF DataInv
  <2>5. CASE injected # None
    <3>1. schedule = "second" /\ reached = <<1>> /\ Schedule!CurrentAttempt = 2
      BY <1>1, <1>2, <2>1, <2>5 DEF ScheduleInv, Schedule!CurrentAttempt
    <3>2. reached' = <<1, 2>> /\ UNCHANGED <<injected, undelivered, signal>>
      BY <1>5, <1>8, <2>1, <2>5, <3>1 DEF ReceiveReply, Schedule!Deliver
    <3>3. UNCHANGED <<Base, Top, Before, After>>
      BY <1>1, <3>2, ValuesUntouched
    <3>4. TransactionInv'
      BY <1>1, <1>3, <2>2 DEF TransactionInv, Statements
    <3>5. StoreInv'
      BY <1>1, <1>3, <2>1, <2>2, <3>3 DEF StoreInv, Statements, Empty, Request
    <3>6. EvidenceInv'
      BY <1>1, <1>3, <2>1, <2>2, <2>3, <2>5, <3>2, <3>3
         DEF EvidenceInv, OwnReceipt, Showing, Total, Refunds, Own, RecordedKey
    <3>7. ScheduleInv'
      BY <1>1, <1>3, <2>1, <2>2, <3>1, <3>2, <3>3
         DEF ScheduleInv, Schedule!Invoking, Quiet, OwnReceipt
    <3> QED
      BY <3>4, <3>5, <3>6, <3>7 DEF DataInv
  <2> QED
    BY <2>4, <2>5
<1>9. CASE InvokeEnds
  <2>1. /\ call = "received" /\ call' = "none" /\ received' = None /\ signal' = "none"
        /\ UNCHANGED <<wire, reached, injected, undelivered, baseline, afterLost, final>>
        /\ \/ /\ signal = "lost" /\ UNCHANGED subjectResult
              /\ schedule' = IF schedule = "first" THEN "observe_lost" ELSE "raised"
           \/ /\ signal = "none" /\ schedule = "second" /\ schedule' = "observe_final"
              /\ subjectResult' = received
    BY <1>9 DEF InvokeEnds, Schedule!LossPropagates, Schedule!SecondReturns,
                Schedule!controller, Schedule!observations
  <2>2. UNCHANGED <<Base, Top, Before, After>>
    BY <1>1, <2>1, ValuesUntouched
  <2>3. TransactionInv'
    BY <1>1, <1>3, <2>1, <2>2
       DEF TransactionInv, Statements, Holding, Inserting, OwnReceipt, Total, Refunds,
           Own, RecordedKey
  <2>4. StoreInv'
    BY <1>1, <1>3, <2>1, <2>2 DEF StoreInv, Statements, OwnReceipt
  <2>5. CASE schedule = "first"
    <3>1. /\ schedule' = "observe_lost" /\ subjectResult' = subjectResult
          /\ reached = <<1>> /\ Quiet /\ db = Before /\ baseline # None
      BY <1>1, <2>1, <2>5 DEF ScheduleInv
    <3>2. EvidenceInv'
      BY <1>1, <1>3, <2>1, <2>2, <3>1
         DEF EvidenceInv, OwnReceipt, Showing, Total, Refunds, Own, RecordedKey
    <3>3. ScheduleInv'
      BY <1>1, <1>3, <2>1, <2>2, <3>1 DEF ScheduleInv, Schedule!Invoking, Quiet
    <3> QED
      BY <2>3, <2>4, <3>2, <3>3 DEF DataInv
  <2>6. CASE schedule = "second"
    <3>1. /\ schedule' = "observe_final" /\ subjectResult' = OwnReceipt(Top)
          /\ reached = <<1, 2>> /\ baseline # None /\ afterLost # None
      BY <1>1, <2>1, <2>6 DEF ScheduleInv
    <3>2. OwnReceipt(Top) # None
      <4>1. OwnReceipt(Top) \in RefundReceipt
        BY <1>1, ValueFacts DEF TrialInv, OwnReceipt, RefundReceipt, Top
      <4> QED
        BY <4>1, McpRefundAssumption
    <3>3. EvidenceInv'
      BY <1>1, <1>3, <2>1, <2>2, <3>1, <3>2
         DEF EvidenceInv, OwnReceipt, Showing, Total, Refunds, Own, RecordedKey
    <3>4. ScheduleInv'
      BY <1>1, <1>3, <2>1, <2>2, <3>1, <3>2 DEF ScheduleInv, Schedule!Invoking
    <3> QED
      BY <2>3, <2>4, <3>3, <3>4 DEF DataInv
  <2> QED
    BY <1>2, <2>5, <2>6
<1> QED
  BY <1>6, <1>7, <1>8, <1>9 DEF Client

(* What the observer reads of a database, and what its three reads make.   *)
LEMMA HoldingTyped ==
    ASSUME TrialInv, NEW n \in {0, 1, 2}, NEW d \in Nat
    PROVE  Holding(n, d) \in Database /\ Showing(n) \in Observation
<1>1. amount \in Nat /\ amount \in Amounts
  BY McpRefundAssumption DEF TrialInv
<1>2. Total(n) \in Nat
  BY <1>1 DEF Total
<1>3. Own(1) \in RefundEvent /\ Own(2) \in RefundEvent
  BY <1>1 DEF Own, RefundEvent, RecordedKey
<1>4. Refunds(n) \in Seq(RefundEvent)
  BY <1>3 DEF Refunds
<1>5. OwnReceipt(1) \in RefundReceipt
  BY <1>1 DEF OwnReceipt, RefundReceipt
<1> QED
  BY <1>2, <1>4, <1>5 DEF Holding, Showing, Database, Observation

LEMMA DatabaseHolds ==
    ASSUME TrialInv
    PROVE  /\ \E n \in {0, 1, 2}, d \in Nat : db = Holding(n, d)
           /\ db \in Database
<1>1. Base \in {0, 1} /\ Top \in {1, 2} /\ Base \in Nat /\ Base + 1 \in Nat
  BY ValueFacts DEF Top
<1>2. db = Holding(Base, Base) \/ db = Holding(Top, Base + 1)
  BY DEF TrialInv, StoreInv, Before, After
<1>3. \E n \in {0, 1, 2}, d \in Nat : db = Holding(n, d)
  BY <1>1, <1>2
<1> QED
  BY <1>3, HoldingTyped

LEMMA ThreeReadsMakeOne ==
    ASSUME TrialInv, reads = 3, NEW n \in {0, 1, 2}, NEW d \in Nat, db = Holding(n, d)
    PROVE  seen = Showing(n)
<1>1. /\ seen.refunded = db.refunded /\ seen.history = db.events
      /\ seen.keys = IF db.receipt = None THEN 0 ELSE 1
      /\ seen \in Observation
  BY DEF TrialInv, ObserverInv
<1>2. db.receipt = None <=> ~(mode = "keyed" /\ n > 0)
  BY ValueFacts DEF Holding
<1>3. seen = [refunded |-> Total(n), keys |-> IF mode = "keyed" /\ n > 0 THEN 1 ELSE 0,
              history |-> Refunds(n)]
  BY <1>1, <1>2 DEF Holding, Observation
<1> QED
  BY <1>3 DEF Showing

LEMMA ObserverPreserves ==
    ASSUME TrialInv, Observer
    PROVE  TrialInv'
<1>1. /\ world = "open" /\ UNCHANGED <<mode, amount, lifecycleVars, callVars, wire, storeVars>>
      /\ TransactionInv /\ StoreInv /\ EvidenceInv /\ ScheduleInv /\ ObserverInv
      /\ mode \in {"unsafe", "keyed"}
  BY DEF Observer, Select, Observe, ObserverRaises, Observing, TrialInv
<1>2. UNCHANGED <<process, db, server, txn, answer, wire, call, received, world>>
  BY <1>1 DEF lifecycleVars, sessionVars, storeVars, callVars
<1>3. schedule \in {"baseline", "observe_lost", "observe_final"} /\ call = "none"
  BY <1>1 DEF Observer, Select, Observe, ObserverRaises, Observing, ScheduleInv,
              Schedule!Invoking
<1>4. CASE Select
  <2>1. DataInv'
    BY <1>1, <1>2, <1>4, DataUntouched DEF Select, DataInv
  <2>2. /\ UNCHANGED schedule /\ reads' = reads + 1 /\ reads \in {0, 1, 2}
        /\ seen \in Observation /\ db \in Database
    BY <1>1, <1>4, DatabaseHolds DEF Select, scheduleVars, ObserverInv
  <2>3. ObserverInv'
    <3>1. CASE reads = 0
      <4>1. seen' = [seen EXCEPT !.refunded = db.refunded]
        BY <1>4, <3>1 DEF Select
      <4> QED
        BY <1>1, <1>2, <1>3, <2>2, <3>1, <4>1
           DEF ObserverInv, Observing, Observation, Database
    <3>2. CASE reads = 1
      <4>1. seen' = [seen EXCEPT !.keys = IF db.receipt = None THEN 0 ELSE 1]
        BY <1>4, <3>2 DEF Select
      <4> QED
        BY <1>1, <1>2, <1>3, <2>2, <3>2, <4>1
           DEF ObserverInv, Observing, Observation, Database
    <3>3. CASE reads = 2
      <4>1. seen' = [seen EXCEPT !.history = db.events]
        BY <1>4, <3>3 DEF Select
      <4> QED
        BY <1>1, <1>2, <1>3, <2>2, <3>3, <4>1
           DEF ObserverInv, Observing, Observation, Database
    <3> QED
      BY <2>2, <3>1, <3>2, <3>3
  <2> QED
    BY <1>1, <2>1, <2>3, OpenStepPreserves
<1>5. CASE Observe \/ ObserverRaises
  <2>1. /\ reads' = 0 /\ seen' = seen
        /\ UNCHANGED <<signal, reached, injected, undelivered, subjectResult>>
    BY <1>5 DEF Observe, ObserverRaises, Schedule!RecordBaseline, Schedule!ObserveLost,
                Schedule!ObserveFinal, Schedule!ObserverRaises, Schedule!controller
  <2>2. ObserverInv'
    BY <1>1, <2>1 DEF ObserverInv
  <2>3. UNCHANGED <<Base, Top, Before, After>>
    BY <1>1, <2>1, ValuesUntouched
  <2>4. TransactionInv' /\ StoreInv'
    BY <1>1, <1>2, <2>1, <2>3
       DEF TransactionInv, StoreInv, Statements, Holding, Inserting, OwnReceipt, Total,
           Refunds, Own, RecordedKey
  <2>5. Base \in {0, 1} /\ Top \in {1, 2}
    BY ValueFacts DEF Top
  <2> SUFFICES EvidenceInv' /\ ScheduleInv'
    BY <1>1, <2>2, <2>4, OpenStepPreserves DEF DataInv
  <2>6. CASE ObserverRaises
    <3>1. schedule' = "raised" /\ UNCHANGED <<baseline, afterLost, final>>
      BY <2>6 DEF ObserverRaises, Schedule!ObserverRaises, Schedule!observations
    <3>2. EvidenceInv'
      BY <1>1, <1>2, <2>1, <2>3, <3>1
         DEF EvidenceInv, OwnReceipt, Showing, Total, Refunds, Own, RecordedKey
    <3>3. ScheduleInv'
      BY <1>1, <1>2, <1>3, <2>1, <3>1 DEF ScheduleInv, Schedule!Invoking
    <3> QED
      BY <3>2, <3>3
  <2>7. CASE reads = 3 /\ baseline' = seen /\ Schedule!RecordBaseline
    <3>1. /\ schedule = "baseline" /\ schedule' = "first" /\ UNCHANGED <<afterLost, final>>
      BY <2>7 DEF Schedule!RecordBaseline
    <3>2. Quiet /\ db = Before /\ injected = None
      BY <1>1, <3>1 DEF ScheduleInv
    <3>3. Base = 0 /\ Before = Holding(0, 0)
      BY <3>2 DEF Base, Before
    <3>4. baseline' = Showing(0) /\ baseline' # None
      BY <2>7, <3>2, <3>3, ThreeReadsMakeOne, HoldingTyped, McpRefundAssumption
    <3>5. EvidenceInv'
      BY <1>1, <1>2, <2>1, <2>3, <3>1, <3>4
         DEF EvidenceInv, OwnReceipt, Showing, Total, Refunds, Own, RecordedKey
    <3>6. ScheduleInv'
      BY <1>1, <1>2, <1>3, <2>1, <2>3, <3>1, <3>2, <3>4
         DEF ScheduleInv, Schedule!Invoking, Quiet
    <3> QED
      BY <3>5, <3>6
  <2>8. CASE reads = 3 /\ afterLost' = seen /\ Schedule!ObserveLost
    <3>1. schedule = "observe_lost" /\ schedule' = "second" /\ UNCHANGED <<baseline, final>>
      BY <2>8 DEF Schedule!ObserveLost
    <3>2. Quiet /\ db = Before /\ reached = <<1>> /\ baseline # None
      BY <1>1, <3>1 DEF ScheduleInv
    <3>3. injected # None /\ Base = 1 /\ Before = Holding(1, 1)
      <4>1. <<1>> # <<>>
        OBVIOUS
      <4> QED
        BY <1>1, <3>2, <4>1 DEF EvidenceInv, Base, Before
    <3>4. afterLost' = Showing(1) /\ afterLost' # None
      BY <2>8, <3>2, <3>3, ThreeReadsMakeOne, HoldingTyped, McpRefundAssumption
    <3>5. EvidenceInv'
      BY <1>1, <1>2, <2>1, <2>3, <3>1, <3>3, <3>4
         DEF EvidenceInv, OwnReceipt, Showing, Total, Refunds, Own, RecordedKey
    <3>6. ScheduleInv'
      BY <1>1, <1>2, <1>3, <2>1, <2>3, <3>1, <3>2, <3>4
         DEF ScheduleInv, Schedule!Invoking, Quiet
    <3> QED
      BY <3>5, <3>6
  <2>9. CASE reads = 3 /\ final' = seen /\ Schedule!ObserveFinal
    <3>1. /\ schedule = "observe_final" /\ schedule' = "completed"
          /\ UNCHANGED <<baseline, afterLost>>
      BY <2>9 DEF Schedule!ObserveFinal
    <3>2. subjectResult # None /\ baseline # None /\ afterLost # None
      BY <1>1, <3>1 DEF ScheduleInv
    <3>3. db = After /\ After = Holding(Top, Base + 1)
      BY <1>1, <3>2 DEF EvidenceInv, After
    <3>4. final' = Showing(Top) /\ final' # None
      BY <2>5, <2>9, <3>3, ThreeReadsMakeOne, HoldingTyped, McpRefundAssumption
    <3>5. EvidenceInv'
      BY <1>1, <1>2, <2>1, <2>3, <3>1, <3>2, <3>4
         DEF EvidenceInv, OwnReceipt, Showing, Total, Refunds, Own, RecordedKey
    <3>6. ScheduleInv'
      BY <1>1, <1>2, <1>3, <2>1, <2>3, <3>1, <3>2, <3>4 DEF ScheduleInv, Schedule!Invoking
    <3> QED
      BY <3>5, <3>6
  <2> QED
    BY <1>5, <2>6, <2>7, <2>8, <2>9 DEF Observe
<1> QED
  BY <1>4, <1>5 DEF Observer

LEMMA InterruptPreserves ==
    ASSUME TrialInv, Interrupt
    PROVE  TrialInv'
<1>1. /\ world = "open" /\ UNCHANGED <<mode, amount, lifecycleVars, wire, storeVars>>
      /\ TransactionInv /\ StoreInv /\ EvidenceInv /\ ScheduleInv /\ ObserverInv
  BY DEF Interrupt, TrialInv
<1>2. UNCHANGED <<process, db, server, txn, answer, wire>>
  BY <1>1 DEF lifecycleVars, sessionVars, storeVars
<1>3. /\ schedule' = "interrupted" /\ signal' = "none" /\ call' = "none" /\ reads' = 0
      /\ UNCHANGED <<seen, reached, injected, undelivered, baseline, afterLost, final,
                     subjectResult>>
  BY DEF Interrupt, Schedule!Interrupt, Schedule!controller, Schedule!observations
<1>4. UNCHANGED <<Base, Top, Before, After>>
  BY <1>1, <1>3, ValuesUntouched
<1>5. TransactionInv' /\ StoreInv' /\ EvidenceInv'
  BY <1>1, <1>2, <1>3, <1>4
     DEF TransactionInv, StoreInv, EvidenceInv, Statements, Holding, Inserting, OwnReceipt,
         Showing, Total, Refunds, Own, RecordedKey
<1>6. ScheduleInv' /\ ObserverInv'
  BY <1>1, <1>3 DEF ScheduleInv, Schedule!Invoking, ObserverInv
<1> QED
  BY <1>1, <1>5, <1>6, OpenStepPreserves DEF DataInv

-----------------------------------------------------------------------------
(* Cleanup: the schedule is over, or the world was never open.             *)

LEMMA CleanupStepPreserves ==
    ASSUME TrialInv, CleanupKeeps, UNCHANGED db,
           world \in {"open", "closing", "releasing"},
           world' \in {"closing", "releasing", "closed"},
           schedule \in Schedule!Outcomes \/ world # "open",
           DataInv', SessionInv', DeliveriesInv', WorldInv'
    PROVE  TrialInv'
<1> USE DEF CleanupKeeps, observerVars, scheduleVars
<1>1. reads = 0
  BY DEF TrialInv, ObserverInv, Observing, Schedule!Outcomes
<1>2. ObserverInv' /\ PreflightInv'
  BY <1>1, ObserverUntouched DEF TrialInv, PreflightInv
<1> QED
  BY <1>2 DEF TrialInv, DataInv

(* Cleanup without the client: the store is only read.                     *)
LEMMA ReleasePreserves ==
    ASSUME TrialInv, LeaveWorld \/ ReadDeliveries \/ RemoveDirectory \/ Closed
    PROVE  TrialInv'
<1>1. /\ CleanupKeeps /\ UNCHANGED <<storeVars, wire, client, stack, process, serves>>
      /\ UNCHANGED failure \/ (RemoveDirectory /\ failure' = "cleanup")
      /\ SessionInv /\ DeliveriesInv /\ WorldInv /\ StoreInv /\ EvidenceInv /\ ScheduleInv
      /\ world \in {"open", "closing", "releasing"}
      /\ world' \in {"closing", "releasing", "closed"}
      /\ schedule \in Schedule!Outcomes \/ world # "open"
  BY DEF LeaveWorld, ReadDeliveries, RemoveDirectory, Closed, Releasing, TrialInv,
         sessionVars
<1>2. UNCHANGED <<mode, amount, db, process, client, schedule, reached, baseline>>
  BY <1>1 DEF CleanupKeeps, storeVars, scheduleVars
<1>3. DataInv' /\ SessionInv'
  <2>1. DataInv'
    BY <1>1, <1>2, DataUntouched DEF DataInv, TrialInv, CleanupKeeps
  <2>2. CASE UNCHANGED failure
    BY <1>1, <2>1, <2>2, SessionStep DEF sessionVars
  <2>3. CASE RemoveDirectory /\ failure' = "cleanup"
    <3>1. client = "out"
      BY <1>1, <2>3, ResourceFacts DEF RemoveDirectory, Releasing, WorldInv
    <3> QED
      BY <1>1, <2>1, <2>3, <3>1 DEF SessionInv, CloseIsReported, Failure
  <2> QED
    BY <1>1, <2>2, <2>3
<1>4. CASE LeaveWorld
  <2>1. DeliveriesInv' /\ WorldInv'
    BY <1>1, <1>2, <1>4 DEF LeaveWorld, DeliveriesInv, WorldInv, Schedule!Outcomes,
                            ScheduleInv
  <2> QED
    BY <1>1, <1>2, <1>3, <2>1, CleanupStepPreserves
<1>5. CASE ReadDeliveries
  <2>1. Base \in {0, 1} /\ (Base = 1 <=> injected # None)
    BY <1>1 DEF Base, EvidenceInv
  <2>2. db.deliveries \in {Base, Base + 1} /\ (db = After => db.deliveries = Base + 1)
    BY <1>1 DEF StoreInv, Before, After, Holding
  <2>3. Len(<<>>) = 0 /\ Len(<<1>>) = 1 /\ Len(<<1, 2>>) = 2
    BY PairFacts
  <2>4. db.deliveries \in Nat /\ db.deliveries >= Len(reached)
    <3>1. \/ injected = None /\ reached = <<>>
          \/ injected # None /\ reached = <<1>>
          \/ injected # None /\ reached = <<1, 2>> /\ db = After
      BY <1>1 DEF EvidenceInv
    <3>2. CASE injected = None /\ reached = <<>>
      <4>1. db.deliveries \in {0, 1} /\ Len(reached) = 0
        BY <2>1, <2>2, <2>3, <3>2
      <4> QED
        BY <4>1
    <3>3. CASE injected # None /\ reached = <<1>>
      <4>1. db.deliveries \in {1, 2} /\ Len(reached) = 1
        BY <2>1, <2>2, <2>3, <3>3
      <4> QED
        BY <4>1
    <3>4. CASE injected # None /\ reached = <<1, 2>> /\ db = After
      <4>1. db.deliveries = 2 /\ Len(reached) = 2
        BY <2>1, <2>2, <2>3, <3>4
      <4> QED
        BY <4>1
    <3> QED
      BY <3>1, <3>2, <3>3, <3>4
  <2>5. schedule = "completed" => db.deliveries = 2
    <3> SUFFICES ASSUME schedule = "completed" PROVE db.deliveries = 2
      OBVIOUS
    <3>1. afterLost # None /\ subjectResult # None
      BY <1>1 DEF ScheduleInv
    <3>2. db = After /\ injected # None
      BY <1>1, <3>1 DEF EvidenceInv
    <3> QED
      BY <2>1, <2>2, <3>2
  <2>6. DeliveriesInv' /\ WorldInv'
    BY <1>1, <1>2, <1>5, <2>4, <2>5 DEF ReadDeliveries, DeliveriesInv, WorldInv
  <2> QED
    BY <1>1, <1>2, <1>3, <2>6, CleanupStepPreserves
<1>6. CASE RemoveDirectory
  <2>1. resources = <<"directory">> /\ resources' = <<>> /\ world = "releasing"
        /\ UNCHANGED <<world, deliveries>>
    BY <1>1, <1>6, ResourceFacts DEF RemoveDirectory, Releasing, WorldInv
  <2>2. DeliveriesInv' /\ WorldInv'
    BY <1>1, <1>2, <2>1, ResourceFacts DEF DeliveriesInv, WorldInv
  <2> QED
    BY <1>1, <1>2, <1>3, <2>2, CleanupStepPreserves
<1>7. CASE Closed
  <2>1. DeliveriesInv' /\ WorldInv'
    BY <1>1, <1>2, <1>7, ResourceFacts DEF Closed, DeliveriesInv, WorldInv
  <2> QED
    BY <1>1, <1>2, <1>3, <2>1, CleanupStepPreserves
<1> QED
  BY <1>4, <1>5, <1>6, <1>7

LEMMA ExitClientPreserves ==
    ASSUME TrialInv, ExitClient
    PROVE  TrialInv'
<1>1. /\ CleanupKeeps /\ world = "releasing" /\ UNCHANGED <<world, deliveries>>
      /\ BeginExit \/ Leaving
      /\ resources' = IF client' = "out" THEN Front(resources) ELSE resources
      /\ resources = <<"directory", "client">>
      /\ TransactionInv /\ StoreInv /\ EvidenceInv /\ ScheduleInv /\ SessionInv
      /\ DeliveriesInv /\ WorldInv
  BY ResourceFacts DEF ExitClient, Releasing, TrialInv, WorldInv
<1>2. UNCHANGED <<mode, amount, injected, reached, schedule, call, signal, received,
                  baseline, afterLost, final, subjectResult, undelivered>>
  BY <1>1 DEF CleanupKeeps, scheduleVars, callVars
<1>3. SessionInv'
  BY <1>1, SessionStep
<1>4. DeliveriesInv' /\ WorldInv'
  BY <1>1, <1>2, ResourceFacts DEF DeliveriesInv, WorldInv
<1>5. DataInv'
  <2>1. CASE process = "running" /\ process' = "none"
    <3>1. StopServer /\ wire' = Empty /\ db' = db
      BY <2>1 DEF ExitClient
    <3>2. UNCHANGED <<Base, Top, Before, After>>
      BY <1>2, ValuesUntouched
    <3>3. TransactionInv' /\ StoreInv'
      BY <1>1, <1>2, <3>1, <3>2
         DEF StopServer, TransactionInv, StoreInv, Statements, Empty, Request
    <3>4. EvidenceInv'
      BY <1>1, <1>2, <3>1, <3>2
         DEF EvidenceInv, OwnReceipt, Showing, Total, Refunds, Own, RecordedKey
    <3>5. schedule \in {"baseline", "completed", "raised", "interrupted"} /\ call = "none"
      BY <1>1 DEF WorldInv, ScheduleInv, Schedule!Invoking
    <3>6. ScheduleInv'
      BY <1>1, <1>2, <3>1, <3>2, <3>5
         DEF ScheduleInv, Schedule!Invoking, Quiet, StopServer
    <3> QED
      BY <3>3, <3>4, <3>6 DEF DataInv
  <2>2. CASE ~(process = "running" /\ process' = "none")
    <3>1. UNCHANGED <<storeVars, wire>>
      BY <2>2 DEF ExitClient
    <3>2. process' \in {process, "none"}
      BY <1>1 DEF BeginExit, Leaving, CloseContext, CloseContextFails, LeaveSession
    <3>3. process' = process \/ server = "idle"
      BY <1>1, <2>2, <3>2 DEF TransactionInv
    <3> QED
      BY <1>1, <3>1, <3>3, DataUntouched DEF DataInv, CleanupKeeps
  <2> QED
    BY <2>1, <2>2
<1>6. UNCHANGED db
  BY DEF ExitClient, storeVars
<1> QED
  BY <1>1, <1>3, <1>4, <1>5, <1>6, CleanupStepPreserves

LEMMA TrialInvStutters ==
    ASSUME TrialInv, UNCHANGED vars
    PROVE  TrialInv'
<1> USE DEF vars, lifecycleVars, observerVars
<1>1. DataInv'
  BY DataUntouched DEF TrialInv, DataInv, sessionVars
<1>2. SessionInv'
  BY SessionStep DEF TrialInv
<1>3. ObserverInv'
  BY ObserverUntouched DEF TrialInv, storeVars, scheduleVars
<1>4. PreflightInv' /\ DeliveriesInv' /\ WorldInv'
  BY DEF TrialInv, PreflightInv, DeliveriesInv, WorldInv, sessionVars, scheduleVars
<1> QED
  BY <1>1, <1>2, <1>3, <1>4 DEF TrialInv, DataInv

LEMMA TrialInvNext == TrialInv /\ [Next]_vars => TrialInv'
<1> SUFFICES ASSUME TrialInv, [Next]_vars PROVE TrialInv'
  OBVIOUS
<1>1. CASE Preflight
  BY <1>1, PreflightPreserves
<1>2. CASE Provisioning
  BY <1>2, ProvisioningPreserves
<1>3. CASE Client
  BY <1>3, ClientPreserves
<1>4. CASE Observer
  BY <1>4, ObserverPreserves
<1>5. CASE Cleanup
  BY <1>5, ReleasePreserves, ExitClientPreserves DEF Cleanup
<1>6. CASE Server
  BY <1>6, ServerPreserves
<1>7. CASE ServerExits
  BY <1>7, ServerExitsPreserves
<1>8. CASE Interrupt
  BY <1>8, InterruptPreserves
<1>9. CASE InterruptSessions
  BY <1>9, InterruptSessionsPreserves
<1>10. CASE UNCHANGED vars
  BY <1>10, TrialInvStutters
<1> QED
  BY <1>1, <1>2, <1>3, <1>4, <1>5, <1>6, <1>7, <1>8, <1>9, <1>10 DEF Next, Harness

LEMMA TrialInvariant == Spec => []TrialInv
BY TrialInvInit, TrialInvNext, PTL DEF Spec

-----------------------------------------------------------------------------
(* What was observed and delivered, read off the invariant.                *)

LEMMA ShowingFacts ==
    ASSUME TrialInv, NEW n \in {0, 1, 2}
    PROVE  /\ Len(Refunds(n)) = n /\ DOMAIN Refunds(n) = 1..n
           /\ Refunds(n) \in Seq(RefundEvent)
           /\ \A k \in 1..n : Refunds(n)[k] = Own(k)
           /\ Total(n) = n * amount
           /\ Showing(n).refunded = n * amount /\ Showing(n).history = Refunds(n)
           /\ Showing(n).keys = IF mode = "keyed" /\ Refunds(n) # <<>> THEN 1 ELSE 0
<1>1. amount \in Nat /\ amount \in Amounts
  BY McpRefundAssumption DEF TrialInv
<1>2. /\ Refunds(0) = <<>> /\ Refunds(1) = <<Own(1)>> /\ Refunds(2) = <<Own(1), Own(2)>>
  BY DEF Refunds
<1>3. Own(1) \in RefundEvent /\ Own(2) \in RefundEvent
  BY <1>1 DEF Own, RefundEvent, RecordedKey
<1>4. Refunds(n) \in Seq(RefundEvent)
  <2>1. /\ <<>> \in Seq(RefundEvent) /\ <<Own(1)>> \in Seq(RefundEvent)
        /\ <<Own(1), Own(2)>> \in Seq(RefundEvent)
    BY <1>3
  <2> QED
    BY <1>2, <2>1
<1>5. Len(Refunds(n)) = n /\ (Refunds(n) # <<>> <=> n > 0)
  <2>1. Len(Refunds(0)) = 0 /\ Len(Refunds(1)) = 1 /\ Len(Refunds(2)) = 2
    BY <1>2, PairFacts
  <2>2. CASE n = 0
    BY <1>2, <2>1, <2>2
  <2>3. CASE n = 1
    BY <2>1, <2>3, PairFacts
  <2>4. CASE n = 2
    BY <2>1, <2>4, PairFacts
  <2> QED
    BY <2>2, <2>3, <2>4
<1>6. DOMAIN Refunds(n) = 1..n
  BY <1>4, <1>5
<1>7. \A k \in 1..n : Refunds(n)[k] = Own(k)
  <2>1. <<Own(1)>>[1] = Own(1) /\ <<Own(1), Own(2)>>[1] = Own(1)
        /\ <<Own(1), Own(2)>>[2] = Own(2)
    OBVIOUS
  <2> QED
    BY <1>2, <2>1
<1>8. Total(n) = n * amount
  <2>1. 0 * amount = 0 /\ 1 * amount = amount /\ 2 * amount = amount + amount
    BY <1>1
  <2> QED
    BY <2>1 DEF Total
<1> QED
  BY <1>4, <1>5, <1>6, <1>7, <1>8 DEF Showing

LEMMA RefundsGrow ==
    ASSUME TrialInv, NEW n \in {0, 1, 2}, NEW m \in {0, 1, 2}, m <= n
    PROVE  IsPrefix(Refunds(m), Refunds(n))
BY ShowingFacts DEF IsPrefix

LEMMA EvidenceShows ==
    ASSUME TrialInv
    PROVE  /\ Top \in {1, 2} /\ (mode = "keyed" => Top = 1)
           /\ baseline # None => baseline = Showing(0)
           /\ undelivered # None => injected # None /\ undelivered = OwnReceipt(1)
           /\ afterLost # None => /\ afterLost = Showing(1) /\ baseline = Showing(0)
                                  /\ undelivered = OwnReceipt(1)
           /\ subjectResult # None => /\ subjectResult = OwnReceipt(Top)
                                      /\ reached = <<1, 2>> /\ db = After
           /\ final # None => /\ final = Showing(Top) /\ subjectResult # None
                              /\ afterLost # None
<1>1. /\ EvidenceInv /\ mode \in {"unsafe", "keyed"}
  BY DEF TrialInv
<1> QED
  BY <1>1, ValueFacts DEF EvidenceInv, Top

LEMMA CommittedRefunds ==
    ASSUME TrialInv
    PROVE  /\ injected # None => db.events \in {Refunds(1), Refunds(Top)} /\ Total(1) <= Payment
           /\ db = After => db.events = Refunds(Top) /\ Total(Top) <= Payment
<1>1. db = After => db.events = Refunds(Top) /\ Total(Top) <= Payment
  BY DEF TrialInv, StoreInv, After, Holding
<1>2. ASSUME injected # None, db = Before
      PROVE  db.events = Refunds(1) /\ Total(1) <= Payment
  BY <1>2 DEF TrialInv, StoreInv, Before, Holding, Base
<1>3. Top \in {1, 2} /\ amount \in Nat /\ Payment \in Nat
  BY EvidenceShows, ValueFacts
<1>4. Total(Top) <= Payment => Total(1) <= Payment
  <2>1. Total(1) = amount /\ Total(2) = amount + amount
    BY DEF Total
  <2> QED
    BY <1>3, <2>1
<1>5. db = Before \/ db = After
  BY DEF TrialInv, StoreInv
<1> QED
  BY <1>1, <1>2, <1>4, <1>5

LEMMA NamedInRefunds ==
    ASSUME TrialInv, NEW n \in {1, 2}, NEW k \in 1..n
    PROVE  Named(OwnReceipt(k), Refunds(n))
<1>1. k \in DOMAIN Refunds(n) /\ Refunds(n)[k] = Own(k)
  BY ShowingFacts
<1>2. Own(k).id = OwnReceipt(k).id /\ Own(k).amount = OwnReceipt(k).amount
  BY DEF Own, OwnReceipt
<1> QED
  BY <1>1, <1>2 DEF Named

(* The trial that completes has all of its evidence.                       *)
LEMMA CompletedTrialShows ==
    ASSUME TrialInv, schedule = "completed"
    PROVE  /\ baseline = Showing(0) /\ afterLost = Showing(1) /\ final = Showing(Top)
           /\ undelivered = OwnReceipt(1) /\ subjectResult = OwnReceipt(Top)
           /\ injected = 1 /\ reached = <<1, 2>> /\ deliveries \in {None, 2}
           /\ Top = IF mode = "keyed" THEN 1 ELSE 2
<1>1. baseline # None /\ afterLost # None /\ final # None /\ subjectResult # None
  BY DEF TrialInv, ScheduleInv
<1>2. deliveries \in {None, 2}
  BY DEF TrialInv, DeliveriesInv
<1>3. injected = 1 /\ injected # None
  BY <1>1 DEF TrialInv, EvidenceInv
<1> QED
  BY <1>1, <1>2, <1>3, EvidenceShows DEF Top, Base

-----------------------------------------------------------------------------
(* The properties.                                                         *)

LEMMA InvSnapshots == TrialInv => ObservationsAreSnapshots
<1> SUFFICES ASSUME TrialInv PROVE ObservationsAreSnapshots
  OBVIOUS
<1>1. Top \in {1, 2} /\ Payment \in Nat /\ amount \in Nat
  BY EvidenceShows, ValueFacts
<1>2. ASSUME NEW o \in {baseline, afterLost, final} \ {None}
      PROVE  \E n \in {0, 1, 2} : o = Showing(n) /\ Total(n) <= Payment
  <2>1. CASE o = baseline
    BY <1>1, <1>2, <2>1, EvidenceShows DEF Total
  <2>2. CASE o = afterLost
    BY <1>1, <1>2, <2>2, EvidenceShows, CommittedRefunds DEF TrialInv, EvidenceInv
  <2>3. CASE o = final
    BY <1>1, <1>2, <2>3, EvidenceShows, CommittedRefunds
  <2> QED
    BY <1>2, <2>1, <2>2, <2>3
<1>3. ASSUME NEW o \in {baseline, afterLost, final} \ {None}
      PROVE  /\ o.refunded = Len(o.history) * amount /\ o.refunded <= Payment
             /\ o.keys = IF mode = "keyed" /\ o.history # <<>> THEN 1 ELSE 0
  <2>1. PICK n \in {0, 1, 2} : o = Showing(n) /\ Total(n) <= Payment
    BY <1>2
  <2> QED
    BY <2>1, ShowingFacts
<1>4. Showing(0) = FreshObservation
  BY DEF Showing, FreshObservation, Total, Refunds
<1>5. afterLost # None => IsPrefix(baseline.history, afterLost.history)
  <2>1. IsPrefix(Refunds(0), Refunds(1))
    BY RefundsGrow
  <2> QED
    BY <2>1, EvidenceShows, ShowingFacts
<1>6. final # None => IsPrefix(afterLost.history, final.history)
  <2>1. IsPrefix(Refunds(1), Refunds(Top))
    BY <1>1, RefundsGrow
  <2> QED
    BY <1>1, <2>1, EvidenceShows, ShowingFacts
<1> QED
  BY <1>3, <1>4, <1>5, <1>6, EvidenceShows DEF ObservationsAreSnapshots

(* The observer's three SELECTs are not a transaction, and yet each of its *)
(* observations is of one committed state, and each extends the last.      *)
THEOREM ObservationsSnapshot == Spec => []ObservationsAreSnapshots
BY TrialInvariant, InvSnapshots, PTL

LEMMA InvReceipts == TrialInv => ReceiptsNameCommits
<1> SUFFICES ASSUME TrialInv PROVE ReceiptsNameCommits
  OBVIOUS
<1>1. Top \in {1, 2} /\ 1 \in 1..Top /\ Top \in 1..Top
  BY EvidenceShows
<1>2. /\ Named(OwnReceipt(1), Refunds(1)) /\ Named(OwnReceipt(1), Refunds(Top))
      /\ Named(OwnReceipt(Top), Refunds(Top))
  BY <1>1, NamedInRefunds
<1>3. undelivered # None => Named(undelivered, db.events)
  BY <1>2, EvidenceShows, CommittedRefunds
<1>4. subjectResult # None => Named(subjectResult, db.events)
  BY <1>2, EvidenceShows, CommittedRefunds
<1>5. /\ afterLost # None => Named(undelivered, afterLost.history)
      /\ final # None => Named(subjectResult, final.history)
  BY <1>1, <1>2, EvidenceShows, ShowingFacts
<1> QED
  BY <1>3, <1>4, <1>5 DEF ReceiptsNameCommits

(* A receipt that crossed the pipes names a refund that is committed, and  *)
(* stays so, wherever the server stops or is stopped.                      *)
THEOREM ReceiptsAreOfCommits == Spec => []ReceiptsNameCommits
BY TrialInvariant, InvReceipts, PTL

(* The history of a trial that observed a fresh world is its own delta.    *)
LEMMA DeltaFromFresh ==
    ASSUME TrialInv, NEW n \in {0, 1, 2}
    PROVE  Delta(Showing(0), Showing(n)) = Refunds(n)
<1>1. /\ Showing(0).history = Refunds(0) /\ Len(Refunds(0)) = 0
      /\ Showing(n).history = Refunds(n) /\ Refunds(n) \in Seq(RefundEvent)
  BY ShowingFacts
<1>2. Len(Showing(0).history) + 1 = 1
  BY <1>1
<1>3. Delta(Showing(0), Showing(n)) = SubSeq(Refunds(n), 1, Len(Refunds(n)))
  BY <1>1, <1>2 DEF Delta
<1> QED
  BY <1>1, <1>3, SubSeqFull

LEMMA InvVerdicts == TrialInv => VerdictsTellSubjectsApart
<1> SUFFICES ASSUME TrialInv, schedule = "completed"
             PROVE  /\ RetryRefundMatches <=> mode = "keyed"
                    /\ CleanRefundMatches(baseline, afterLost, undelivered)
  BY DEF VerdictsTellSubjectsApart
<1>1. /\ baseline = Showing(0) /\ afterLost = Showing(1) /\ final = Showing(Top)
      /\ undelivered = OwnReceipt(1) /\ subjectResult = OwnReceipt(Top)
      /\ Top = IF mode = "keyed" THEN 1 ELSE 2
      /\ Top \in {1, 2}
  BY CompletedTrialShows, EvidenceShows
<1>2. /\ Delta(baseline, afterLost) = Refunds(1) /\ Delta(baseline, final) = Refunds(Top)
  BY <1>1, DeltaFromFresh
<1>3. /\ Len(Refunds(1)) = 1 /\ Refunds(1)[1] = Own(1) /\ Len(Refunds(Top)) = Top
      /\ amount \in Nat
      /\ baseline.refunded = 0 /\ afterLost.refunded = amount
      /\ Top = 1 => final.refunded = amount
  <2>1. amount \in Nat /\ 0 * amount = 0 /\ 1 * amount = amount
    BY ValueFacts
  <2>2. /\ Len(Refunds(1)) = 1 /\ Refunds(1)[1] = Own(1)
        /\ Showing(0).refunded = 0 * amount /\ Showing(1).refunded = 1 * amount
    BY ShowingFacts
  <2>3. Len(Refunds(Top)) = Top
    BY <1>1, ShowingFacts
  <2> QED
    BY <1>1, <2>1, <2>2, <2>3
<1>4. /\ Own(1).id = 1 /\ Own(1).amount = amount
      /\ OwnReceipt(1).id = 1 /\ OwnReceipt(1).amount = amount
  BY DEF Own, OwnReceipt
<1>5. afterLost.refunded - baseline.refunded = amount
  BY <1>3
<1>6. CleanRefundMatches(baseline, afterLost, undelivered)
  BY <1>1, <1>2, <1>3, <1>4, <1>5 DEF CleanRefundMatches
<1>7. CASE mode = "keyed"
  <2>1. Top = 1 /\ final = afterLost
    BY <1>1, <1>7
  <2>2. RetryRefundMatches
    BY <1>1, <1>2, <1>3, <1>4, <1>5, <2>1 DEF RetryRefundMatches
  <2> QED
    BY <1>6, <1>7, <2>2
<1>8. CASE mode # "keyed"
  <2>1. Len(Delta(baseline, final)) = 2
    BY <1>1, <1>2, <1>3, <1>8
  <2>2. ~RetryRefundMatches
    BY <2>1 DEF RetryRefundMatches
  <2> QED
    BY <1>6, <1>8, <2>2
<1> QED
  BY <1>7, <1>8

(* Whatever the server does, and when, the case passes its keyed subject   *)
(* and contradicts the unsafe one, in every trial that completes.          *)
THEOREM SubjectsToldApart == Spec => []VerdictsTellSubjectsApart
BY TrialInvariant, InvVerdicts, PTL

LEMMA InvTakedown == TrialInv => ServerNeverOutlivesDatabase
<1> SUFFICES ASSUME TrialInv PROVE ServerNeverOutlivesDatabase
  OBVIOUS
<1>1. SessionInv /\ WorldInv /\ TransactionInv /\ DeliveriesInv
  BY DEF TrialInv
<1>2. client = "out" /\ process # "none" => CloseIsReported
  BY <1>1, StackFacts DEF SessionInv
<1>3. txn # None => process # "none"
  BY <1>1 DEF TransactionInv, Statements
<1>4. "directory" \notin {resources[k] : k \in DOMAIN resources} => resources = <<>>
  <2>1. /\ 1 \in DOMAIN <<"directory">> /\ <<"directory">>[1] = "directory"
        /\ 1 \in DOMAIN <<"directory", "client">>
        /\ <<"directory", "client">>[1] = "directory"
    OBVIOUS
  <2> QED
    BY <1>1, <2>1 DEF WorldInv
<1>5. world \in {"open", "closing", "releasing", "closed"} /\ resources = <<>>
          => client = "out"
  BY <1>1, ResourceFacts DEF WorldInv
<1>6. world = "closed" => resources = <<>> /\ client = "out"
  BY <1>1 DEF WorldInv
<1>7. deliveries # None => deliveries >= Len(reached)
  BY <1>1 DEF DeliveriesInv
<1> QED
  BY <1>2, <1>3, <1>4, <1>5, <1>6, <1>7 DEF ServerNeverOutlivesDatabase

(* No server and no transaction outlives its database unreported, and the  *)
(* delivery rows that are read cover every attempt that was answered.      *)
THEOREM DatabaseOutlivesServer == Spec => []ServerNeverOutlivesDatabase
BY TrialInvariant, InvTakedown, PTL

LEMMA InvPreflight == TrialInv => WorldsFollowPreflight
<1> SUFFICES ASSUME TrialInv PROVE WorldsFollowPreflight
  OBVIOUS
<1>1. SessionInv /\ WorldInv /\ PreflightInv /\ ScheduleInv /\ StoreInv
  BY DEF TrialInv
<1>2. world = "provisioning" /\ resources = <<>> => process = "none" /\ stack = <<>>
  BY <1>1, StackFacts DEF SessionInv, WorldInv, CloseIsReported
<1>3. world \notin {"preflight", "preflighting", "refused"} => variants.preflight \in Passing
  BY <1>1 DEF PreflightInv
<1>4. ASSUME world \in {"preflight", "preflighting", "refused"}
      PROVE  resources = <<>> /\ db = FreshDatabase
  <2>1. schedule = "baseline" /\ resources = <<>>
    BY <1>1, <1>4 DEF WorldInv
  <2>2. db = Before /\ injected = None
    BY <1>1, <2>1 DEF ScheduleInv
  <2>3. Before = FreshDatabase
    BY <2>2 DEF Before, Base, Holding, Total, Refunds, FreshDatabase
  <2> QED
    BY <2>1, <2>2, <2>3
<1> QED
  BY <1>2, <1>3, <1>4 DEF WorldsFollowPreflight, Passing

(* No world is made, and no refund committed, before a preflight of the    *)
(* right tool whose own server is gone again.                              *)
THEOREM PreflightComesFirst == Spec => []WorldsFollowPreflight
BY TrialInvariant, InvPreflight, PTL

(* The observation after n refunds is one that a report takes for n.       *)
LEMMA ShowingIsRegistered ==
    ASSUME TrialInv, NEW n \in {1, 2}, n = 1 \/ mode = "unsafe"
    PROVE  RefundsAreRegistered(Showing(n), n, mode, amount)
<1>1. /\ Showing(n).history = Refunds(n) /\ Len(Refunds(n)) = n
      /\ \A k \in 1..n : Refunds(n)[k] = Own(k)
      /\ Showing(n).refunded = n * amount
  BY ShowingFacts
<1>2. \A k \in 1..n : /\ Own(k).id = k /\ Own(k).amount = amount
                      /\ Own(k).key = RecordedKey(mode)
  BY DEF Own
<1>3. IsInjective([k \in 1..n |-> Showing(n).history[k].id])
  BY <1>1, <1>2 DEF IsInjective
<1>4. Showing(n).keys = IF mode = "keyed" /\ n > 0 THEN 1 ELSE 0
  BY DEF Showing
<1> QED
  BY <1>1, <1>2, <1>3, <1>4 DEF RefundsAreRegistered

LEMMA ReceiptIsOfShowing ==
    ASSUME TrialInv, NEW n \in {1, 2}
    PROVE  ReceiptMatches(OwnReceipt(n), Showing(n), n)
BY ShowingFacts DEF ReceiptMatches, OwnReceipt, Own

LEMMA ShowingGrows ==
    ASSUME TrialInv, NEW m \in {0, 1, 2}, NEW n \in {0, 1, 2}, NEW d \in {0, 1}, n = m + d
    PROVE  Grows(Showing(m), Showing(n), d)
<1>1. IsPrefix(Refunds(m), Refunds(n))
  BY RefundsGrow
<1> QED
  BY <1>1, ShowingFacts DEF Grows

LEMMA InvReports == TrialInv => ReportsAcceptTrials
<1> SUFFICES ASSUME TrialInv, schedule = "completed"
             PROVE  /\ CleanTrialIsReportable(
                           [baseline |-> baseline, observed |-> afterLost,
                            result |-> undelivered], mode, amount)
                    /\ PerturbedTrialIsReportable(PerturbedEvidence, mode, amount)
                           <=> PerturbedEvidence.cleanup = "pass"
  BY DEF ReportsAcceptTrials
<1>1. /\ baseline = Showing(0) /\ afterLost = Showing(1) /\ final = Showing(Top)
      /\ undelivered = OwnReceipt(1) /\ subjectResult = OwnReceipt(Top)
      /\ injected = 1 /\ reached = <<1, 2>> /\ deliveries \in {None, 2}
      /\ Top = IF mode = "keyed" THEN 1 ELSE 2
      /\ mode \in {"unsafe", "keyed"} /\ Top \in {1, 2}
  BY CompletedTrialShows, EvidenceShows DEF TrialInv
<1>2. BaselineIsFresh(Showing(0))
  BY DEF BaselineIsFresh, Showing, Total, Refunds
<1>3. /\ RefundsAreRegistered(Showing(1), 1, mode, amount)
      /\ ReceiptMatches(OwnReceipt(1), Showing(1), 1)
      /\ Grows(Showing(0), Showing(1), 1)
  BY ShowingIsRegistered, ReceiptIsOfShowing, ShowingGrows
<1>4. CleanTrialIsReportable([baseline |-> baseline, observed |-> afterLost,
                              result |-> undelivered], mode, amount)
  BY <1>1, <1>2, <1>3 DEF CleanTrialIsReportable
<1> DEFINE extra == IF mode = "keyed" THEN 0 ELSE 1
<1>5. 1 + extra = Top /\ extra \in {0, 1}
  BY <1>1
<1>6. /\ RefundsAreRegistered(Showing(Top), 1 + extra, mode, amount)
      /\ ReceiptMatches(OwnReceipt(Top), Showing(Top), 1 + extra)
      /\ Grows(Showing(1), Showing(Top), extra)
  BY <1>1, <1>5, ShowingIsRegistered, ReceiptIsOfShowing, ShowingGrows
<1>7. /\ PerturbedEvidence.baseline = Showing(0) /\ PerturbedEvidence.afterLost = Showing(1)
      /\ PerturbedEvidence.final = Showing(Top) /\ PerturbedEvidence.result = OwnReceipt(Top)
      /\ PerturbedEvidence.undelivered = OwnReceipt(1) /\ PerturbedEvidence.injected = 1
      /\ PerturbedEvidence.reached = <<1, 2>> /\ PerturbedEvidence.deliveries = deliveries
      /\ PerturbedEvidence.cleanup = IF deliveries # None /\ failure = "no" THEN "pass"
                                                                            ELSE "error"
  BY <1>1 DEF PerturbedEvidence
<1>8. PerturbedEvidence.cleanup = "pass" => PerturbedEvidence.deliveries = 2
  BY <1>1, <1>7
<1>9. PerturbedTrialIsReportable(PerturbedEvidence, mode, amount)
          <=> PerturbedEvidence.deliveries = 2 /\ PerturbedEvidence.cleanup = "pass"
  BY <1>2, <1>3, <1>6, <1>7 DEF PerturbedTrialIsReportable
<1> QED
  BY <1>4, <1>8, <1>9

(* A report refuses the evidence of no trial that completed and was taken  *)
(* down cleanly, and accepts none whose cleanup was an error.              *)
THEOREM CleanTrialsAreReportable == Spec => []ReportsAcceptTrials
BY TrialInvariant, InvReports, PTL

-----------------------------------------------------------------------------
(* The ledger: a commit appends the refund it answers for, and the harness *)
(* is handed a receipt where its first result is lost and its second one   *)
(* returned.  No other step changes the history or what was received.      *)

LEMMA OtherStepsKeepLedger ==
    ASSUME TrialInv, [Next]_vars
    PROVE  \/ CommitRefund \/ ReceiveReply
           \/ call = "received" /\ Schedule!SecondReturns(received) /\ db' = db
           \/ UNCHANGED <<db.events, undelivered, subjectResult>>
<1> USE DEF vars, scheduleVars, storeVars
<1>1. CASE Preflight \/ Provisioning \/ InterruptSessions
  BY <1>1 DEF Preflight, StartPreflight, PreflightSession, PreflightEnds, Provisioning,
              EnterDirectory, StartClient, StartingClient, EnterClient, ProvisionFails,
              InterruptSessions, HarnessKeeps
<1>2. CASE Client
  BY <1>2 DEF Client, CallTool, CallRaises, InvokeEnds, ClientKeeps,
              Schedule!SubjectRaises, Schedule!LossPropagates, Schedule!controller
<1>3. CASE Observer \/ Interrupt
  BY <1>3 DEF Observer, Select, Observe, ObserverRaises, Interrupt, Schedule!Interrupt,
              Schedule!RecordBaseline, Schedule!ObserveLost, Schedule!ObserveFinal,
              Schedule!ObserverRaises, Schedule!controller
<1>4. CASE Cleanup
  BY <1>4 DEF Cleanup, LeaveWorld, ReadDeliveries, ExitClient, RemoveDirectory, Closed,
              CleanupKeeps
<1>5. CASE Server
  <2>1. CASE ReturnStored
    <3>1. /\ server = "begun" /\ mode = "keyed" /\ txn.receipt # None /\ db' = txn
          /\ UNCHANGED <<undelivered, subjectResult>>
      BY <2>1 DEF ReturnStored, Stored, CommitTransaction, ServerKeeps
    <3>2. txn = Holding(Base, Base + 1) /\ db = Holding(Base, Base)
      BY <3>1 DEF TrialInv, TransactionInv, StoreInv, Statements, Before
    <3> QED
      BY <3>1, <3>2 DEF Holding
  <2>2. CASE ~ReturnStored
    BY <1>5, <2>2
       DEF Server, BeginImmediate, InsertEvent, UpdatePayment, StoreReceipt, Refuse,
           StatementFails, RollBack, Reply, AnswerWithoutEffect, ServerKeeps
  <2> QED
    BY <2>1, <2>2
<1>6. CASE ServerExits
  BY <1>6 DEF ServerExits
<1>7. CASE UNCHANGED vars
  BY <1>7
<1> QED
  BY <1>1, <1>2, <1>3, <1>4, <1>5, <1>6, <1>7 DEF Next, Harness

LEMMA CommitsToLedger ==
    ASSUME TrialInv, CommitRefund
    PROVE  Ledger!Commit(amount, RecordedKey(mode))
<1>1. /\ server = IF mode = "keyed" THEN "stored" ELSE "updated"
      /\ db' = txn /\ UNCHANGED <<undelivered, subjectResult>>
      /\ mode \in {"unsafe", "keyed"}
  BY DEF CommitRefund, CommitTransaction, ServerKeeps, scheduleVars, TrialInv
<1>2. txn = Inserting /\ db = Before /\ (mode = "keyed" => Base = 0)
  BY <1>1 DEF TrialInv, TransactionInv, StoreInv, Statements
<1>3. db.events = Refunds(Base) /\ db'.events = Refunds(Base + 1)
  BY <1>1, <1>2 DEF Before, Holding, Inserting
<1>4. /\ Len(Refunds(Base)) = Base
      /\ Append(Refunds(Base), Own(Base + 1)) = Refunds(Base + 1)
  BY ValueFacts
<1>5. db'.events = Append(db.events, [id |-> Len(db.events) + 1, amount |-> amount,
                                      key |-> RecordedKey(mode)])
  BY <1>3, <1>4 DEF Own
<1>6. RecordedKey(mode) = None \/ \A refund \in Ledger!Committed : refund.key # RecordedKey(mode)
  <2>1. CASE mode = "keyed"
    <3>1. db.events = <<>>
      BY <1>2, <1>3, <2>1 DEF Refunds
    <3> QED
      BY <3>1 DEF Ledger!Committed
  <2>2. CASE mode = "unsafe"
    BY <2>2 DEF RecordedKey
  <2> QED
    BY <1>1, <2>1, <2>2
<1> QED
  BY <1>1, <1>5, <1>6 DEF Ledger!Commit

(* Whoever is handed the receipt of a refund of the history.               *)
LEMMA DeliversFromLedger ==
    ASSUME TrialInv, db = After, NEW k \in 1..Top, UNCHANGED db,
           {undelivered', subjectResult'} \ {None}
               = ({undelivered, subjectResult} \ {None}) \cup {OwnReceipt(k)}
    PROVE  \E refund \in Ledger!Committed : Ledger!Deliver(refund)
<1>1. Top \in {1, 2} /\ db.events = Refunds(Top)
  BY EvidenceShows, CommittedRefunds
<1>2. k \in DOMAIN db.events /\ db.events[k] = Own(k)
  BY <1>1, ShowingFacts
<1>3. Own(k) \in Ledger!Committed
  BY <1>2 DEF Ledger!Committed
<1>4. Ledger!Receipt(Own(k)) = OwnReceipt(k)
  BY DEF Ledger!Receipt, Own, OwnReceipt
<1>5. Ledger!Deliver(Own(k))
  BY <1>4 DEF Ledger!Deliver
<1> QED
  BY <1>3, <1>5

LEMMA TrialStepsLedger == TrialInv /\ [Next]_vars => [Ledger!Next]_(Ledger!vars)
<1> SUFFICES ASSUME TrialInv, [Next]_vars PROVE [Ledger!Next]_(Ledger!vars)
  OBVIOUS
<1>1. /\ TransactionInv /\ StoreInv /\ EvidenceInv /\ ScheduleInv
      /\ mode \in {"unsafe", "keyed"} /\ amount \in Amounts
  BY DEF TrialInv
<1>2. CASE CommitRefund
  <2>1. RecordedKey(mode) \in {OpKey} \cup {None}
    BY DEF RecordedKey
  <2> QED
    BY <1>1, <1>2, <2>1, CommitsToLedger DEF Ledger!Next
<1>3. CASE ReceiveReply
  <2>1. /\ call = "waiting" /\ wire.kind = "reply" /\ UNCHANGED <<db, subjectResult>>
    BY <1>3 DEF ReceiveReply, ClientKeeps, storeVars, Schedule!Deliver
  <2>2. db = After /\ wire.receipt = OwnReceipt(Top) /\ reached # <<1, 2>>
    BY <1>1, <2>1 DEF StoreInv, Empty, Request, ErrorReply
  <2>3. CASE injected = None
    <3>1. undelivered' = OwnReceipt(1) /\ undelivered = None /\ subjectResult = None
      <4>1. Top = 1
        BY <2>3, ValueFacts DEF Top, Base
      <4> QED
        BY <1>1, <1>3, <2>2, <2>3, <4>1
           DEF ReceiveReply, Schedule!Deliver, EvidenceInv
    <3>2. OwnReceipt(1) # None /\ 1 \in 1..Top
      BY ValueFacts, EvidenceShows
    <3>3. {undelivered', subjectResult'} \ {None}
              = ({undelivered, subjectResult} \ {None}) \cup {OwnReceipt(1)}
      BY <2>1, <3>1, <3>2
    <3> QED
      BY <2>1, <2>2, <3>2, <3>3, DeliversFromLedger DEF Ledger!Next
  <2>4. CASE injected # None
    <3>1. UNCHANGED <<db, undelivered, subjectResult>>
      BY <1>3, <2>1, <2>4 DEF ReceiveReply, Schedule!Deliver
    <3> QED
      BY <3>1 DEF Ledger!vars
  <2> QED
    BY <2>3, <2>4
<1>4. CASE call = "received" /\ Schedule!SecondReturns(received) /\ db' = db
  <2>1. /\ schedule = "second" /\ subjectResult' = received /\ UNCHANGED undelivered
    BY <1>4 DEF Schedule!SecondReturns, Schedule!controller
  <2>2. received = OwnReceipt(Top) /\ db = After
    BY <1>1, <1>4, <2>1 DEF ScheduleInv, EvidenceInv
  <2>3. Top \in 1..Top /\ subjectResult \in {None, OwnReceipt(Top)}
    BY <1>1, EvidenceShows DEF EvidenceInv
  <2>4. OwnReceipt(Top) # None
    <3>1. OwnReceipt(Top) \in RefundReceipt
      BY <1>1, EvidenceShows DEF OwnReceipt, RefundReceipt
    <3> QED
      BY <3>1, McpRefundAssumption
  <2>5. {undelivered', subjectResult'} \ {None}
            = ({undelivered, subjectResult} \ {None}) \cup {OwnReceipt(Top)}
    BY <2>1, <2>2, <2>3, <2>4
  <2> QED
    BY <1>4, <2>2, <2>3, <2>5, DeliversFromLedger DEF Ledger!Next
<1>5. CASE UNCHANGED <<db.events, undelivered, subjectResult>>
  BY <1>5 DEF Ledger!vars
<1> QED
  BY <1>2, <1>3, <1>4, <1>5, OtherStepsKeepLedger

(* The tool's store, transaction and server process and all, keeps the     *)
(* promise of the in-memory provider: an append-only history, a key used   *)
(* once, and no receipt without its refund.                                *)
THEOREM ImplementsLedger == Spec => KeepsLedger
<1>1. Init => Ledger!Init
  BY DEF Init, Ledger!Init, FreshDatabase, Schedule!InitController
<1> QED
  BY <1>1, TrialInvariant, TrialStepsLedger, PTL DEF Spec, KeepsLedger, Ledger!Spec

-----------------------------------------------------------------------------
(* Types.  What the invariant above does not mention is hardly touched.    *)

RestTyped ==
    /\ variants \in [preflight: Variant, world: Variant]
    /\ held = FALSE
    /\ received \in RefundReceipt \cup {None}

LEMMA ReceiptTyped ==
    ASSUME TrialInv, NEW k \in {1, 2}
    PROVE  OwnReceipt(k) \in RefundReceipt
BY DEF TrialInv, OwnReceipt, RefundReceipt

LEMMA RestTypedNext == TrialInv /\ RestTyped /\ [Next]_vars => RestTyped'
<1> SUFFICES ASSUME TrialInv, RestTyped, [Next]_vars PROVE RestTyped'
  OBVIOUS
<1> USE DEF lifecycleVars, scheduleVars, callVars
<1>1. /\ UNCHANGED <<variants, held>>
      /\ received' = received \/ received' = None \/ ReceiveReply
  <2>1. CASE Preflight \/ Provisioning \/ InterruptSessions
    BY <2>1 DEF Preflight, StartPreflight, PreflightSession, PreflightEnds, Provisioning,
                EnterDirectory, StartClient, StartingClient, EnterClient, ProvisionFails,
                InterruptSessions, HarnessKeeps
  <2>2. CASE Client
    BY <2>2 DEF Client, CallTool, ReceiveReply, CallRaises, InvokeEnds, ClientKeeps,
                Schedule!Deliver, Schedule!SubjectRaises, Schedule!LossPropagates,
                Schedule!SecondReturns
  <2>3. CASE Observer \/ Interrupt
    BY <2>3 DEF Observer, Select, Observe, ObserverRaises, Interrupt, Schedule!Interrupt,
                Schedule!RecordBaseline, Schedule!ObserveLost, Schedule!ObserveFinal,
                Schedule!ObserverRaises
  <2>4. CASE Cleanup
    BY <2>4 DEF Cleanup, LeaveWorld, ReadDeliveries, ExitClient, RemoveDirectory, Closed,
                CleanupKeeps
  <2>5. CASE Server
    BY <2>5 DEF Server, BeginImmediate, ReturnStored, CommitRefund, CommitTransaction,
                InsertEvent, UpdatePayment, StoreReceipt, Refuse, StatementFails,
                RollBack, Reply, AnswerWithoutEffect, ServerKeeps
  <2>6. CASE ServerExits \/ UNCHANGED vars
    BY <2>6 DEF ServerExits, vars
  <2> QED
    BY <2>1, <2>2, <2>3, <2>4, <2>5, <2>6 DEF Next, Harness
<1>2. ReceiveReply => received' \in RefundReceipt
  <2> SUFFICES ASSUME ReceiveReply PROVE received' \in RefundReceipt
    OBVIOUS
  <2>1. received' = wire.receipt /\ wire.kind = "reply"
    BY DEF ReceiveReply
  <2>2. wire.receipt = OwnReceipt(Top)
    BY <2>1 DEF TrialInv, StoreInv, Empty, Request, ErrorReply
  <2> QED
    BY <2>1, <2>2, ReceiptTyped, EvidenceShows
<1> QED
  BY <1>1, <1>2 DEF RestTyped

LEMMA TransactionTyped ==
    ASSUME TrialInv
    PROVE  txn \in Database \cup {None}
<1>1. TransactionInv /\ Base \in {0, 1} /\ Base \in Nat /\ Base + 1 \in Nat
      /\ Base + 1 \in {0, 1, 2}
  BY ValueFacts DEF TrialInv
<1>2. Holding(Base, Base + 1) \in Database
  BY <1>1, HoldingTyped
<1>3. Inserting \in Database
  <2>1. Total(Base) \in Nat /\ Total(Base + 1) \in Nat
    BY ValueFacts DEF Total
  <2>2. Refunds(Base + 1) \in Seq(RefundEvent)
    BY <1>1, ShowingFacts
  <2>3. OwnReceipt(1) \in RefundReceipt
    BY ReceiptTyped
  <2> QED
    BY <1>1, <2>1, <2>2, <2>3 DEF Inserting, Database
<1> QED
  BY <1>1, <1>2, <1>3 DEF TransactionInv, Statements

LEMMA InvTypes == TrialInv /\ RestTyped => TypeOK
<1> SUFFICES ASSUME TrialInv, RestTyped PROVE TypeOK
  OBVIOUS
<1>1. /\ TransactionInv /\ StoreInv /\ EvidenceInv /\ ScheduleInv /\ ObserverInv
      /\ DeliveriesInv /\ SessionInv /\ WorldInv
      /\ mode \in {"unsafe", "keyed"} /\ amount \in Amounts /\ Top \in {1, 2}
  BY EvidenceShows DEF TrialInv
<1>2. OwnReceipt(1) \in RefundReceipt /\ OwnReceipt(Top) \in RefundReceipt
  BY <1>1, ReceiptTyped
<1>3. SessionTypeOK
  <2>1. \A s \in Stacks : IsPrefix(s, Contexts)
    <3>1. /\ IsPrefix(<<>>, Contexts) /\ IsPrefix(Contexts, Contexts)
          /\ IsPrefix(<<"stderr">>, Contexts)
      BY DEF Contexts, IsPrefix
    <3>2. IsPrefix(<<"stderr", "portal">>, Contexts)
      BY DEF Contexts, IsPrefix
    <3>3. IsPrefix(<<"stderr", "portal", "process">>, Contexts)
      BY DEF Contexts, IsPrefix
    <3> QED
      BY <3>1, <3>2, <3>3 DEF Stacks
  <2> QED
    BY <1>1, <2>1 DEF SessionTypeOK, SessionInv
<1>4. db \in Database /\ txn \in Database \cup {None}
  BY DatabaseHolds, TransactionTyped
<1>5. wire \in Messages /\ answer \in RefundReceipt \cup {None}
  BY <1>1, <1>2 DEF StoreInv, TransactionInv, Messages
<1>6. Schedule!TypeOK
  <2>1. {Showing(0), Showing(1), Showing(Top)} \subseteq Observation
    BY <1>1, HoldingTyped
  <2>2. /\ <<>> \in Seq({1, 2}) /\ <<1>> \in Seq({1, 2}) /\ <<1, 2>> \in Seq({1, 2})
    OBVIOUS
  <2>3. reached \in Seq({1, 2})
    BY <1>1, <2>2 DEF EvidenceInv
  <2>4. /\ schedule \in Schedule!Statements \cup Schedule!Outcomes
        /\ signal \in {"none", "lost"} /\ held \in BOOLEAN
        /\ injected \in {1, 2} \cup {None}
    BY <1>1 DEF ScheduleInv, EvidenceInv, RestTyped, Schedule!Statements,
                Schedule!Outcomes
  <2>5. /\ undelivered \in RefundReceipt \cup {None}
        /\ subjectResult \in RefundReceipt \cup {None}
        /\ baseline \in Observation \cup {None} /\ afterLost \in Observation \cup {None}
        /\ final \in Observation \cup {None}
    BY <1>1, <1>2, <2>1 DEF EvidenceInv
  <2> QED
    BY <2>3, <2>4, <2>5 DEF Schedule!TypeOK, Schedule!Attempt
<1>7. server \in Statements \cup {"idle", "committed"}
      /\ call \in {"none", "waiting", "received"} /\ reads \in 0..3 /\ seen \in Observation
      /\ deliveries \in Nat \cup {None}
      /\ world \in {"preflight", "preflighting", "refused", "provisioning", "open",
                    "closing", "releasing", "closed", "abandoned"}
      /\ resources \in {<<>>, <<"directory">>, <<"directory", "client">>}
  BY <1>1 DEF TransactionInv, ScheduleInv, ObserverInv, DeliveriesInv, WorldInv
<1> QED
  BY <1>1, <1>3, <1>4, <1>5, <1>6, <1>7 DEF TypeOK, RestTyped

(* Every variable keeps its type, the data that come out of the server's   *)
(* database and its answers included.                                      *)
THEOREM TypeCorrect == Spec => []TypeOK
<1>1. Init => RestTyped
  <2> SUFFICES ASSUME Init PROVE RestTyped
    OBVIOUS
  <2>1. variants \in Configurations /\ held = FALSE /\ received = None
    BY DEF Init, Schedule!InitController
  <2>2. Configurations \subseteq [preflight: Variant, world: Variant]
    BY DEF Configurations, Variant
  <2> QED
    BY <2>1, <2>2 DEF RestTyped
<1> QED
  BY <1>1, TrialInvariant, RestTypedNext, InvTypes, PTL DEF Spec
=============================================================================
