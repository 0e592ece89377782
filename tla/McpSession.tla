----------------------------- MODULE McpSession -----------------------------
(***************************************************************************)
(* One use at a time of McpStdioToolClient (_mcp_stdio.py) and the server  *)
(* process it starts (_mcp_refund_server.py): the contexts __enter__ puts  *)
(* on the ExitStack, their rollback, discovery and its verdict, __exit__,  *)
(* and an interrupt anywhere.  The server may exit at any moment and may   *)
(* never answer; every request to it ends by read_timeout_seconds.         *)
(***************************************************************************)
EXTENDS Naturals, SequencesExt

VARIABLES
    client,   \* the statement the client stands at, "out" when it is unused
    stack,    \* self._stack: the contexts entered and not yet closed
    process,  \* the server process: "none", "running", or "exited" by itself
    serves,   \* its --variant
    failure   \* how the last use failed, "no" if it did not

sessionVars == <<client, stack, process, serves, failure>>

Contexts == <<"stderr", "portal", "process", "session">>

Variant == {"normal", "no_tools", "wrong_schema", "wrong_input_type",
            "wrong_output_type", "discovery_hang", "discovery_exit",
            "startup_exit", "tool_error", "tool_exit", "unstructured", "hang"}

Failure == {"no", "startup", "startup_rollback", "discovery", "capability",
            "interrupt", "cleanup"}

SessionTypeOK ==
    /\ client \in {"out", "entering", "rollback", "inside", "listing",
                   "validated", "closing", "abandoned"}
    /\ IsPrefix(stack, Contexts)
    /\ process \in {"none", "running", "exited"}
    /\ serves \in Variant
    /\ failure \in Failure

SessionInit ==
    /\ client = "out" /\ stack = <<>> /\ process = "none"
    /\ serves = "normal" /\ failure = "no"

-----------------------------------------------------------------------------
(* The schemas: what is required of the tool, and what each variant lists. *)

InputSchema == {<<"payment_id", "string">>, <<"amount_minor_units", "integer">>,
                <<"operation_key", "string">>}
OutputSchema == {<<"refund_id", "string">>, <<"payment_id", "string">>,
                 <<"amount_minor_units", "integer">>}

Retyped(schema, field, type) ==
    {IF f[1] = field THEN <<field, type>> ELSE f : f \in schema}

ListedInput(variant) ==
    CASE variant = "wrong_schema" -> {<<"payment_id", "string">>}
      [] variant = "wrong_input_type" -> Retyped(InputSchema, "amount_minor_units", "string")
      [] OTHER -> InputSchema

ListedOutput(variant) ==
    CASE variant = "wrong_schema" -> {<<"result", "string">>}
      [] variant = "unstructured" -> {}
      [] variant = "wrong_output_type" -> Retyped(OutputSchema, "amount_minor_units", "string")
      [] OTHER -> OutputSchema

(* _validate_schema: every required field, with its type.                  *)
Provides(schema, expected) == expected \subseteq schema

SatisfiesToolContract(variant) ==
    /\ Provides(ListedInput(variant), InputSchema)
    /\ Provides(ListedOutput(variant), OutputSchema)

-----------------------------------------------------------------------------
(* __enter__, and its rollback.                                            *)

EnterSession(variant) ==
    /\ client = "out"
    /\ client' = "entering" /\ serves' = variant /\ failure' = "no"
    /\ UNCHANGED <<stack, process>>

EnterContext ==
    /\ client = "entering" /\ stack # Contexts
    /\ LET context == Contexts[Len(stack) + 1]
       IN  /\ stack' = Append(stack, context)
           /\ process' = IF context = "process" THEN "running" ELSE process
    /\ UNCHANGED <<client, serves, failure>>

Initialize ==
    /\ client = "entering" /\ stack = Contexts
    /\ process = "running" /\ serves # "startup_exit"
    /\ client' = "inside"
    /\ UNCHANGED <<stack, process, serves, failure>>

(* Slip: __enter__ raises without closing what it has entered.             *)
EnterFailsOpen ==
    /\ client = "entering"
    /\ client' = "out" /\ stack' = <<>> /\ failure' = "startup"
    /\ UNCHANGED <<process, serves>>

(* A context cannot be entered, or initialize() fails or times out.        *)
EnterFails ==
    /\ client = "entering"
    /\ client' = "rollback" /\ failure' = "startup"
    /\ UNCHANGED <<stack, process, serves>>

-----------------------------------------------------------------------------
(* validate_capabilities.                                                  *)

Refuses(reason) ==
    /\ client' = "closing" /\ failure' = reason
    /\ UNCHANGED <<stack, process, serves>>

CapabilityMissing == client = "inside" /\ serves = "no_tools" /\ Refuses("capability")

RequestTools ==
    /\ client = "inside" /\ serves # "no_tools"
    /\ client' = "listing"
    /\ UNCHANGED <<stack, process, serves, failure>>

ListsTools == /\ client = "listing" /\ process = "running"
              /\ serves \notin {"discovery_hang", "discovery_exit"}

AcceptTool ==
    /\ ListsTools /\ SatisfiesToolContract(serves)
    /\ client' = "validated"
    /\ UNCHANGED <<stack, process, serves, failure>>

RefuseTool == ListsTools /\ ~SatisfiesToolContract(serves) /\ Refuses("capability")

DiscoveryFails == client = "listing" /\ Refuses("discovery")

-----------------------------------------------------------------------------
(* __exit__ and the rollback close the stack, last in, first out; a close  *)
(* that raises does not keep the others from being closed.                 *)

BeginExit ==
    /\ client \in {"inside", "validated"}
    /\ client' = "closing"
    /\ UNCHANGED <<stack, process, serves, failure>>

ClosingStack == client \in {"rollback", "closing"} /\ stack # <<>>

CloseContext ==
    /\ ClosingStack
    /\ stack' = Front(stack)
    /\ process' = IF Last(stack) = "process" THEN "none" ELSE process
    /\ UNCHANGED <<client, serves, failure>>

CloseContextFails ==
    /\ ClosingStack
    /\ stack' = Front(stack)
    /\ failure' = IF client = "rollback" THEN "startup_rollback" ELSE "cleanup"
    /\ UNCHANGED <<client, process, serves>>

LeaveSession ==
    /\ client \in {"rollback", "closing"} /\ stack = <<>>
    /\ client' = "out"
    /\ UNCHANGED <<stack, process, serves, failure>>

-----------------------------------------------------------------------------
(* The process may end by itself whenever it runs.                         *)
ProcessExits ==
    /\ process = "running"
    /\ process' = "exited"
    /\ UNCHANGED <<client, stack, serves, failure>>

(* KeyboardInterrupt is not caught in __enter__: what has been entered     *)
(* stays open.  Inside the with statement it leads to __exit__ like any    *)
(* other exception, and in a close of the stack to the next close.         *)
InterruptSession ==
    \/ /\ client = "entering"
       /\ client' = "abandoned" /\ failure' = "interrupt"
       /\ UNCHANGED <<stack, process, serves>>
    \/ client \in {"inside", "listing", "validated"} /\ Refuses("interrupt")
    \/ /\ ClosingStack
       /\ stack' = Front(stack) /\ failure' = "interrupt"
       /\ UNCHANGED <<client, process, serves>>

Entering == EnterContext \/ Initialize \/ EnterFails
Discovering == CapabilityMissing \/ RequestTools \/ AcceptTool \/ RefuseTool \/ DiscoveryFails
Leaving == CloseContext \/ CloseContextFails \/ LeaveSession
=============================================================================
