----------------------------- MODULE RlnAnswers -----------------------------
(***************************************************************************)
(* What the companion makes of a reply of the node: the errors of its own  *)
(* client (rln.rs), what the engine reads into them, and what the proxy    *)
(* learns from the reply to a client's call.  A reply is its HTTP status   *)
(* (0: none came), whether the body parses, and the code and name in it.   *)
(***************************************************************************)
EXTENDS Naturals

NoReply == [status |-> 0, readable |-> FALSE, code |-> 0, name |-> "none"]

Success == [status |-> 200, readable |-> TRUE, code |-> 200, name |-> "none"]

Refusal(status, name) ==
    [status |-> status, readable |-> TRUE, code |-> status, name |-> name]

IsSuccess(r) == r.status \in 200..299

\* RlnError; "Ok" stands for a result.
Result(kind) == [kind |-> kind, code |-> 0, name |-> "none"]

Api(code, name) == [kind |-> "Api", code |-> code, name |-> name]

\* Mutant of ClassifyError: a node that changes state is another error.
ClassifyErrorChanging(r) ==
    CASE ~r.readable -> Api(r.status, "Unknown")
      [] r.readable /\ r.status = 403 /\ r.name = "LockedNode" -> Result("Locked")
      [] OTHER -> Api(r.code, r.name)

\* classify_error: the status decides with the name; without a readable body the
\* status stands for the code.
ClassifyError(r) ==
    CASE ~r.readable -> Api(r.status, "Unknown")
      [] r.readable /\ r.status = 403 /\ r.name \in {"LockedNode", "ChangingState"} ->
            Result("Locked")
      [] r.readable /\ r.status = 403 /\ r.name = "CannotFailBatchTransfer" ->
            Result("CannotFail")
      [] OTHER -> Api(r.code, r.name)

\* send
Send(r) ==
    CASE r = NoReply  -> Result("Transport")
      [] IsSuccess(r) -> Result(IF r.readable THEN "Ok" ELSE "Decode")
      [] OTHER        -> ClassifyError(r)

\* auth_fault: the error that makes the node misconfigured.
AuthFault(e) ==
    /\ e.kind = "Api"
    /\ \/ e.code = 401
       \/ e.code = 403 /\ e.name = "Forbidden"

\* A call's answer as the engine tells them apart: fault, after auth_fault.
Answer(r) ==
    LET e == Send(r) IN
    CASE e.kind \in {"Ok", "Locked", "Transport"} -> e.kind
      [] AuthFault(e)                             -> "Denied"
      [] OTHER                                    -> "Other"

\* The node state note_locked reads off the reply to a client's call.
Reveals(r) ==
    CASE r.readable /\ r.status = 403 /\ r.name \in {"LockedNode", "ChangingState"} ->
            "Locked"
      [] r.readable /\ r.status = 403 /\ r.name \in {"UnlockedNode", "AlreadyUnlocked"} ->
            "Unlocked"
      [] OTHER -> "Nothing"
=============================================================================
