----------------------------- MODULE WebhookCalls -----------------------------
(***************************************************************************)
(* receive_webhook of WorkflowService, which an outside system calls while *)
(* the owner's requests change the workflow, its settings and the registry *)
(* under it.  A call resolves its path, reads the workflow, and reads it   *)
(* once more in execute_workflow, each in a transaction of its own, before *)
(* the execution row is created; what happens to the row from there is     *)
(* ServerlessDispatch and AgentChannel.                                    *)
(*                                                                         *)
(* A path and its secret are named by the request that registered them.    *)
(***************************************************************************)
EXTENDS WorkflowStore

CONSTANT Caller     \* calls an outside system makes

ASSUME HookAssumption == None \notin Operations

VARIABLES
    call,       \* per call: where it stands, its path, the secret that signed it, its binding's workflow
    started,    \* per call: the workflow of the execution row it created
    held        \* history, per call: what was so of its path at the moments since it arrived

hookVars == <<call, started, held>>

Idle == [at |-> "idle", path |-> None, key |-> None, workflow |-> None]

HookInit ==
    /\ call = [c \in Caller |-> Idle]
    /\ started = [c \in Caller |-> None]
    /\ held = [c \in Caller |-> {}]

Bound(p) == {w \in Workflow : p \in bindings[w]}

(* What is so of a path: somebody answers to it; its workflow is active. *)
Facts(p) == [bound |-> Bound(p) # {}, active |-> on[p] \in ActiveWorkflows]

UnderWay == {c \in Caller : call[c].at \in {"resolve", "row", "execute", "create"}}

Observe ==
    held' = [c \in Caller |->
               held[c] \cup IF c \in UnderWay THEN {Facts(p)' : p \in {call[c].path}} ELSE {}]

Move(c, from, to) ==
    /\ call[c].at = from
    /\ call' = [call EXCEPT ![c].at = to]
    /\ UNCHANGED vars /\ Observe

-----------------------------------------------------------------------------
(* A path that was handed out, or is about to be; a signature made with    *)
(* its secret, with another's, or none.                                    *)
Arrive(c, p, k) ==
    /\ call[c].at = "idle" /\ op[p] = "register"
    /\ call' = [call EXCEPT ![c] = [at |-> "resolve", path |-> p, key |-> k, workflow |-> None]]
    /\ held' = [held EXCEPT ![c] = {Facts(p)}]
    /\ UNCHANGED <<vars, started>>

(* Mutant: a call without a signature passes. *)
Signed_Unsigned(c) == call[c].key \in {call[c].path, None}

Signed(c) == call[c].key = call[c].path

Resolve(c) ==
    \/ Bound(call[c].path) = {} /\ Move(c, "resolve", "404") /\ UNCHANGED started
    \/ /\ Bound(call[c].path) # {} /\ ~Signed(c)
       /\ Move(c, "resolve", "401") /\ UNCHANGED started
    \/ \E w \in Bound(call[c].path) :
          /\ call[c].at = "resolve" /\ Signed(c)
          /\ call' = [call EXCEPT ![c].at = "row", ![c].workflow = w]
          /\ UNCHANGED <<vars, started>> /\ Observe

(* The read in receive_webhook, and that of execute_workflow. *)
ReadRow(c) ==
    \E step \in {<<"row", "execute">>, <<"execute", "create">>} :
        /\ Move(c, step[1], IF call[c].workflow \in ActiveWorkflows THEN step[2] ELSE "409")
        /\ UNCHANGED started

CreateExecution(c) ==
    /\ Move(c, "create", "202")
    /\ started' = [started EXCEPT ![c] = call[c].workflow]

(* A call on the database fails, or execute_workflow refuses a reference. *)
CallBreaks(c) ==
    /\ "hook" \in FailingCalls
    /\ \E at \in {"resolve", "row", "execute", "create"} : Move(c, at, "failed")
    /\ UNCHANGED started

(* The owner's requests go on meanwhile; a restart ends the calls too. *)
OwnerActs ==
    /\ Next
    /\ Observe
    /\ call' = [c \in Caller |->
                  IF restarts' # restarts /\ c \in UnderWay THEN [call[c] EXCEPT !.at = "failed"] ELSE call[c]]
    /\ UNCHANGED started

Receive(c) == Resolve(c) \/ ReadRow(c) \/ CreateExecution(c) \/ CallBreaks(c)

HookNext ==
    \/ OwnerActs
    \/ \E c \in Caller : Receive(c) \/ \E p \in Request, k \in Request \cup {None} : Arrive(c, p, k)

HookSpec == Init /\ HookInit /\ [][HookNext]_<<vars, hookVars>>

-----------------------------------------------------------------------------
(* Every answer is true of some moment between the call's arrival and the  *)
(* answer, whatever the owner's requests do: an execution is started only  *)
(* by who holds the secret of a path that was bound, on the workflow it    *)
(* was registered for and while that was active; 404 and 409 were so.      *)
AnswersAreTrue ==
    \A c \in Caller :
        /\ started[c] # None =>
             /\ call[c].key = call[c].path /\ started[c] = on[call[c].path]
             /\ \E h \in held[c] : h.bound
             /\ \E h \in held[c] : h.active
        /\ call[c].at = "404" => \E h \in held[c] : ~h.bound
        /\ call[c].at = "409" => \E h \in held[c] : ~h.active

(* When the owner's requests come one after the other, the two are so at   *)
(* one moment: nothing is started by a path that was given up while its    *)
(* workflow was deleted, although the two are read apart.                  *)
StartedAtOneMoment ==
    \A c \in Caller : started[c] # None => \E h \in held[c] : h.bound /\ h.active

(* What a webhook's caller is told and starts.                             *)
WebhookCallsHonest == AnswersAreTrue /\ (~mixed => StartedAtOneMoment)

(* What makes the second part inductive: a call that has resolved its path *)
(* saw it bound at a moment when the workflow was active, unless it had    *)
(* been deleted by then, and so is for good.                               *)
Deleted == {w \in Workflow : row[w] # None /\ ~row[w].active}

SawBoth(c) ==
    ~mixed /\ call[c].at \in {"row", "execute", "create", "202"} =>
        \/ \E h \in held[c] : h.bound /\ h.active
        \/ call[c].at = "row" /\ call[c].workflow \in Deleted
=============================================================================
