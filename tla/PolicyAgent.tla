------------------------------ MODULE PolicyAgent ------------------------------
(***************************************************************************)
(* POST /v1/policy/extract_reflective (AI_Agent/app/main.py): one chunk of *)
(* a document, a language model that drives tools through run_agent        *)
(* (agents/agent_loop.py), and the state that the tools of                 *)
(* policy_extract_agent.py keep in their closure.                          *)
(*                                                                         *)
(* A turn is one step: the model answers, the loop dispatches the call,    *)
(* and its handler runs to the end.  Nothing else touches the closure.     *)
(* What the model answers is arbitrary, unless it follows its goal.        *)
(*                                                                         *)
(* A list of drafts is known by what the evaluator tells apart: "none" is  *)
(* the empty one, "vague" has only drafts that need clarification.         *)
(***************************************************************************)
EXTENDS Integers, Sequences

CONSTANTS MaxIters   \* the values of max_iter that requests carry

ASSUME PolicyAgentAssumption == MaxIters \subseteq 1..5

VARIABLES
    maxIter, chunk, pools,   \* the request; the retrieval pools that are not empty
    turns, last,             \* run_agent: turns taken, the last signature
    iterations, inFlight, parseError,   \* the closure of the tools
    report,                  \* history: the last evaluation, "fails" if it raised
    latest,                  \* history: the last extraction that returned
    first,                   \* history: whether the first answer to an extraction parsed
    outcome                  \* the response, NoOutcome while the loop runs

request == <<maxIter, chunk, pools>>
closure == <<iterations, inFlight, parseError>>
history == <<report, latest, first>>
vars == <<request, turns, last, closure, history, outcome>>

Drafts == {"none", "vague", "clear"}
Absent == "absent"
Chunks == {"blank", "plain", "imperative"}
Args == {"{}", "other"}
NoOutcome == [reason |-> "running", payload |-> "none", candidates |-> "none"]

-----------------------------------------------------------------------------
(* A search tool is registered if its pool holds anything. *)
Registered == {"extract", "evaluate", "check"} \cup pools

(* The bound on turns.  Mutant: no headroom over two turns a pass. *)
LoopBudget_Tight == IF 10 < 2 * maxIter THEN 2 * maxIter ELSE 10

LoopBudget == IF 10 < 2 * maxIter + 6 THEN 2 * maxIter + 6 ELSE 10

Init ==
    /\ maxIter \in MaxIters
    /\ chunk \in Chunks
    /\ pools \in SUBSET {"personal", "baselines"}
    /\ turns = 0 /\ last = <<>>
    /\ iterations = <<>> /\ inFlight = Absent /\ parseError = FALSE
    /\ report = "none" /\ latest = "none" /\ first = "none"
    /\ outcome = NoOutcome

Newest(trace) == IF trace = <<>> THEN "none" ELSE trace[Len(trace)]

(* extract_policies, and the evaluator's rules in their order. *)
Extracted == IF chunk = "blank" THEN {"none"} ELSE Drafts

Verdict(drafts) ==
    IF iterations # <<>> /\ drafts = Newest(iterations) THEN "converge"
    ELSE IF drafts = "none" /\ chunk = "imperative" THEN "retry"
    ELSE IF drafts = "vague" THEN "retry"
    ELSE "converge"

(* The judge may overturn a "converge" while there are passes left; an     *)
(* answer of its that does not parse counts as no concern.                 *)
Verdicts(drafts) ==
    IF Verdict(drafts) = "converge" /\ Len(iterations) + 1 < maxIter
    THEN {"converge", "retry"}
    ELSE {Verdict(drafts)}

-----------------------------------------------------------------------------
(* The end of the loop and what the route makes of it.  An extraction that *)
(* was not evaluated still joins the trace; the payload of finish wins     *)
(* unless it is empty or malformed.                                        *)
(* Mutant: only what was evaluated counts. *)
Trace_Evaluated == iterations

Trace == IF inFlight = Absent THEN iterations ELSE Append(iterations, inFlight)

Respond(reason, payload) ==
    /\ outcome = NoOutcome
    /\ outcome' =
         [reason |-> IF parseError THEN "502" ELSE reason,
          payload |-> payload,
          candidates |-> IF payload # "none" THEN payload
                         ELSE Newest(Trace)]
    /\ UNCHANGED <<request, turns, last, closure, history>>

MayAnswer == outcome = NoOutcome /\ turns < LoopBudget

Unparseable == MayAnswer /\ Respond("schema_error", "none")

Finish(payload) == MayAnswer /\ Respond("converge", payload)

Exhausted == turns = LoopBudget /\ Respond("max_iter_exhausted", "none")

(* The same call twice in a row ends the loop. *)
Repeat(tool, args) == MayAnswer /\ last = <<tool, args>> /\ Respond("no_change", "none")

(* An exception of the backend itself leaves the loop. *)
BackendFails ==
    /\ MayAnswer
    /\ outcome' = [NoOutcome EXCEPT !.reason = "500"]
    /\ UNCHANGED <<request, turns, last, closure, history>>

Dispatch(tool, args) ==
    /\ MayAnswer
    /\ last # <<tool, args>>
    /\ last' = <<tool, args>>
    /\ turns' = turns + 1
    /\ UNCHANGED <<request, outcome>>

(* Mutant: a turn is not counted when the tool is unknown. *)
Unregistered_Free(tool, args) ==
    /\ MayAnswer /\ last # <<tool, args>>
    /\ tool \notin Registered
    /\ last' = <<tool, args>>
    /\ UNCHANGED <<request, turns, outcome, closure, history>>

Unregistered(tool, args) ==
    /\ Dispatch(tool, args)
    /\ tool \notin Registered
    /\ UNCHANGED <<closure, history>>

(* The two searches, the schema check and the citation lookup only return. *)
Search(tool, args) ==
    /\ tool \in pools
    /\ Dispatch(tool, args)
    /\ UNCHANGED <<closure, history>>

Check(args) ==
    /\ Dispatch("check", args)
    /\ UNCHANGED <<closure, history>>

Extract(args) ==
    /\ Dispatch("extract", args)
    /\ inFlight' \in Extracted
    /\ latest' = inFlight'
    /\ report' = "none"
    /\ first' = IF first = "none" THEN "parsed" ELSE first
    /\ UNCHANGED <<iterations, parseError>>

(* The model's answer does not parse, or its backend fails: the loop gets  *)
(* the error as an observation, and what was in flight stays.              *)
ExtractFails(args) ==
    /\ Dispatch("extract", args)
    /\ chunk # "blank"
    /\ \/ /\ parseError' = (parseError \/ iterations = <<>>)
          /\ first' = IF first = "none" THEN "unparsed" ELSE first
       \/ UNCHANGED <<parseError, first>>
    /\ report' = "fails"
    /\ UNCHANGED <<iterations, inFlight, latest>>

EvaluateNothing(args) ==
    /\ Dispatch("evaluate", args)
    /\ inFlight = Absent
    /\ UNCHANGED <<closure, history>>

Evaluate(args) ==
    /\ Dispatch("evaluate", args)
    /\ inFlight # Absent
    /\ report' \in Verdicts(inFlight)
    /\ iterations' = Append(iterations, inFlight)
    /\ inFlight' = Absent
    /\ UNCHANGED <<parseError, latest, first>>

JudgeFails(args) ==
    /\ Dispatch("evaluate", args)
    /\ inFlight # Absent
    /\ Verdicts(inFlight) = {"converge", "retry"}
    /\ report' = "fails"
    /\ UNCHANGED <<closure, latest, first>>

Tools == {"extract", "evaluate", "check", "personal", "baselines", "unknown"}

Turn(args) ==
    \/ \E tool \in Tools : Repeat(tool, args) \/ Unregistered(tool, args)
    \/ \E pool \in pools : Search(pool, args)
    \/ Check(args)
    \/ Extract(args) \/ ExtractFails(args)
    \/ EvaluateNothing(args) \/ Evaluate(args) \/ JudgeFails(args)

Next ==
    \/ \E args \in Args : Turn(args)
    \/ \E payload \in Drafts : Finish(payload)
    \/ Unparseable \/ BackendFails \/ Exhausted

(* Every call of the backend returns or raises. *)
Fairness == WF_vars(Next)

Spec == Init /\ [][Next]_vars /\ Fairness

-----------------------------------------------------------------------------
(* Every variable stays in its range: no turn beyond the budget. *)
TypeOK ==
    /\ maxIter \in MaxIters /\ chunk \in Chunks /\ pools \subseteq {"personal", "baselines"}
    /\ turns \in 0..LoopBudget
    /\ last \in (Tools \X Args) \cup {<<>>}
    /\ iterations \in Seq(Drafts) /\ inFlight \in Drafts \cup {Absent}
    /\ parseError \in BOOLEAN
    /\ report \in {"none", "converge", "retry", "fails"}
    /\ latest \in Drafts /\ first \in {"none", "parsed", "unparsed"}
    /\ outcome \in [reason : {"running", "converge", "max_iter_exhausted", "no_change",
                              "schema_error", "500", "502"},
                     payload : Drafts, candidates : Drafts]

(* What the closure holds is the last extraction, evaluated or in flight. *)
ClosureInv == Newest(Trace) = latest

(* However the run ends, the candidates of an answer that carries any are  *)
(* the payload of finish or else the last extraction that returned, also   *)
(* when it was not evaluated, or a later one or its judge failed.          *)
LastExtractionSurfaces ==
    outcome.reason \notin {"running", "500", "502"} =>
        outcome.candidates = IF outcome.payload # "none" THEN outcome.payload ELSE latest

(* run_policy_extract_agent: "Later-iteration parse failures get folded    *)
(* into the agent trace"; only the first one ends the request.             *)
LaterFailuresFolded == outcome.reason = "502" => first = "unparsed"

(* Whatever the model answers, the request is answered.                    *)
AgentTerminates == <>(outcome # NoOutcome)
=============================================================================
