------------------------------- MODULE PolicyGoal -------------------------------
(***************************************************************************)
(* PolicyAgent driven by a model that follows its goal, the prompt that    *)
(* _system_goal (policy_extract_agent.py) writes: search at most once a    *)
(* pool and before the first extraction; extract, evaluate, extract again  *)
(* on "retry", at most max_iter times; finish with the drafts of the last  *)
(* extraction.  The helpers are left to its discretion; the budget allows  *)
(* for two calls of them.  After an error it retries with other arguments  *)
(* or finishes.                                                            *)
(***************************************************************************)
EXTENDS PolicyAgent

VARIABLES obedient,    \* the model follows its goal, in this run
          passes, searched, helped   \* what it has done, if so

goalVars == <<obedient, passes, searched, helped>>

GoalInit ==
    /\ Init
    /\ obedient \in BOOLEAN
    /\ passes = 0 /\ searched = {} /\ helped = 0

FirstSearch(args) ==
    \E pool \in pools \ searched :
        /\ passes = 0
        /\ Search(pool, args)
        /\ searched' = searched \cup {pool}
        /\ UNCHANGED <<obedient, passes, helped>>

Pass(args) ==
    /\ passes < maxIter
    /\ passes = 0 \/ report \in {"retry", "fails"}
    /\ inFlight = Absent
    /\ Extract(args) \/ ExtractFails(args)
    /\ passes' = passes + 1
    /\ UNCHANGED <<obedient, searched, helped>>

Assess(args) ==
    /\ report # "fails"
    /\ Evaluate(args) \/ JudgeFails(args)
    /\ UNCHANGED goalVars

Help(args) ==
    /\ helped < 2
    /\ passes > 0
    /\ Check(args)
    /\ helped' = helped + 1
    /\ UNCHANGED <<obedient, passes, searched>>

Conclude ==
    /\ passes > 0
    /\ \/ inFlight = Absent /\ (report = "converge" \/ passes = maxIter)
       \/ report = "fails"
    /\ Finish(latest)
    /\ UNCHANGED goalVars

GoalNext ==
    \/ ~obedient /\ Next /\ UNCHANGED goalVars
    \/ /\ obedient
       /\ \/ \E args \in Args : FirstSearch(args) \/ Pass(args) \/ Assess(args) \/ Help(args)
          \/ Conclude
          \/ Exhausted /\ UNCHANGED goalVars

GoalSpec == GoalInit /\ [][GoalNext]_<<vars, goalVars>> /\ WF_<<vars, goalVars>>(GoalNext)

-----------------------------------------------------------------------------
(* The loop has turns enough for what the goal asks for: a model that      *)
(* follows it gets to finish, with the drafts it last extracted, and is    *)
(* answered 502 only if the first answer to an extraction did not parse,   *)
(* as the docstring of run_policy_extract_agent has it.                    *)
ObedientConverges ==
    obedient /\ outcome # NoOutcome =>
        \/ outcome.reason = "converge" /\ outcome.candidates = latest
        \/ outcome.reason = "502" /\ first = "unparsed"

-----------------------------------------------------------------------------
(* What makes that inductive: a turn of an obedient model is a search of a *)
(* pool, a call of a helper, or half of a pass, whose other half is still  *)
(* owed while drafts wait for the evaluator; and only a first answer that  *)
(* does not parse can find nothing extracted before it.                    *)
SearchTurns == (IF "personal" \in searched THEN 1 ELSE 0)
                 + (IF "baselines" \in searched THEN 1 ELSE 0)
Owed == IF inFlight # Absent /\ report # "fails" THEN 1 ELSE 0

GoalTypeOK ==
    /\ obedient \in BOOLEAN
    /\ passes \in 0..maxIter /\ helped \in 0..2
    /\ searched \subseteq {"personal", "baselines"}

GoalInv ==
    /\ TypeOK /\ ClosureInv /\ LastExtractionSurfaces
    /\ GoalTypeOK
    /\ obedient =>
         /\ turns + Owed <= SearchTurns + helped + 2 * passes
         /\ parseError => first = "unparsed"
         /\ first = "parsed" => iterations # <<>> \/ inFlight # Absent
    /\ ObedientConverges
=============================================================================
