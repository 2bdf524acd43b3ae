----------------------------- MODULE AiAgentProofs -----------------------------
(***************************************************************************)
(* What AI_Agent keeps: the closure of the tools and the budget of the     *)
(* loop (PolicyAgent, PolicyGoal), for any values of max_iter and answers  *)
(* of the model; the memory file (AgentMemory), for any skills,            *)
(* containers and requests; a composer turn (ComposerRelay), for replies   *)
(* of any length; that the loop and a turn end, but for the fairness that  *)
(* the runs assume; the difference of two versions (WorkflowDiff); a       *)
(* document in pieces (DocumentChunks), for any text, size and overlap: a  *)
(* window is not empty and the next begins within or right after it, so    *)
(* the pieces from any window on cover what is left (WindowsCover).        *)
(***************************************************************************)
EXTENDS PolicyGoal, AgentMemory, ComposerRelay, WorkflowDiff, DocumentChunks, TLAPS, FiniteSetTheorems,
        WellFoundedInduction

(***************************************************************************)
(* The loop.                                                               *)
(***************************************************************************)
LEMMA BudgetPositive ==
  ASSUME maxIter \in MaxIters
  PROVE  LoopBudget \in Nat
  BY PolicyAgentAssumption DEF LoopBudget

LEMMA NewestIsDrafts ==
  ASSUME NEW s \in Seq(Drafts)
  PROVE  Newest(s) \in Drafts
  BY DEF Newest, Drafts

LEMMA NewestAppended ==
  ASSUME NEW s \in Seq(Drafts), NEW d \in Drafts
  PROVE  /\ Append(s, d) \in Seq(Drafts)
         /\ Newest(Append(s, d)) = d
  <1>1. /\ Append(s, d) \in Seq(Drafts)
        /\ Len(Append(s, d)) = Len(s) + 1
        /\ Append(s, d)[Len(s) + 1] = d
        /\ Append(s, d) # <<>>
    OBVIOUS
  <1>2. QED
    BY <1>1 DEF Newest

LEMMA RespondKeeps ==
  ASSUME TypeOK, ClosureInv, NEW payload \in Drafts,
         NEW reason \in {"converge", "max_iter_exhausted", "no_change", "schema_error"},
         Respond(reason, payload)
  PROVE  TypeOK' /\ ClosureInv' /\ LastExtractionSurfaces'
  <1>1. /\ iterations \in Seq(Drafts) /\ inFlight \in Drafts \cup {Absent}
        /\ latest \in Drafts
        /\ UNCHANGED <<request, turns, last, closure, history>>
    BY DEF TypeOK, Respond
  <1>2. Trace' = Trace /\ LoopBudget' = LoopBudget
    BY <1>1 DEF Trace, closure, LoopBudget, request
  <1>3. Newest(Trace) = latest
    BY DEF ClosureInv
  <1>4. outcome' = [reason |-> IF parseError THEN "502" ELSE reason, payload |-> payload,
                    candidates |-> IF payload # "none" THEN payload ELSE latest]
    BY <1>3 DEF Respond
  <1>5. TypeOK'
    BY <1>1, <1>2, <1>4 DEF TypeOK, request, closure, history
  <1>6. ClosureInv' /\ LastExtractionSurfaces'
    BY <1>1, <1>2, <1>3, <1>4 DEF ClosureInv, LastExtractionSurfaces, closure, history
  <1>7. QED
    BY <1>5, <1>6

(* A turn that does not end the loop leaves a closure that is of its type  *)
(* and holds the last extraction.                                          *)
LEMMA TurnKeeps ==
  ASSUME TypeOK, ClosureInv, LastExtractionSurfaces, NEW args \in Args, Turn(args)
  PROVE  TypeOK' /\ ClosureInv' /\ LastExtractionSurfaces'
  <1>1. CASE \E tool \in Tools : Repeat(tool, args)
    <2>1. Respond("no_change", "none")
      BY <1>1 DEF Repeat
    <2>2. QED
      BY <2>1, RespondKeeps DEF Drafts
  <1>2. ASSUME NEW tool \in Tools, Dispatch(tool, args)
        PROVE  /\ turns' \in 0..LoopBudget' /\ last' \in (Tools \X Args) \cup {<<>>}
               /\ UNCHANGED <<maxIter, chunk, pools, outcome>>
               /\ outcome = NoOutcome
    <2>1. maxIter' = maxIter /\ LoopBudget \in Nat /\ LoopBudget' = LoopBudget
      BY <1>2, BudgetPositive DEF Dispatch, TypeOK, request, LoopBudget
    <2>2. turns \in 0..LoopBudget /\ turns < LoopBudget /\ turns' = turns + 1
      BY <1>2 DEF Dispatch, TypeOK, MayAnswer
    <2>3. QED
      BY <1>2, <2>1, <2>2 DEF Dispatch, TypeOK, request, MayAnswer
  <1>3. ASSUME NEW tool \in Tools, Dispatch(tool, args), UNCHANGED <<closure, history>>
        PROVE  TypeOK' /\ ClosureInv' /\ LastExtractionSurfaces'
    <2>1. Trace' = Trace
      BY <1>3 DEF Trace, closure
    <2>2. QED
      BY <1>2, <1>3, <2>1 DEF TypeOK, ClosureInv, LastExtractionSurfaces, closure, history
  <1>4. CASE \E tool \in Tools : Unregistered(tool, args)
    BY <1>3, <1>4 DEF Unregistered
  <1>5. CASE \E pool \in pools : Search(pool, args)
    BY <1>3, <1>5 DEF Search, Tools, TypeOK
  <1>6. CASE Check(args) \/ EvaluateNothing(args)
    BY <1>3, <1>6 DEF Check, EvaluateNothing, Tools
  <1>7. CASE Extract(args)
    <2>1. /\ inFlight' \in Drafts /\ latest' = inFlight'
          /\ iterations' = iterations /\ parseError' = parseError
          /\ report' = "none" /\ first' \in {"none", "parsed", "unparsed"}
      BY <1>7 DEF Extract, Extracted, Drafts, TypeOK
    <2>2. inFlight' # Absent /\ iterations' \in Seq(Drafts)
      BY <2>1 DEF Drafts, Absent, TypeOK
    <2>3. Newest(Trace') = latest'
      BY <2>1, <2>2, NewestAppended DEF Trace
    <2>4. ClosureInv'
      BY <2>3 DEF ClosureInv
    <2>5. /\ turns' \in 0..LoopBudget' /\ last' \in (Tools \X Args) \cup {<<>>}
          /\ UNCHANGED <<maxIter, chunk, pools, outcome>>
          /\ outcome = NoOutcome
      BY <1>2, <1>7 DEF Extract, Tools
    <2>6. TypeOK' /\ LastExtractionSurfaces'
      BY <2>1, <2>2, <2>5 DEF TypeOK, LastExtractionSurfaces, NoOutcome
    <2>7. QED
      BY <2>4, <2>6
  <1>8. CASE ExtractFails(args)
    <2>1. /\ inFlight' = inFlight /\ latest' = latest /\ iterations' = iterations
          /\ parseError' \in BOOLEAN
          /\ report' = "fails" /\ first' \in {"none", "parsed", "unparsed"}
      BY <1>8 DEF ExtractFails, TypeOK
    <2>2. Trace' = Trace
      BY <2>1 DEF Trace
    <2>3. QED
      BY <1>2, <1>8, <2>1, <2>2
         DEF ExtractFails, Tools, TypeOK, ClosureInv, LastExtractionSurfaces, NoOutcome
  <1>9. CASE Evaluate(args)
    <2>1. /\ inFlight \in Drafts /\ inFlight' = Absent
          /\ iterations' = Append(iterations, inFlight)
          /\ parseError' = parseError /\ latest' = latest /\ first' = first
          /\ report' \in {"converge", "retry"}
      BY <1>9 DEF Evaluate, TypeOK, Verdicts, Verdict
    <2>2. iterations' \in Seq(Drafts) /\ Newest(iterations') = inFlight
      BY <2>1, NewestAppended DEF TypeOK
    <2>3. Trace' = iterations'
      BY <2>1 DEF Trace
    <2>4. latest = inFlight
      BY <1>9, <2>1, NewestAppended DEF ClosureInv, Trace, Evaluate, TypeOK
    <2>5. QED
      BY <1>2, <1>9, <2>1, <2>2, <2>3, <2>4
         DEF Evaluate, Tools, TypeOK, ClosureInv, LastExtractionSurfaces, NoOutcome
  <1>10. CASE JudgeFails(args)
    <2>1. Trace' = Trace
      BY <1>10 DEF JudgeFails, Trace, closure
    <2>2. QED
      BY <1>2, <1>10, <2>1
         DEF JudgeFails, Tools, TypeOK, ClosureInv, LastExtractionSurfaces, NoOutcome, closure
  <1>11. QED
    BY <1>1, <1>4, <1>5, <1>6, <1>7, <1>8, <1>9, <1>10 DEF Turn

LEMMA StepKeeps ==
  ASSUME TypeOK, ClosureInv, LastExtractionSurfaces, [Next]_vars
  PROVE  TypeOK' /\ ClosureInv' /\ LastExtractionSurfaces'
  <1>1. CASE \E args \in Args : Turn(args)
    BY <1>1, TurnKeeps
  <1>2. CASE \E payload \in Drafts : Finish(payload)
    BY <1>2, RespondKeeps DEF Finish
  <1>3. CASE Unparseable \/ Exhausted
    BY <1>3, RespondKeeps DEF Unparseable, Exhausted, Drafts
  <1>4. CASE BackendFails
    <2>1. Trace' = Trace /\ LoopBudget' = LoopBudget
      BY <1>4 DEF BackendFails, Trace, closure, LoopBudget, request
    <2>2. QED
      BY <1>4, <2>1 DEF BackendFails, TypeOK, ClosureInv, LastExtractionSurfaces, NoOutcome,
                        request, closure, history, Drafts
  <1>5. CASE UNCHANGED vars
    <2>1. Trace' = Trace /\ LoopBudget' = LoopBudget
      BY <1>5 DEF vars, Trace, closure, LoopBudget, request
    <2>2. QED
      BY <1>5, <2>1 DEF vars, TypeOK, ClosureInv, LastExtractionSurfaces,
                        request, closure, history
  <1>6. QED
    BY <1>1, <1>2, <1>3, <1>4, <1>5 DEF Next

LEMMA StartsRight == Init => TypeOK /\ ClosureInv /\ LastExtractionSurfaces
  <1> SUFFICES ASSUME Init PROVE TypeOK /\ ClosureInv /\ LastExtractionSurfaces
    OBVIOUS
  <1>1. LoopBudget \in Nat
    BY BudgetPositive DEF Init
  <1>2. turns \in 0..LoopBudget /\ iterations \in Seq(Drafts)
    BY <1>1 DEF Init
  <1>3. TypeOK
    BY <1>2 DEF Init, TypeOK, NoOutcome, Drafts
  <1>4. ClosureInv /\ LastExtractionSurfaces
    BY DEF Init, ClosureInv, LastExtractionSurfaces, NoOutcome, Trace, Newest
  <1>5. QED
    BY <1>3, <1>4

(* Every reachable state of the policy agent is of its type; in particular *)
(* the loop takes no more turns than its budget.                           *)
THEOREM PolicyTypeCorrect == Spec => []TypeOK
  <1>1. QED
    BY StartsRight, StepKeeps, PTL DEF Spec

(* An answer with candidates carries the payload of finish or the last     *)
(* extraction that returned, whatever the model and its backend do.        *)
THEOREM LastExtractionKept == Spec => []LastExtractionSurfaces
  <1>1. QED
    BY StartsRight, StepKeeps, PTL DEF Spec

-----------------------------------------------------------------------------
(* The loop ends: a step takes one turn of the budget or is the answer.    *)
TurnsLeft == IF outcome = NoOutcome THEN LoopBudget - turns + 1 ELSE 0

LEMMA StepTakesATurn ==
  ASSUME TypeOK, Next
  PROVE  TurnsLeft' < TurnsLeft
  <1>1. LoopBudget \in Nat /\ turns \in 0..LoopBudget
    BY BudgetPositive DEF TypeOK
  <1>2. outcome = NoOutcome
    BY DEF Next, Turn, Repeat, Unregistered, Search, Check, Extract, ExtractFails, EvaluateNothing,
           Evaluate, JudgeFails, Dispatch, Finish, Unparseable, BackendFails, Exhausted, Respond,
           MayAnswer
  <1>3. \/ outcome' # NoOutcome
        \/ outcome' = NoOutcome /\ maxIter' = maxIter /\ turns' = turns + 1
    <2>1. ASSUME NEW reason \in {"converge", "max_iter_exhausted", "no_change", "schema_error"},
                 NEW payload, Respond(reason, payload)
          PROVE  outcome' # NoOutcome
      <3>1. outcome'.reason = IF parseError THEN "502" ELSE reason
        BY <2>1 DEF Respond
      <3> QED
        BY <3>1 DEF NoOutcome
    <2>2. CASE BackendFails
      <3>1. outcome'.reason = "500"
        BY <2>2 DEF BackendFails, NoOutcome
      <3> QED
        BY <3>1 DEF NoOutcome
    <2>3. CASE (\E payload \in Drafts : Finish(payload)) \/ Unparseable \/ Exhausted
      BY <2>1, <2>3 DEF Finish, Unparseable, Exhausted
    <2>4. ASSUME NEW tool, NEW args, Dispatch(tool, args)
          PROVE  outcome' = NoOutcome /\ maxIter' = maxIter /\ turns' = turns + 1
      BY <1>2, <2>4 DEF Dispatch, request
    <2>5. ASSUME NEW args \in Args, Turn(args)
          PROVE  \/ outcome' # NoOutcome
                 \/ outcome' = NoOutcome /\ maxIter' = maxIter /\ turns' = turns + 1
      <3>1. CASE \E tool \in Tools : Repeat(tool, args)
        BY <2>1, <3>1 DEF Repeat
      <3>2. CASE ~\E tool \in Tools : Repeat(tool, args)
        <4>1. \E tool : Dispatch(tool, args)
          BY <2>5, <3>2 DEF Turn, Unregistered, Search, Check, Extract, ExtractFails,
                            EvaluateNothing, Evaluate, JudgeFails
        <4> QED
          BY <2>4, <4>1
      <3> QED
        BY <3>1, <3>2
    <2> QED
      BY <2>2, <2>3, <2>5 DEF Next
  <1>4. CASE outcome' # NoOutcome
    <2>1. TurnsLeft' = 0
      BY <1>4 DEF TurnsLeft
    <2> QED
      BY <1>1, <1>2, <2>1 DEF TurnsLeft
  <1>5. CASE outcome' = NoOutcome /\ maxIter' = maxIter /\ turns' = turns + 1
    <2>1. LoopBudget' = LoopBudget
      BY <1>5 DEF LoopBudget
    <2>2. TurnsLeft' = LoopBudget - (turns + 1) + 1 /\ TurnsLeft = LoopBudget - turns + 1
      BY <1>2, <1>5, <2>1 DEF TurnsLeft
    <2> QED
      BY <1>1, <2>2
  <1> QED
    BY <1>3, <1>4, <1>5

LEMMA TurnsBound == TypeOK => TurnsLeft \in 0..LoopBudget + 1 /\ (TurnsLeft = 0 <=> outcome # NoOutcome)
  BY BudgetPositive DEF TypeOK, TurnsLeft

(* Whatever the model calls or answers, unknown tools and failures of the  *)
(* tools included, each step of run_agent leaves fewer to come, and none   *)
(* is left exactly when the request is answered (agent_loop.py:154-236).   *)
THEOREM PolicyLoopEnds ==
  Spec => /\ [](TurnsLeft \in 0..LoopBudget + 1 /\ (TurnsLeft = 0 <=> outcome # NoOutcome))
          /\ [][TurnsLeft' < TurnsLeft]_vars
  <1>1. TypeOK /\ [Next]_vars => [TurnsLeft' < TurnsLeft]_vars
    BY StepTakesATurn
  <1> QED
    BY <1>1, PolicyTypeCorrect, TurnsBound, PTL DEF Spec

-----------------------------------------------------------------------------
(* A model that follows its goal.                                          *)
LEMMA GoalStarts == GoalInit => GoalInv
  <1> SUFFICES ASSUME GoalInit PROVE GoalInv
    OBVIOUS
  <1>1. TypeOK /\ ClosureInv /\ LastExtractionSurfaces
    BY StartsRight DEF GoalInit
  <1>2. maxIter \in 1..5
    BY PolicyAgentAssumption DEF GoalInit, Init
  <1>3. GoalTypeOK
    BY <1>2 DEF GoalInit, GoalTypeOK
  <1>4. turns + Owed <= SearchTurns + helped + 2 * passes
    BY DEF GoalInit, Init, Owed, SearchTurns
  <1>5. QED
    BY <1>1, <1>3, <1>4 DEF GoalInit, Init, GoalInv, ObedientConverges, NoOutcome

(* The budget is more than what its turns can add up to. *)
LEMMA BudgetEnough ==
  ASSUME GoalInv, obedient
  PROVE  turns < LoopBudget /\ maxIter \in 1..5 /\ turns \in Nat
  <1>1. maxIter \in 1..5
    BY PolicyAgentAssumption DEF GoalInv, TypeOK
  <1>2. SearchTurns \in 0..2 /\ Owed \in 0..1 /\ helped \in 0..2 /\ passes \in 0..maxIter
    BY DEF SearchTurns, Owed, GoalInv, GoalTypeOK
  <1>3. LoopBudget \in Nat /\ 2 * maxIter + 6 <= LoopBudget
    BY <1>1 DEF LoopBudget
  <1>4. turns \in Nat
    BY <1>3 DEF GoalInv, TypeOK
  <1>5. turns + Owed <= SearchTurns + helped + 2 * passes
    BY DEF GoalInv
  <1>6. QED
    BY <1>1, <1>2, <1>3, <1>4, <1>5

(* A turn that dispatches a call leaves no answer yet. *)
LEMMA DispatchCounts ==
  ASSUME NEW tool, NEW args, Dispatch(tool, args)
  PROVE  /\ outcome = NoOutcome /\ outcome' = NoOutcome /\ turns' = turns + 1
         /\ maxIter' = maxIter /\ pools' = pools
  BY DEF Dispatch, MayAnswer, request

LEMMA ObedientStepKeeps ==
  ASSUME GoalInv, obedient,
         \/ \E args \in Args : FirstSearch(args) \/ Pass(args) \/ Assess(args) \/ Help(args)
         \/ Conclude
         \/ Exhausted /\ UNCHANGED goalVars
  PROVE  GoalInv'
  <1>1. turns < LoopBudget /\ maxIter \in 1..5 /\ turns \in Nat
    BY BudgetEnough
  <1>2. [Next]_vars
    BY DEF Next, Turn, FirstSearch, Pass, Assess, Help, Conclude, GoalInv, TypeOK
  <1>3. TypeOK' /\ ClosureInv' /\ LastExtractionSurfaces'
    BY <1>2, StepKeeps DEF GoalInv
  <1>4. obedient' = obedient
    BY DEF FirstSearch, Pass, Assess, Help, Conclude, goalVars
  <1>5. /\ passes \in 0..maxIter /\ helped \in 0..2 /\ searched \subseteq {"personal", "baselines"}
        /\ obedient \in BOOLEAN /\ pools \subseteq {"personal", "baselines"}
    BY DEF GoalInv, GoalTypeOK, TypeOK
  <1>6. /\ turns + Owed <= SearchTurns + helped + 2 * passes
        /\ parseError => first = "unparsed"
        /\ first = "parsed" => iterations # <<>> \/ inFlight # Absent
    BY DEF GoalInv
  <1>7. outcome' = NoOutcome => ObedientConverges'
    BY DEF ObedientConverges
  <1>8. ASSUME NEW args \in Args, FirstSearch(args) PROVE GoalInv'
    <2>1. PICK pool \in pools \ searched : /\ Search(pool, args) /\ searched' = searched \cup {pool}
                                           /\ UNCHANGED <<obedient, passes, helped>>
      BY <1>8 DEF FirstSearch
    <2>2. /\ outcome' = NoOutcome /\ turns' = turns + 1 /\ maxIter' = maxIter
          /\ UNCHANGED <<iterations, inFlight, parseError, report, first>>
      BY <2>1, DispatchCounts DEF Search, closure, history
    <2>3. Owed' = Owed /\ SearchTurns' = SearchTurns + 1
      BY <2>1, <2>2, <1>5 DEF Owed, SearchTurns
    <2>4. Owed \in 0..1 /\ SearchTurns \in 0..2
      BY DEF Owed, SearchTurns
    <2>5. GoalTypeOK'
      BY <2>1, <2>2, <1>5 DEF GoalTypeOK
    <2>6. turns' + Owed' <= SearchTurns' + helped' + 2 * passes'
      BY <2>1, <2>2, <2>3, <2>4, <1>1, <1>5, <1>6
    <2>7. QED
      BY <1>3, <1>6, <1>7, <2>2, <2>5, <2>6 DEF GoalInv
  <1>9. ASSUME NEW args \in Args, Pass(args) PROVE GoalInv'
    <2>1. /\ passes < maxIter /\ inFlight = Absent /\ passes' = passes + 1
          /\ UNCHANGED <<obedient, searched, helped>>
      BY <1>9 DEF Pass
    <2>2. Owed = 0 /\ SearchTurns' = SearchTurns /\ SearchTurns \in 0..2
      BY <2>1 DEF Owed, SearchTurns
    <2>3. outcome' = NoOutcome /\ turns' = turns + 1 /\ maxIter' = maxIter
      BY <1>9, DispatchCounts DEF Pass, Extract, ExtractFails
    <2>4. Owed' = 0 \/ Owed' = 1
      BY DEF Owed
    <2>5. GoalTypeOK'
      BY <2>1, <2>3, <1>1, <1>5 DEF GoalTypeOK
    <2>6. turns' + Owed' <= SearchTurns' + helped' + 2 * passes'
      <3>1. CASE Owed' = 0
        BY <3>1, <2>1, <2>2, <2>3, <1>1, <1>5, <1>6
      <3>2. CASE Owed' = 1
        BY <3>2, <2>1, <2>2, <2>3, <1>1, <1>5, <1>6
      <3>3. QED
        BY <2>4, <3>1, <3>2
    <2>7. CASE Extract(args)
      <3>1. /\ parseError' = parseError /\ inFlight' \in Drafts
            /\ first' = IF first = "none" THEN "parsed" ELSE first
        BY <2>7 DEF Extract, Extracted, Drafts
      <3>2. inFlight' # Absent
        BY <3>1 DEF Drafts, Absent
      <3>3. parseError' => first' = "unparsed"
        BY <3>1, <1>6
      <3>4. QED
        BY <1>3, <1>7, <2>3, <2>5, <2>6, <3>2, <3>3 DEF GoalInv
    <2>8. CASE ExtractFails(args)
      <3>1. /\ iterations' = iterations /\ inFlight' = inFlight
            /\ \/ /\ parseError' = (parseError \/ iterations = <<>>)
                  /\ first' = IF first = "none" THEN "unparsed" ELSE first
               \/ parseError' = parseError /\ first' = first
        BY <2>8 DEF ExtractFails
      <3>2. first \in {"none", "parsed", "unparsed"} /\ parseError \in BOOLEAN
        BY DEF GoalInv, TypeOK
      <3>3. /\ parseError' => first' = "unparsed"
            /\ first' = "parsed" => iterations' # <<>> \/ inFlight' # Absent
        <4>1. first = "parsed" => iterations # <<>>
          BY <2>1, <1>6
        <4>2. CASE parseError' = parseError /\ first' = first
          BY <4>1, <4>2, <3>1, <1>6
        <4>3. CASE /\ parseError' = (parseError \/ iterations = <<>>)
                   /\ first' = IF first = "none" THEN "unparsed" ELSE first
          <5>1. CASE first = "none"
            BY <4>3, <5>1
          <5>2. CASE first = "parsed"
            <6>1. ~parseError /\ iterations # <<>>
              BY <4>1, <5>2, <1>6
            <6>2. first' = "parsed" /\ ~parseError'
              BY <4>3, <5>2, <6>1
            <6>3. QED
              BY <3>1, <6>1, <6>2
          <5>3. CASE first = "unparsed"
            BY <4>3, <5>3
          <5>4. QED
            BY <3>2, <5>1, <5>2, <5>3
        <4>4. QED
          BY <3>1, <4>2, <4>3
      <3>4. QED
        BY <1>3, <1>7, <2>3, <2>5, <2>6, <3>3 DEF GoalInv
    <2>9. QED
      BY <1>9, <2>7, <2>8 DEF Pass
  <1>10. ASSUME NEW args \in Args, Assess(args) PROVE GoalInv'
    <2>1. /\ report # "fails" /\ inFlight # Absent
          /\ UNCHANGED <<obedient, passes, searched, helped>>
          /\ outcome' = NoOutcome /\ turns' = turns + 1 /\ maxIter' = maxIter
          /\ parseError' = parseError /\ first' = first
      BY <1>10, DispatchCounts DEF Assess, Evaluate, JudgeFails, goalVars, closure
    <2>2. Owed = 1 /\ SearchTurns' = SearchTurns /\ SearchTurns \in 0..2
      BY <2>1 DEF Owed, SearchTurns
    <2>3. Owed' = 0
      BY <1>10 DEF Assess, Evaluate, JudgeFails, Owed
    <2>4. GoalTypeOK'
      BY <2>1, <1>5 DEF GoalTypeOK
    <2>5. turns' + Owed' <= SearchTurns' + helped' + 2 * passes'
      BY <2>1, <2>2, <2>3, <1>1, <1>5, <1>6
    <2>6. iterations' # <<>> \/ inFlight' # Absent
      <3>1. CASE Evaluate(args)
        <4>1. iterations \in Seq(Drafts) /\ inFlight \in Drafts
          BY <2>1 DEF GoalInv, TypeOK
        <4>2. iterations' = Append(iterations, inFlight)
          BY <3>1 DEF Evaluate
        <4>3. QED
          BY <4>1, <4>2
      <3>2. CASE JudgeFails(args)
        BY <3>2, <2>1 DEF JudgeFails, closure
      <3>3. QED
        BY <1>10, <3>1, <3>2 DEF Assess
    <2>7. QED
      BY <1>3, <1>6, <1>7, <2>1, <2>4, <2>5, <2>6 DEF GoalInv
  <1>11. ASSUME NEW args \in Args, Help(args) PROVE GoalInv'
    <2>1. /\ helped < 2 /\ helped' = helped + 1
          /\ UNCHANGED <<obedient, passes, searched>>
          /\ outcome' = NoOutcome /\ turns' = turns + 1 /\ maxIter' = maxIter
          /\ UNCHANGED <<iterations, inFlight, parseError, report, first>>
      BY <1>11, DispatchCounts DEF Help, Check, closure, history
    <2>2. Owed' = Owed /\ Owed \in 0..1 /\ SearchTurns' = SearchTurns /\ SearchTurns \in 0..2
      BY <2>1 DEF Owed, SearchTurns
    <2>3. GoalTypeOK'
      BY <2>1, <1>5 DEF GoalTypeOK
    <2>4. turns' + Owed' <= SearchTurns' + helped' + 2 * passes'
      BY <2>1, <2>2, <1>1, <1>5, <1>6
    <2>5. QED
      BY <1>3, <1>6, <1>7, <2>1, <2>3, <2>4 DEF GoalInv
  <1>12. ASSUME Conclude PROVE GoalInv'
    <2>1. /\ Respond("converge", latest) /\ UNCHANGED <<obedient, passes, searched, helped>>
      BY <1>12 DEF Conclude, Finish, goalVars
    <2>2. /\ outcome'.reason = (IF parseError THEN "502" ELSE "converge")
          /\ outcome'.candidates = (IF latest # "none" THEN latest ELSE Newest(Trace))
          /\ UNCHANGED <<maxIter, turns, iterations, inFlight, parseError, report, latest, first>>
      BY <2>1 DEF Respond, request, closure, history
    <2>3. outcome'.candidates = latest
      BY <2>2 DEF GoalInv, ClosureInv
    <2>4. ObedientConverges'
      BY <2>2, <2>3, <1>6 DEF ObedientConverges
    <2>5. GoalTypeOK' /\ Owed' = Owed /\ SearchTurns' = SearchTurns
      BY <2>1, <2>2, <1>5 DEF GoalTypeOK, Owed, SearchTurns
    <2>6. turns' + Owed' <= SearchTurns' + helped' + 2 * passes'
      BY <2>1, <2>2, <2>5, <1>6
    <2>7. QED
      BY <1>3, <1>6, <2>2, <2>4, <2>5, <2>6 DEF GoalInv
  <1>13. ~Exhausted
    BY <1>1 DEF Exhausted
  <1>14. QED
    BY <1>8, <1>9, <1>10, <1>11, <1>12, <1>13

LEMMA GoalStepKeeps == GoalInv /\ [GoalNext]_<<vars, goalVars>> => GoalInv'
  <1> SUFFICES ASSUME GoalInv, [GoalNext]_<<vars, goalVars>> PROVE GoalInv'
    OBVIOUS
  <1>1. CASE ~obedient /\ Next /\ UNCHANGED goalVars
    <2>1. TypeOK' /\ ClosureInv' /\ LastExtractionSurfaces'
      BY <1>1, StepKeeps DEF GoalInv
    <2>2. UNCHANGED <<obedient, passes, searched, helped>> /\ ~obedient'
      BY <1>1 DEF goalVars
    <2>3. maxIter' = maxIter
      BY <1>1 DEF Next, Turn, Repeat, Unregistered, Search, Check, Extract, ExtractFails,
                  EvaluateNothing, Evaluate, JudgeFails, Dispatch, Finish, Unparseable,
                  Exhausted, BackendFails, Respond, request
    <2>4. GoalTypeOK'
      BY <2>2, <2>3 DEF GoalInv, GoalTypeOK
    <2>5. QED
      BY <2>1, <2>2, <2>4 DEF GoalInv, ObedientConverges
  <1>2. ASSUME obedient,
               \/ \E args \in Args : FirstSearch(args) \/ Pass(args) \/ Assess(args) \/ Help(args)
               \/ Conclude
               \/ Exhausted /\ UNCHANGED goalVars
        PROVE  GoalInv'
    BY <1>2, ObedientStepKeeps
  <1>3. CASE UNCHANGED <<vars, goalVars>>
    <2>1. UNCHANGED vars /\ UNCHANGED goalVars
      BY <1>3
    <2>2. TypeOK' /\ ClosureInv' /\ LastExtractionSurfaces'
      BY <2>1, StepKeeps DEF GoalInv
    <2>3. /\ UNCHANGED <<obedient, passes, searched, helped>>
          /\ UNCHANGED <<maxIter, turns, iterations, inFlight, parseError, report, latest, first, outcome>>
      BY <2>1 DEF vars, goalVars, request, closure, history
    <2>4. Owed' = Owed /\ SearchTurns' = SearchTurns
      BY <2>3 DEF Owed, SearchTurns
    <2>5. GoalTypeOK' /\ ObedientConverges'
      BY <2>3 DEF GoalInv, GoalTypeOK, ObedientConverges
    <2>6. QED
      BY <2>2, <2>3, <2>4, <2>5 DEF GoalInv
  <1>4. QED
    BY <1>1, <1>2, <1>3 DEF GoalNext

(* A model that follows its goal gets to finish within the loop's budget,  *)
(* with the drafts it last extracted; it is answered 502 only if the first *)
(* answer to an extraction did not parse.                                  *)
THEOREM GoalIsReachedInTime == GoalSpec => []ObedientConverges
  <1>1. GoalSpec => []GoalInv
    BY GoalStarts, GoalStepKeeps, PTL DEF GoalSpec
  <1>2. GoalInv => ObedientConverges
    BY DEF GoalInv
  <1>3. QED
    BY <1>1, <1>2, PTL

-----------------------------------------------------------------------------
(***************************************************************************)
(* The memory file.                                                        *)
(***************************************************************************)
LEMMA MemoryStarts == MemoryInit => MemoryInv
  <1> SUFFICES ASSUME MemoryInit PROVE MemoryInv
    OBVIOUS
  <1>1. Empty \in File /\ \A i \in Entries : Empty[i].dim # "damaged"
    BY DEF Empty, File, Row, NoRow
  <1>2. \A u \in Uses : use[u] = Free /\ use[u].at = "free"
    BY DEF MemoryInit, Free
  <1>3. MemoryTypeOK
    BY <1>1 DEF MemoryInit, MemoryTypeOK
  <1>4. WritersTold /\ OneWritersFile /\ HitsAreActive
    BY <1>1, <1>2 DEF MemoryInit, WritersTold, OneWritersFile, HitsAreActive, Committing
  <1>5. QED
    BY <1>3, <1>4 DEF MemoryInv

(* A request that is under way is one of the two kinds. *)
LEMMA UseShapes ==
  ASSUME MemoryTypeOK, NEW u \in Uses
  PROVE  /\ use[u].at = "free" <=> use[u] = Free
         /\ use[u].at \in {"embedding", "writing", "committing"} => use[u] \in Saving
         /\ use[u].at \in {"baselines", "searching"} => use[u] \in Reading
         /\ use[u].at \in {"free", "embedding", "writing", "committing", "baselines", "searching"}
         /\ use[u].at # "free" => use[u].c \in Containers
  BY DEF MemoryTypeOK, Saving, Reading, Free

(* A change of one slot that neither commits nor reads keeps what the      *)
(* invariant says of the requests.                                         *)
LEMMA SlotsOnly ==
  ASSUME MemoryInv, NEW u \in Uses, NEW r \in {Free} \union Saving \union Reading,
         use' = [use EXCEPT ![u] = r],
         r.at # "committing",
         r.at \in {"baselines", "searching"} => r.pool = Pool(r.file) /\ \A i \in r.hits : i \in r.pool /\ r.file[i].dim = "own",
         UNCHANGED <<volume, copy, written, kept, writers>>,
         cache' \in [Containers -> {"none", "full", "empty"}]
  PROVE  MemoryInv'
  <1>1. /\ use'[u] = r /\ \A v \in Uses : v # u => use'[v] = use[v]
        /\ use' \in [Uses -> {Free} \union Saving \union Reading]
    BY DEF MemoryInv, MemoryTypeOK
  <1>2. MemoryTypeOK'
    BY <1>1 DEF MemoryInv, MemoryTypeOK
  <1>3. \A v \in Uses : use'[v].at = "committing" => use[v].at = "committing" /\ use'[v] = use[v]
    BY <1>1
  <1>4. WritersTold'
    BY <1>3 DEF MemoryInv, WritersTold
  <1>5. OneWritersFile'
    BY <1>3 DEF MemoryInv, OneWritersFile, Committing
  <1>6. HitsAreActive'
    BY <1>1 DEF MemoryInv, HitsAreActive, Comparable
  <1>7. QED
    BY <1>2, <1>4, <1>5, <1>6 DEF MemoryInv

LEMMA UpsertKeepsMemory ==
  ASSUME MemoryInv, NEW u \in Saves, NEW c \in Containers, NEW i \in Entries, NEW r \in Rows,
         Upsert(u, c, i, r)
  PROVE  MemoryInv'
  <1>1. PICK at \in {"embedding", "writing"} :
          use' = [use EXCEPT ![u] = [at |-> at, c |-> c, id |-> i, row |-> r]]
    BY DEF Upsert
  <1> DEFINE q == [at |-> at, c |-> c, id |-> i, row |-> r]
  <1>2. q \in Saving /\ q.at \in {"embedding", "writing"}
    BY DEF Saving
  <1>3. UNCHANGED <<volume, copy, cache, written, kept, writers>> /\ u \in Uses
    BY DEF Upsert, Uses
  <1>4. cache' \in [Containers -> {"none", "full", "empty"}]
    BY <1>3 DEF MemoryInv, MemoryTypeOK
  <1>5. use' = [use EXCEPT ![u] = q]
    BY <1>1
  <1> HIDE DEF q
  <1>6. QED
    BY <1>2, <1>3, <1>4, <1>5, SlotsOnly

LEMMA EmbeddedKeepsMemory ==
  ASSUME MemoryInv, NEW u \in Uses, Embedded(u)
  PROVE  MemoryInv'
  <1>1. use[u] \in Saving
    BY UseShapes DEF Embedded, MemoryInv
  <1>2. PICK r : /\ use' = [use EXCEPT ![u] = r] /\ (r = Free \/ r = [use[u] EXCEPT !.at = "writing"])
    BY DEF Embedded, Moves, Answers
  <1>3. r \in {Free} \union Saving \union Reading /\ r.at \in {"free", "writing"}
    BY <1>1, <1>2 DEF Saving, Free
  <1>4. UNCHANGED <<volume, copy, cache, written, kept, writers>>
    BY DEF Embedded
  <1>5. cache' \in [Containers -> {"none", "full", "empty"}]
    BY <1>4 DEF MemoryInv, MemoryTypeOK
  <1>6. QED
    BY <1>2, <1>3, <1>4, <1>5, SlotsOnly

LEMMA LoadPoolKeepsMemory ==
  ASSUME MemoryInv, NEW u \in Reads, NEW c \in Containers, LoadPool(u, c)
  PROVE  MemoryInv'
  <1> DEFINE r == [at |-> IF cache[c] = "none" THEN "baselines" ELSE "searching", c |-> c,
                   pool |-> Pool(copy[c]), file |-> copy[c], base |-> cache[c], hits |-> {}]
  <1>1. use' = [use EXCEPT ![u] = r]
    BY DEF LoadPool
  <1>2. r \in Reading
    BY DEF MemoryInv, MemoryTypeOK, Reading, Pool
  <1>3. UNCHANGED <<volume, copy, cache, written, kept, writers>> /\ u \in Uses
    BY DEF LoadPool, Uses
  <1>4. cache' \in [Containers -> {"none", "full", "empty"}]
    BY <1>3 DEF MemoryInv, MemoryTypeOK
  <1>5. r.at # "committing" /\ r.pool = Pool(r.file) /\ r.hits = {}
    OBVIOUS
  <1> HIDE DEF r
  <1>6. QED
    BY <1>1, <1>2, <1>3, <1>4, <1>5, SlotsOnly

LEMMA BaselinesKeepMemory ==
  ASSUME MemoryInv, NEW u \in Uses, Baselines(u)
  PROVE  MemoryInv'
  <1>1. use[u] \in Reading /\ use[u].c \in Containers
    BY UseShapes DEF Baselines, MemoryInv
  <1>2. PICK r : /\ use' = [use EXCEPT ![u] = r]
                 /\ r = Free \/ \E found \in {"full", "empty"} :
                                  r = [use[u] EXCEPT !.at = "searching", !.base = found]
    BY DEF Baselines, Answers
  <1>3. \/ r = Free
        \/ /\ r \in Reading /\ r.at = "searching"
           /\ r.pool = use[u].pool /\ r.file = use[u].file /\ r.hits = use[u].hits
    BY <1>1, <1>2 DEF Reading
  <1>4. UNCHANGED <<volume, copy, written, kept, writers>>
    BY DEF Baselines
  <1>5. cache' \in [Containers -> {"none", "full", "empty"}]
    BY DEF MemoryInv, MemoryTypeOK, Baselines
  <1>6. /\ use[u].pool = Pool(use[u].file)
        /\ \A i \in use[u].hits : i \in use[u].pool /\ use[u].file[i].dim = "own"
    BY DEF MemoryInv, HitsAreActive, Comparable, Baselines
  <1>7. Free.at = "free"
    BY DEF Free
  <1>8. /\ r \in {Free} \union Saving \union Reading /\ r.at # "committing"
        /\ r.at \in {"baselines", "searching"} =>
             r.pool = Pool(r.file) /\ \A i \in r.hits : i \in r.pool /\ r.file[i].dim = "own"
    BY <1>3, <1>6, <1>7
  <1>9. use' = [use EXCEPT ![u] = r]
    BY <1>2
  <1>10. QED
    BY <1>4, <1>5, <1>8, <1>9, SlotsOnly

LEMMA SearchKeepsMemory ==
  ASSUME MemoryInv, NEW u \in Uses, SearchPool(u)
  PROVE  MemoryInv'
  <1>1. use[u] \in Reading
    BY UseShapes DEF SearchPool, MemoryInv
  <1>2. PICK top \in SUBSET Comparable(u) : use' = [use EXCEPT ![u] = [use[u] EXCEPT !.hits = top]]
    BY DEF SearchPool
  <1> DEFINE r == [use[u] EXCEPT !.hits = top]
  <1>3. /\ r \in Reading /\ r.at = "searching"
        /\ r.pool = use[u].pool /\ r.file = use[u].file /\ r.hits = top
    BY <1>1 DEF Reading, Comparable, SearchPool
  <1>4. UNCHANGED <<volume, copy, cache, written, kept, writers>>
    BY DEF SearchPool
  <1>5. cache' \in [Containers -> {"none", "full", "empty"}]
    BY <1>4 DEF MemoryInv, MemoryTypeOK
  <1>6. use[u].pool = Pool(use[u].file)
    BY DEF MemoryInv, HitsAreActive, SearchPool
  <1>7. \A i \in top : i \in use[u].pool /\ use[u].file[i].dim = "own"
    BY DEF Comparable
  <1>8. use' = [use EXCEPT ![u] = r]
    BY <1>2
  <1> HIDE DEF r
  <1>9. QED
    BY <1>3, <1>4, <1>5, <1>6, <1>7, <1>8, SlotsOnly

LEMMA DoneKeepsMemory ==
  ASSUME MemoryInv, NEW u \in Uses, Done(u)
  PROVE  MemoryInv'
  <1>1. cache' \in [Containers -> {"none", "full", "empty"}]
    BY DEF MemoryInv, MemoryTypeOK, Done
  <1>2. Free.at = "free"
    BY DEF Free
  <1>3. /\ use' = [use EXCEPT ![u] = Free]
        /\ UNCHANGED <<volume, copy, written, kept, writers>>
    BY DEF Done, Answers
  <1>4. QED
    BY <1>1, <1>2, <1>3, SlotsOnly

-----------------------------------------------------------------------------
(* What a file is after a row was merged into it. *)
LEMMA MergedFile ==
  ASSUME NEW f \in File, NEW i \in Entries, NEW r \in Rows
  PROVE  /\ Existing(f) \in File /\ Merged(f, i, r) \in File
         /\ Merged(f, i, r)[i] = r
         /\ \A j \in Entries : /\ j # i => Merged(f, i, r)[j] = Existing(f)[j]
                               /\ Existing(f)[j].dim # "damaged"
                                    \/ Existing(f)[j] = f[j]
                               /\ f[j].dim # "damaged" => Existing(f)[j] = f[j]
         /\ r.dim # "damaged"
         /\ f = Empty => Existing(f) = Empty
  <1>1. Empty \in File /\ \A j \in Entries : Empty[j].dim = "none"
    BY DEF Empty, File, Row, NoRow
  <1>2. \A j \in Entries : Damaged[j].dim = "damaged"
    BY DEF Damaged
  <1>3. r \in Row /\ r.dim # "damaged"
    BY MemoryAssumption DEF Row
  <1>4. Existing(f) \in File /\ (Existing(f) = f \/ (f = Damaged /\ Existing(f) = Empty))
    BY <1>1 DEF Existing
  <1>5. Merged(f, i, r) = [Existing(f) EXCEPT ![i] = r]
    BY DEF Merged
  <1>6. /\ Merged(f, i, r) \in File /\ Merged(f, i, r)[i] = r
        /\ \A j \in Entries : j # i => Merged(f, i, r)[j] = Existing(f)[j]
    BY <1>3, <1>4, <1>5 DEF File
  <1>7. QED
    BY <1>1, <1>2, <1>3, <1>4, <1>6

LEMMA ReplaceKeepsMemory ==
  ASSUME MemoryInv, NEW u \in Uses, Replace(u)
  PROVE  MemoryInv'
  <1> DEFINE s == use[u]
             f == copy[s.c]
             g == Merged(f, s.id, s.row)
  <1>1. s \in Saving /\ s.at = "writing" /\ s.c \in Containers /\ s.id \in Entries /\ s.row \in Rows
    BY UseShapes DEF Replace, MemoryInv, Saving
  <1>2. f \in File /\ written \in File /\ volume \in File /\ copy \in [Containers -> File]
    BY <1>1 DEF MemoryInv, MemoryTypeOK
  <1>3. /\ g \in File /\ g[s.id] = s.row /\ s.row.dim # "damaged"
        /\ \A j \in Entries : /\ j # s.id => g[j] = Existing(f)[j]
                              /\ f[j].dim # "damaged" => Existing(f)[j] = f[j]
    <2>1. f \in File /\ s.id \in Entries /\ s.row \in Rows /\ g = Merged(f, s.id, s.row)
      BY <1>1, <1>2
    <2> HIDE DEF f, g, s
    <2>2. QED
      BY <2>1, MergedFile
  <1>4. /\ copy' = [copy EXCEPT ![s.c] = g]
        /\ written' = [written EXCEPT ![s.id] = s.row]
        /\ writers' = writers \union {s.c}
        /\ kept' = kept \ {s.id}
        /\ use' = [use EXCEPT ![u] = [s EXCEPT !.at = "committing"]]
        /\ volume' = volume /\ cache' = cache
    BY DEF Replace, Moves
  <1> HIDE DEF g
  <1> HIDE DEF f
  <1>5. /\ copy'[s.c] = g /\ \A c \in Containers : c # s.c => copy'[c] = copy[c]
        /\ copy' \in [Containers -> File]
    BY <1>1, <1>2, <1>3, <1>4
  <1>6. /\ written'[s.id] = s.row /\ \A j \in Entries : j # s.id => written'[j] = written[j]
        /\ written' \in File
    BY <1>1, <1>2, <1>4, MemoryAssumption DEF File, Row
  <1>7. /\ use'[u].at = "committing" /\ use'[u].c = s.c /\ use'[u].id = s.id
        /\ use'[u] \in Saving
        /\ \A v \in Uses : v # u => use'[v] = use[v]
        /\ use' \in [Uses -> {Free} \union Saving \union Reading]
    BY <1>1, <1>4 DEF MemoryInv, MemoryTypeOK, Saving
  <1> HIDE DEF s
  <1>8. MemoryTypeOK'
    BY <1>1, <1>2, <1>4, <1>5, <1>6, <1>7 DEF MemoryInv, MemoryTypeOK
  <1>9. WritersTold'
    <2>1. writers' # {} /\ s.c \in writers'
      BY <1>4
    <2>2. ASSUME "damage" \notin writers'
          PROVE  \A i \in Entries : /\ volume'[i].dim # "damaged"
                                    /\ \A c \in Containers : copy'[c][i].dim # "damaged"
      <3>1. \A i \in Entries : /\ volume[i].dim # "damaged"
                               /\ \A c \in Containers : copy[c][i].dim # "damaged"
        BY <2>2, <1>4 DEF MemoryInv, WritersTold
      <3>2. \A j \in Entries : f[j].dim # "damaged"
        BY <3>1, <1>1 DEF f
      <3>3. \A j \in Entries : g[j].dim # "damaged"
        BY <3>2, <1>3
      <3>4. QED
        BY <3>1, <3>3, <1>4, <1>5
    <2>3. \A v \in Uses : use'[v].at = "committing" => use'[v].c \in writers'
      BY <1>4, <1>7 DEF MemoryInv, WritersTold
    <2>4. "damage" \in writers' => \E c \in Containers : c \in writers'
      BY <2>1, <1>1
    <2>5. QED
      BY <2>1, <2>2, <2>3, <2>4 DEF WritersTold
  <1>10. OneWritersFile'
    <2> SUFFICES ASSUME NEW c \in Containers, writers' \subseteq {c}, NEW i \in Entries
                 PROVE  /\ i \in kept' \/ Committing(c, i)' => copy'[c][i] = written'[i]
                        /\ i \in kept' => volume'[i] = written'[i]
      BY DEF OneWritersFile
    <2>1. c = s.c /\ writers \subseteq {c} /\ "damage" \notin writers
      BY <1>4, MemoryAssumption
    <2>2. /\ i \in kept \/ Committing(c, i) => copy[c][i] = written[i]
          /\ i \in kept => volume[i] = written[i]
      BY <2>1 DEF MemoryInv, OneWritersFile
    <2>3. CASE i = s.id
      BY <2>3, <2>1, <1>3, <1>4, <1>5, <1>6
    <2>4. CASE i # s.id
      <3>1. f[i].dim # "damaged" /\ f = copy[c]
        BY <2>1 DEF MemoryInv, WritersTold, f
      <3>2. copy'[c][i] = copy[c][i]
        BY <3>1, <2>1, <2>4, <1>3, <1>5
      <3>3. Committing(c, i)' => Committing(c, i)
        BY <2>4, <1>7 DEF Committing
      <3>4. QED
        BY <2>2, <2>4, <3>2, <3>3, <1>4, <1>6
    <2>5. QED
      BY <2>3, <2>4
  <1>11. HitsAreActive'
    BY <1>7 DEF MemoryInv, HitsAreActive, Comparable
  <1>12. QED
    BY <1>8, <1>9, <1>10, <1>11 DEF MemoryInv

LEMMA ReplaceFailsKeepsMemory ==
  ASSUME MemoryInv, NEW u \in Uses, ReplaceFails(u)
  PROVE  MemoryInv'
  <1> DEFINE a == use[u].c
             f == copy[a]
             g == Existing(f)
  <1>1. a \in Containers
    BY UseShapes DEF ReplaceFails, MemoryInv
  <1>2. f \in File /\ copy \in [Containers -> File]
    BY <1>1 DEF MemoryInv, MemoryTypeOK
  <1>3. /\ g \in File /\ (f = Empty => g = Empty)
        /\ \A j \in Entries : f[j].dim # "damaged" => g[j] = f[j]
    <2>1. Empty \in File /\ \A j \in Entries : Empty[j].dim = "none"
      BY DEF Empty, File, Row, NoRow
    <2>2. \A j \in Entries : Damaged[j].dim = "damaged"
      BY DEF Damaged
    <2>3. QED
      BY <1>2, <2>1, <2>2 DEF Existing
  <1>4. /\ copy' = [copy EXCEPT ![a] = g] /\ use' = [use EXCEPT ![u] = Free]
        /\ UNCHANGED <<volume, cache, written, kept, writers>>
    BY DEF ReplaceFails, Answers
  <1> HIDE DEF g, f
  <1>5. /\ copy'[a] = g /\ \A c \in Containers : c # a => copy'[c] = copy[c]
        /\ copy' \in [Containers -> File]
    BY <1>1, <1>2, <1>3, <1>4
  <1>6. /\ use'[u].at = "free" /\ \A v \in Uses : v # u => use'[v] = use[v]
        /\ use' \in [Uses -> {Free} \union Saving \union Reading]
    BY <1>4 DEF MemoryInv, MemoryTypeOK, Free
  <1>7. MemoryTypeOK'
    BY <1>4, <1>5, <1>6 DEF MemoryInv, MemoryTypeOK
  <1>8. \A c \in Containers, j \in Entries : copy[c][j].dim # "damaged" => copy'[c][j] = copy[c][j]
    BY <1>3, <1>5 DEF f
  <1>9. \A c \in Containers : copy[c] = Empty => copy'[c] = Empty
    BY <1>3, <1>5 DEF f
  <1>10. \A v \in Uses : use'[v].at = "committing" => use[v].at = "committing" /\ use'[v] = use[v]
    BY <1>6
  <1>11. WritersTold'
    BY <1>4, <1>8, <1>9, <1>10 DEF MemoryInv, WritersTold
  <1>12. OneWritersFile'
    <2> SUFFICES ASSUME NEW c \in Containers, writers' \subseteq {c}, NEW i \in Entries
                 PROVE  /\ i \in kept' \/ Committing(c, i)' => copy'[c][i] = written'[i]
                        /\ i \in kept' => volume'[i] = written'[i]
      BY DEF OneWritersFile
    <2>1. writers \subseteq {c} /\ "damage" \notin writers
      BY <1>4, MemoryAssumption
    <2>2. copy'[c][i] = copy[c][i]
      BY <2>1, <1>8 DEF MemoryInv, WritersTold
    <2>3. Committing(c, i)' => Committing(c, i)
      BY <1>10 DEF Committing
    <2>4. QED
      BY <1>4, <2>1, <2>2, <2>3 DEF MemoryInv, OneWritersFile
  <1>13. HitsAreActive'
    BY <1>6 DEF MemoryInv, HitsAreActive, Comparable
  <1>14. QED
    BY <1>7, <1>11, <1>12, <1>13 DEF MemoryInv

LEMMA CommitKeepsMemory ==
  ASSUME MemoryInv, NEW u \in Uses, Commit(u)
  PROVE  MemoryInv'
  <1> DEFINE a == use[u].c
             n == use[u].id
  <1>1. a \in Containers /\ n \in Entries /\ use[u].at = "committing" /\ a \in writers
    BY UseShapes DEF Commit, MemoryInv, Saving, WritersTold
  <1>2. /\ use' = [use EXCEPT ![u] = Free]
        /\ UNCHANGED <<copy, cache, written, writers>>
        /\ \/ volume' = copy[a] /\ kept' = kept \union {n}
           \/ volume' = volume /\ kept' = kept
    BY DEF Commit, Answers
  <1>3. Committing(a, n)
    BY <1>1 DEF Committing
  <1> HIDE DEF a, n
  <1>4. /\ use'[u].at = "free" /\ \A v \in Uses : v # u => use'[v] = use[v]
        /\ use' \in [Uses -> {Free} \union Saving \union Reading]
    BY <1>2 DEF MemoryInv, MemoryTypeOK, Free
  <1>5. MemoryTypeOK'
    BY <1>1, <1>2, <1>4 DEF MemoryInv, MemoryTypeOK
  <1>6. \A v \in Uses : use'[v].at = "committing" => use[v].at = "committing" /\ use'[v] = use[v]
    BY <1>4
  <1>7. WritersTold'
    BY <1>1, <1>2, <1>6 DEF MemoryInv, WritersTold
  <1>8. OneWritersFile'
    <2> SUFFICES ASSUME NEW c \in Containers, writers' \subseteq {c}, NEW i \in Entries
                 PROVE  /\ i \in kept' \/ Committing(c, i)' => copy'[c][i] = written'[i]
                        /\ i \in kept' => volume'[i] = written'[i]
      BY DEF OneWritersFile
    <2>1. writers \subseteq {c} /\ c = a
      BY <1>1, <1>2
    <2>2. /\ i \in kept \/ Committing(c, i) => copy[c][i] = written[i]
          /\ i \in kept => volume[i] = written[i]
      BY <2>1 DEF MemoryInv, OneWritersFile
    <2>3. Committing(c, i)' => Committing(c, i)
      BY <1>6 DEF Committing
    <2>4. i \in kept' => i \in kept \/ Committing(c, i)
      BY <1>2, <1>3, <2>1
    <2>5. QED
      BY <1>2, <2>1, <2>2, <2>3, <2>4
  <1>9. HitsAreActive'
    BY <1>4 DEF MemoryInv, HitsAreActive, Comparable
  <1>10. QED
    BY <1>5, <1>7, <1>8, <1>9 DEF MemoryInv

-----------------------------------------------------------------------------
LEMMA RestartKeepsMemory ==
  ASSUME MemoryInv, NEW a \in Containers, Restart(a)
  PROVE  MemoryInv'
  <1>1. /\ copy' = [copy EXCEPT ![a] = volume]
        /\ cache' = [cache EXCEPT ![a] = "none"]
        /\ use' = [u \in Uses |-> IF use[u].at # "free" /\ use[u].c = a THEN Free ELSE use[u]]
        /\ UNCHANGED <<volume, written, kept, writers>>
    BY DEF Restart
  <1>2. /\ copy'[a] = volume /\ \A c \in Containers : c # a => copy'[c] = copy[c]
        /\ copy' \in [Containers -> File]
    BY <1>1 DEF MemoryInv, MemoryTypeOK
  <1>3. \A u \in Uses : /\ use'[u] \in {Free} \union Saving \union Reading
                        /\ use'[u].at # "free" => use'[u] = use[u] /\ use[u].c # a
    BY <1>1 DEF MemoryInv, MemoryTypeOK, Free
  <1>4. use' \in [Uses -> {Free} \union Saving \union Reading]
    BY <1>1, <1>3
  <1>5. MemoryTypeOK'
    BY <1>1, <1>2, <1>4 DEF MemoryInv, MemoryTypeOK
  <1>6. WritersTold'
    BY <1>1, <1>2, <1>3 DEF MemoryInv, WritersTold
  <1>7. OneWritersFile'
    <2> SUFFICES ASSUME NEW c \in Containers, writers' \subseteq {c}, NEW i \in Entries
                 PROVE  /\ i \in kept' \/ Committing(c, i)' => copy'[c][i] = written'[i]
                        /\ i \in kept' => volume'[i] = written'[i]
      BY DEF OneWritersFile
    <2>1. /\ i \in kept \/ Committing(c, i) => copy[c][i] = written[i]
          /\ i \in kept => volume[i] = written[i]
      BY <1>1 DEF MemoryInv, OneWritersFile
    <2>2. Committing(c, i)' => Committing(c, i) /\ c # a
      BY <1>3 DEF Committing
    <2>3. QED
      BY <1>1, <1>2, <2>1, <2>2
  <1>8. HitsAreActive'
    BY <1>3 DEF MemoryInv, HitsAreActive, Comparable
  <1>9. QED
    BY <1>5, <1>6, <1>7, <1>8 DEF MemoryInv

LEMMA DamageKeepsMemory ==
  ASSUME MemoryInv, NEW a \in Containers, Damage(a)
  PROVE  MemoryInv'
  <1>1. /\ copy' = [copy EXCEPT ![a] = Damaged] /\ writers' = writers \union {a, "damage"}
        /\ UNCHANGED <<volume, cache, use, written, kept>>
    BY DEF Damage
  <1>2. Damaged \in File
    BY DEF Damaged, File, Row
  <1>3. MemoryTypeOK'
    BY <1>1, <1>2 DEF MemoryInv, MemoryTypeOK
  <1>4. WritersTold'
    BY <1>1 DEF MemoryInv, WritersTold
  <1>5. OneWritersFile'
    BY <1>1, MemoryAssumption DEF OneWritersFile
  <1>6. HitsAreActive'
    BY <1>1 DEF MemoryInv, HitsAreActive, Comparable
  <1>7. QED
    BY <1>3, <1>4, <1>5, <1>6 DEF MemoryInv

LEMMA MemoryStepKeeps == MemoryInv /\ [MemoryNext]_memoryFileVars => MemoryInv'
  <1> SUFFICES ASSUME MemoryInv, [MemoryNext]_memoryFileVars PROVE MemoryInv'
    OBVIOUS
  <1>1. CASE UNCHANGED memoryFileVars
    BY <1>1 DEF memoryFileVars, MemoryInv, MemoryTypeOK, WritersTold, OneWritersFile,
                HitsAreActive, Committing, Comparable
  <1>2. ASSUME NEW u \in Uses,
               \/ \E c \in Containers :
                    \/ u \in Reads /\ LoadPool(u, c)
                    \/ u \in Saves /\ \E i \in Entries, r \in Rows : Upsert(u, c, i, r)
               \/ Embedded(u) \/ Replace(u) \/ ReplaceFails(u) \/ Commit(u)
               \/ Baselines(u) \/ SearchPool(u) \/ Done(u)
        PROVE  MemoryInv'
    BY <1>2, LoadPoolKeepsMemory, UpsertKeepsMemory, EmbeddedKeepsMemory, ReplaceKeepsMemory,
       ReplaceFailsKeepsMemory, CommitKeepsMemory, BaselinesKeepMemory, SearchKeepsMemory,
       DoneKeepsMemory
  <1>3. ASSUME NEW c \in Containers, Restart(c) \/ Damage(c)
        PROVE  MemoryInv'
    BY <1>3, RestartKeepsMemory, DamageKeepsMemory
  <1>4. QED
    BY <1>1, <1>2, <1>3 DEF MemoryNext

LEMMA InvKeepsMemory == MemoryInv => MemoryKept
  <1> SUFFICES ASSUME MemoryInv PROVE MemoryKept
    OBVIOUS
  <1>1. ASSUME Cardinality(writers) <= 1, NEW i \in kept
        PROVE  volume[i] = written[i]
    <2>1. IsFiniteSet(writers)
      BY MemoryAssumption, FS_AddElement, FS_Subset DEF MemoryInv, MemoryTypeOK
    <2>2. \A x, y \in writers : x = y
      <3> SUFFICES ASSUME NEW x \in writers, NEW y \in writers, x # y PROVE FALSE
        OBVIOUS
      <3>1. Cardinality({x, y}) = 2 /\ IsFiniteSet({x, y})
        <4>1. IsFiniteSet({x}) /\ Cardinality({x}) = 1
          BY FS_Singleton
        <4>2. /\ IsFiniteSet({x} \cup {y})
              /\ Cardinality({x} \cup {y}) = IF y \in {x} THEN 1 ELSE 1 + 1
          BY <4>1, FS_AddElement
        <4>3. {x} \cup {y} = {x, y} /\ y \notin {x}
          OBVIOUS
        <4>4. QED
          BY <4>2, <4>3
      <3>2. Cardinality({x, y}) <= Cardinality(writers)
        BY <2>1, <3>1, FS_Subset
      <3>3. Cardinality(writers) \in Nat
        BY <2>1, FS_CardinalityType
      <3>4. QED
        BY <1>1, <3>1, <3>2, <3>3
    <2>3. writers # {}
      BY <1>1 DEF MemoryInv, WritersTold
    <2>4. PICK c \in Containers : c \in writers
      BY <2>3 DEF MemoryInv, MemoryTypeOK, WritersTold
    <2>5. writers \subseteq {c}
      BY <2>2, <2>4
    <2>6. QED
      BY <1>1, <2>5 DEF MemoryInv, MemoryTypeOK, OneWritersFile
  <1>2. ASSUME NEW u \in Uses, use[u].at = "searching", NEW i \in use[u].hits
        PROVE  use[u].file[i] = [active |-> TRUE, dim |-> "own"]
    <2>1. use[u] \in Reading
      BY <1>2, UseShapes DEF MemoryInv
    <2>2. i \in Entries /\ i \in Pool(use[u].file) /\ use[u].file[i].dim = "own"
      BY <1>2, <2>1 DEF MemoryInv, HitsAreActive, Comparable, Reading
    <2>3. use[u].file[i] \in Row /\ use[u].file[i].active
      BY <2>1, <2>2 DEF Reading, File, Pool
    <2>4. QED
      BY <2>2, <2>3 DEF Row
  <1>3. QED
    BY <1>1, <1>2 DEF MemoryKept

(* As long as one container does the writing, an answered and committed    *)
(* row is what the volume holds until the same skill is written again, and *)
(* a search finds active rows with vectors that compare: for any number of *)
(* skills, containers and overlapping requests, restarts and failures.     *)
THEOREM CommittedRowsStay == MemorySpec => []MemoryKept
  <1>1. MemorySpec => []MemoryInv
    BY MemoryStarts, MemoryStepKeeps, PTL DEF MemorySpec
  <1>2. QED
    BY <1>1, InvKeepsMemory, PTL
-----------------------------------------------------------------------------
(* The composer's relay. *)
Errors == {"disabled", "rate_limit", "invalid", "upstream"}
FrameSet == {<<"session">>, <<"result">>} \union {<<"delta", p>> : p \in Nat}
              \union {<<"error", e>> : e \in Errors}

(* What the browser has read and what is on its way to it. *)
Flow == read \o link[3].items

Shape(l) == l \in [items : {l.items}, end : {"none", "open", "done", "reset"}, reader : BOOLEAN]

RelayTypes ==
  /\ turn \in Turns
  /\ link \in [1..3 -> {link[h] : h \in 1..3}]
  /\ \A h \in 1..3 : Shape(link[h])
  /\ link[1].items \in Seq(Nat) /\ link[2].items \in Seq(Nat) /\ link[3].items \in Seq(FrameSet)
  /\ said \in 0..turn.pieces
  /\ agent \in {"none", "called", "reading", "over"} /\ service \in {"asked", "reading", "over"}
  /\ whole \in Seq(Nat) /\ got \in Seq(Nat) /\ held \in Seq(Nat) /\ read \in Seq(FrameSet)
  /\ failed \in BOOLEAN /\ garbled \in BOOLEAN

Ascends(s)  == \A i, j \in DOMAIN s : i < j => s[i] < s[j]
Below(s, t) == \A i \in DOMAIN s : \A j \in DOMAIN t : s[i] < t[j]
Within(s, n)  == \A i \in DOMAIN s : 1 <= s[i] /\ s[i] <= n
Follows(s, n) == \A i \in DOMAIN s : s[i] = n + i

Unasked ==
  service = "asked" =>
    /\ agent = "none" /\ said = 0 /\ got = <<>> /\ held = <<>> /\ whole = <<>> /\ ~failed
    /\ link[1] = Closed /\ link[2] = Closed /\ Flow = <<>>

(* The pieces come in the order in which the model said them. *)
Rises(s, t, n) == Ascends(s) /\ Ascends(t) /\ Below(s, t) /\ Within(s, n) /\ Within(t, n)

AgentInTurn ==
  /\ Rises(got, link[1].items, said) /\ Rises(link[2].items, link[1].items, said)
  /\ Rises(whole, link[1].items, said)
  /\ turn.streaming => whole = <<>>
  /\ ~turn.streaming => got = <<>> /\ link[2].items = <<>>

InTurn ==
  service = "reading" =>
    /\ link[Up].reader /\ Rises(got, link[Up].items, said)
    /\ Len(held) <= 1
    /\ \A k \in DOMAIN held : held[k] <= turn.rationale /\ \E i \in DOMAIN got : got[i] = held[k]
    /\ turn.direct <=> agent = "none"
    /\ agent = "called" =>
         link[1] = Closed /\ said = 0 /\ got = <<>> /\ link[2].items = <<>> /\ whole = <<>>
    /\ agent = "reading" => AgentInTurn

(* While nothing fails none is missing: n are past the model's connection. *)
Counted(n) ==
  /\ Follows(link[1].items, n) /\ said = n + Len(link[1].items)
  /\ link[1].end = "done" => said = turn.pieces

NoneMissing ==
  service = "reading" /\ ~failed =>
    /\ Follows(got, 0) /\ Follows(link[Up].items, Len(got))
    /\ turn.direct => Counted(Len(got))
    /\ ~turn.direct /\ link[2].end = "done" => agent = "over"
    /\ agent = "over" => Len(got) + Len(link[2].items) = turn.pieces
    /\ agent = "reading" /\ turn.streaming => Counted(Len(got) + Len(link[2].items))
    /\ agent = "reading" /\ ~turn.streaming => Follows(whole, 0) /\ Counted(Len(whole))

(* What the browser gets. *)
Told(frames, pieces) ==
  /\ \A i \in DOMAIN frames : (frames[i] = <<"session">>) <=> (i = 1 /\ turn.streaming)
  /\ \A i, j \in DOMAIN frames :
       i < j /\ Delta(frames[i]) /\ Delta(frames[j]) => frames[i][2] < frames[j][2]
  /\ \A i \in DOMAIN frames : Delta(frames[i]) =>
       /\ turn.streaming /\ frames[i][2] <= turn.rationale
       /\ \E k \in DOMAIN pieces : pieces[k] = frames[i][2]

FlowHolds ==
  /\ Told(Flow, got)
  /\ \A i \in DOMAIN Flow : Terminal(Flow[i]) => i = Len(Flow) /\ service = "over"
  /\ \A i \in DOMAIN Flow : Flow[i] = <<"result">> =>
       turn.sound /\ got # <<>> /\ got[Len(got)] = turn.pieces

HeldBack ==
  service = "reading" =>
    /\ \A i \in DOMAIN Flow : \A k \in DOMAIN held : Delta(Flow[i]) => Flow[i][2] < held[k]
    /\ turn.gate = "pass"
    /\ turn.streaming /\ link[3].reader =>
         /\ Flow # <<>>
         /\ \A k \in DOMAIN got : got[k] <= turn.rationale =>
              got[k] \in Pieces(Flow) \/ \E i \in DOMAIN held : held[i] = got[k]

Reaches ==
  /\ link[3].end = "open" <=> service # "over"
  /\ ~link[3].reader => link[3].items = <<>>
  /\ link[3].end = "done" /\ link[3].reader =>
       /\ Flow # <<>> /\ Terminal(Flow[Len(Flow)])
       /\ ~failed /\ turn.gate = "pass" =>
            /\ turn.streaming => Pieces(Flow) = 1..turn.rationale
            /\ turn.sound => Flow[Len(Flow)] = <<"result">>

RelayInv == RelayTypes /\ Unasked /\ InTurn /\ NoneMissing /\ FlowHolds /\ HeldBack /\ Reaches
-----------------------------------------------------------------------------
LEMMA TailOf ==
  ASSUME NEW S, NEW s \in Seq(S), s # <<>>
  PROVE  /\ Tail(s) \in Seq(S) /\ Head(s) = s[1] /\ Head(s) \in S
         /\ Len(s) \in Nat \ {0} /\ Len(Tail(s)) = Len(s) - 1
         /\ \A i \in DOMAIN Tail(s) : i + 1 \in DOMAIN s /\ Tail(s)[i] = s[i + 1]
         /\ 1 \in DOMAIN s
  OBVIOUS

LEMMA Appended ==
  ASSUME NEW S, NEW s \in Seq(S), NEW x \in S
  PROVE  /\ s \o <<x>> = Append(s, x) /\ Append(s, x) \in Seq(S)
         /\ Len(Append(s, x)) = Len(s) + 1 /\ Append(s, x)[Len(s) + 1] = x
         /\ \A i \in DOMAIN s : i \in DOMAIN Append(s, x) /\ Append(s, x)[i] = s[i]
         /\ \A i \in DOMAIN Append(s, x) : i \in DOMAIN s \/ (i = Len(s) + 1 /\ Append(s, x)[i] = x)
         /\ \A i \in DOMAIN s : i \in Nat /\ i <= Len(s)
         /\ Len(s) \in Nat
  OBVIOUS

(* Taking the first piece of what ascends, and putting it after what is    *)
(* below all of it.                                                        *)
LEMMA TailAscends ==
  ASSUME NEW s \in Seq(Nat), s # <<>>, Ascends(s)
  PROVE  /\ Ascends(Tail(s)) /\ \A i \in DOMAIN Tail(s) : Head(s) < Tail(s)[i]
         /\ \A i \in DOMAIN Tail(s) : Tail(s)[i] \in Nat
  <1>1. \A i \in DOMAIN Tail(s) : i \in Nat /\ i >= 1
    BY TailOf
  <1> QED BY <1>1, TailOf DEF Ascends

LEMMA AppendAscends ==
  ASSUME NEW s \in Seq(Nat), NEW x \in Nat, Ascends(s), \A i \in DOMAIN s : s[i] < x
  PROVE  Ascends(Append(s, x))
  <1> SUFFICES ASSUME NEW i \in DOMAIN Append(s, x), NEW j \in DOMAIN Append(s, x), i < j
               PROVE  Append(s, x)[i] < Append(s, x)[j]
    BY DEF Ascends
  <1>1. i \in DOMAIN s
    BY Appended
  <1> QED BY <1>1, Appended DEF Ascends

LEMMA MoveAscends ==
  ASSUME NEW s \in Seq(Nat), NEW t \in Seq(Nat), t # <<>>, Ascends(s), Ascends(t), Below(s, t)
  PROVE  /\ Append(s, Head(t)) \in Seq(Nat) /\ Tail(t) \in Seq(Nat)
         /\ Ascends(Append(s, Head(t))) /\ Ascends(Tail(t)) /\ Below(Append(s, Head(t)), Tail(t))
  <1>1. Head(t) \in Nat /\ Tail(t) \in Seq(Nat) /\ Append(s, Head(t)) \in Seq(Nat)
    BY TailOf
  <1>2. Ascends(Append(s, Head(t)))
    BY <1>1, TailOf, AppendAscends DEF Below
  <1>3. Ascends(Tail(t)) /\ \A i \in DOMAIN Tail(t) : Head(t) < Tail(t)[i]
    BY TailAscends
  <1>4. Below(Append(s, Head(t)), Tail(t))
    <2> SUFFICES ASSUME NEW i \in DOMAIN Append(s, Head(t)), NEW j \in DOMAIN Tail(t)
                 PROVE  Append(s, Head(t))[i] < Tail(t)[j]
      BY DEF Below
    <2>1. i \in DOMAIN s \/ Append(s, Head(t))[i] = Head(t)
      BY <1>1, Appended
    <2>2. CASE i \in DOMAIN s
      BY <2>2, <1>1, Appended, TailOf DEF Below
    <2>3. CASE Append(s, Head(t))[i] = Head(t)
      BY <2>3, <1>3
    <2> QED BY <2>1, <2>2, <2>3
  <1> QED BY <1>1, <1>2, <1>3, <1>4

LEMMA TailBelow ==
  ASSUME NEW s \in Seq(Nat), NEW t \in Seq(Nat), t # <<>>, Below(s, t)
  PROVE  Below(s, Tail(t))
  BY TailOf DEF Below

LEMMA TailWithin ==
  ASSUME NEW s \in Seq(Nat), s # <<>>, NEW n, Within(s, n)
  PROVE  Within(Tail(s), n) /\ 1 <= Head(s) /\ Head(s) <= n
  BY TailOf DEF Within

LEMMA AppendWithin ==
  ASSUME NEW s \in Seq(Nat), NEW x \in Nat, NEW n, Within(s, n), 1 <= x, x <= n
  PROVE  Within(Append(s, x), n)
  BY Appended DEF Within

LEMMA TailFollows ==
  ASSUME NEW s \in Seq(Nat), s # <<>>, NEW n \in Nat, Follows(s, n)
  PROVE  Follows(Tail(s), n + 1) /\ Head(s) = n + 1
  <1>1. \A i \in DOMAIN Tail(s) : i \in Nat
    BY TailOf
  <1> QED BY <1>1, TailOf DEF Follows

LEMMA AppendFollows ==
  ASSUME NEW s \in Seq(Nat), NEW n \in Nat, NEW x \in Nat, Follows(s, n), x = n + Len(s) + 1
  PROVE  Follows(Append(s, x), n)
  <1> SUFFICES ASSUME NEW i \in DOMAIN Append(s, x) PROVE Append(s, x)[i] = n + i
    BY DEF Follows
  <1>1. i \in DOMAIN s \/ (i = Len(s) + 1 /\ Append(s, x)[i] = x)
    BY Appended
  <1>2. CASE i \in DOMAIN s
    <2>1. Append(s, x)[i] = s[i]
      BY <1>2, Appended
    <2> QED BY <1>2, <2>1 DEF Follows
  <1>3. CASE i = Len(s) + 1 /\ Append(s, x)[i] = x
    <2>1. Len(s) \in Nat
      BY Appended
    <2> QED BY ONLY <1>3, <2>1, n \in Nat, x = n + Len(s) + 1
  <1> QED BY <1>1, <1>2, <1>3

-----------------------------------------------------------------------------
LEMMA Ends ==
  ASSUME NEW l, Shape(l), NEW how \in {"none", "open", "done", "reset"}
  PROVE  Shape(End(l, how)) /\ End(l, how).end = how /\ End(l, how).items = l.items /\ End(l, how).reader = l.reader
  BY DEF Shape, End

LEMMA Puts ==
  ASSUME NEW l, Shape(l), NEW items
  PROVE  /\ Shape(Put(l, items)) /\ Put(l, items).end = l.end /\ Put(l, items).reader = l.reader
         /\ l.reader => Put(l, items).items = l.items \o items
         /\ ~l.reader => Put(l, items) = l
  BY DEF Shape, Put

LEMMA Leaves ==
  ASSUME NEW l, Shape(l)
  PROVE  Shape(Leave(l)) /\ Leave(l).end = l.end /\ Leave(l).reader = FALSE /\ Leave(l).items = <<>>
  BY DEF Shape, Leave

LEMMA Takes ==
  ASSUME NEW h \in 1..3, Shape(link[h])
  PROVE  Shape(Took(h)) /\ Took(h).end = link[h].end /\ Took(h).reader = link[h].reader
         /\ Took(h).items = Tail(link[h].items)
  BY DEF Shape, Took

LEMMA Opens ==
  /\ Shape(Opened) /\ Opened.items = <<>> /\ Opened.end = "open" /\ Opened.reader = TRUE
  /\ Shape(Closed) /\ Closed.items = <<>> /\ Closed.end = "none" /\ Closed.reader = FALSE
  BY DEF Shape, Opened, Closed


LEMMA RisesSaid ==
  ASSUME NEW s \in Seq(Nat), NEW t \in Seq(Nat), NEW n \in Nat, NEW m \in Nat, m = n + 1, Rises(s, t, n)
  PROVE  Append(t, m) \in Seq(Nat) /\ Rises(s, Append(t, m), m) /\ Rises(s, t, m)
  <1>1. \A i \in DOMAIN s : s[i] \in Nat /\ s[i] <= n /\ 1 <= s[i]
    BY DEF Within, Rises
  <1>2. \A i \in DOMAIN t : t[i] \in Nat /\ t[i] <= n /\ 1 <= t[i]
    BY DEF Within, Rises
  <1>3. Append(t, m) \in Seq(Nat) /\ Ascends(Append(t, m))
    BY <1>2, Appended, AppendAscends DEF Rises
  <1>4. Within(Append(t, m), m)
    BY <1>2, Appended DEF Within
  <1>5. Within(s, m) /\ Within(t, m)
    BY <1>1, <1>2 DEF Within
  <1>6. ASSUME NEW i \in DOMAIN s, NEW j \in DOMAIN Append(t, m)
        PROVE  s[i] < Append(t, m)[j]
    <2>1. j \in DOMAIN t \/ Append(t, m)[j] = m
      BY Appended
    <2>2. CASE j \in DOMAIN t
      BY <2>2, Appended DEF Below, Rises
    <2>3. CASE Append(t, m)[j] = m
      BY <2>3, <1>1
    <2> QED BY <2>1, <2>2, <2>3
  <1> QED BY <1>3, <1>4, <1>5, <1>6 DEF Rises, Below

LEMMA RisesMove ==
  ASSUME NEW s \in Seq(Nat), NEW t \in Seq(Nat), t # <<>>, NEW n, Rises(s, t, n)
  PROVE  /\ Append(s, Head(t)) \in Seq(Nat) /\ Tail(t) \in Seq(Nat) /\ Head(t) \in Nat
         /\ Rises(Append(s, Head(t)), Tail(t), n) /\ Rises(s, Tail(t), n)
         /\ 1 <= Head(t) /\ Head(t) <= n /\ \A i \in DOMAIN s : s[i] < Head(t)
  <1>1. Head(t) \in Nat /\ Tail(t) \in Seq(Nat) /\ 1 <= Head(t) /\ Head(t) <= n /\ Within(Tail(t), n)
    BY TailOf, TailWithin DEF Rises
  <1>2. /\ Append(s, Head(t)) \in Seq(Nat) /\ Ascends(Append(s, Head(t))) /\ Ascends(Tail(t))
        /\ Below(Append(s, Head(t)), Tail(t))
    BY MoveAscends DEF Rises
  <1>3. Within(Append(s, Head(t)), n)
    BY <1>1, AppendWithin DEF Rises
  <1>4. Below(s, Tail(t)) /\ \A i \in DOMAIN s : s[i] < Head(t)
    BY TailBelow, TailOf DEF Rises, Below
  <1> QED BY <1>1, <1>2, <1>3, <1>4 DEF Rises

(* What passes from the third to the second stays above the first.         *)
LEMMA RisesPast ==
  ASSUME NEW s \in Seq(Nat), NEW t \in Seq(Nat), NEW u \in Seq(Nat), u # <<>>, NEW n,
         Rises(s, t, n), Rises(s, u, n), Rises(t, u, n)
  PROVE  Rises(s, Append(t, Head(u)), n)
  <1>1. Head(u) \in Nat /\ Rises(Append(t, Head(u)), Tail(u), n) /\ \A i \in DOMAIN s : s[i] < Head(u)
    BY RisesMove
  <1>2. ASSUME NEW i \in DOMAIN s, NEW j \in DOMAIN Append(t, Head(u))
        PROVE  s[i] < Append(t, Head(u))[j]
    <2>1. j \in DOMAIN t \/ Append(t, Head(u))[j] = Head(u)
      BY <1>1, Appended
    <2>2. CASE j \in DOMAIN t
      BY <2>2, <1>1, Appended DEF Below, Rises
    <2>3. CASE Append(t, Head(u))[j] = Head(u)
      BY <2>3, <1>1
    <2> QED BY <2>1, <2>2, <2>3
  <1> QED BY <1>1, <1>2 DEF Rises, Below

LEMMA RisesEmpty ==
  ASSUME NEW s \in Seq(Nat), NEW t \in Seq(Nat), NEW n, Rises(s, t, n)
  PROVE  /\ Rises(<<>>, t, n) /\ Rises(s, <<>>, n) /\ Rises(<<>>, <<>>, n) /\ Rises(<<>>, s, n)
  BY DEF Rises, Ascends, Below, Within

(* What happens upstream leaves the browser's side as it is.               *)
LEMMA UpstreamKeeps ==
  ASSUME FlowHolds, HeldBack, Reaches, UNCHANGED <<turn, got, held, read, service>>,
         link'[3] = link[3], failed => failed'
  PROVE  FlowHolds' /\ HeldBack' /\ Reaches'
  <1>1. Flow' = Flow
    BY DEF Flow
  <1>2. FlowHolds'
    BY <1>1 DEF FlowHolds, Told, Terminal, Delta
  <1>3. HeldBack'
    BY <1>1 DEF HeldBack, Delta, Pieces
  <1>4. Reaches'
    BY <1>1 DEF Reaches, Terminal, Delta, Pieces
  <1> QED BY <1>2, <1>3, <1>4

LEMMA TypeFacts ==
  ASSUME RelayTypes
  PROVE  /\ turn.direct \in BOOLEAN /\ turn.streaming \in BOOLEAN /\ turn.sound \in BOOLEAN
         /\ turn.gate \in {"pass", "disabled", "rate_limit", "catalog"}
         /\ turn.rationale \in Nat /\ turn.pieces \in Nat /\ said \in Nat /\ said <= turn.pieces
         /\ 1 <= turn.pieces /\ turn.rationale <= turn.pieces
         /\ turn.sound => turn.rationale < turn.pieces
         /\ Up \in {1, 2} /\ (turn.direct => Up = 1) /\ (~turn.direct => Up = 2)
         /\ Shape(link[1]) /\ Shape(link[2]) /\ Shape(link[3]) /\ Shape(link[Up])
         /\ link[Up].items \in Seq(Nat)
  <1>1. PICK t \in [direct : BOOLEAN, streaming : BOOLEAN, sound : BOOLEAN,
                    gate : {"pass", "disabled", "rate_limit", "catalog"},
                    rationale : 0..MaxPieces, pieces : 1..MaxPieces] :
           t = turn /\ IF t.sound THEN t.rationale < t.pieces ELSE t.rationale <= t.pieces
    BY DEF RelayTypes, Turns
  <1>2. turn.direct \in BOOLEAN /\ turn.streaming \in BOOLEAN /\ turn.sound \in BOOLEAN
    BY <1>1
  <1>3. turn.rationale \in Nat /\ turn.pieces \in Nat /\ 1 <= turn.pieces /\ turn.rationale <= turn.pieces
        /\ (turn.sound => turn.rationale < turn.pieces)
    BY <1>1, RelayAssumption
  <1>4. said \in Nat /\ said <= turn.pieces
    BY <1>3 DEF RelayTypes
  <1>5. Up \in {1, 2} /\ (turn.direct => Up = 1) /\ (~turn.direct => Up = 2)
    BY <1>2 DEF Up
  <1>6. turn.gate \in {"pass", "disabled", "rate_limit", "catalog"}
    BY <1>1
  <1>7. Shape(link[1]) /\ Shape(link[2]) /\ Shape(link[3])
    BY DEF RelayTypes
  <1>8. link[1].items \in Seq(Nat) /\ link[2].items \in Seq(Nat)
    BY DEF RelayTypes
  <1> QED BY <1>2, <1>3, <1>4, <1>5, <1>6, <1>7, <1>8

LEMMA TypesOfPieces ==
  ASSUME RelayTypes
  PROVE  /\ got \in Seq(Nat) /\ whole \in Seq(Nat) /\ held \in Seq(Nat)
         /\ link[1].items \in Seq(Nat) /\ link[2].items \in Seq(Nat)
         /\ said \in Nat /\ Len(got) \in Nat /\ Len(whole) \in Nat /\ Len(link[2].items) \in Nat
         /\ Len(link[1].items) \in Nat /\ said <= turn.pieces /\ turn.pieces \in Nat
         /\ Len(got) + Len(link[2].items) \in Nat
  <1>1. /\ got \in Seq(Nat) /\ whole \in Seq(Nat) /\ held \in Seq(Nat)
        /\ link[1].items \in Seq(Nat) /\ link[2].items \in Seq(Nat)
    BY DEF RelayTypes
  <1>2. Len(got) \in Nat /\ Len(whole) \in Nat /\ Len(link[2].items) \in Nat /\ Len(link[1].items) \in Nat
    BY <1>1
  <1> QED BY <1>1, <1>2, TypeFacts

LEMMA GenerateKeeps == ASSUME RelayInv, Generate PROVE RelayInv'
  <1>0. RelayTypes /\ Unasked /\ InTurn /\ NoneMissing /\ FlowHolds /\ HeldBack /\ Reaches
    BY DEF RelayInv
  <1>2. UNCHANGED <<turn, agent, service, whole, got, held, read, failed, garbled>>
        /\ link[1].end = "open" /\ link[1].reader
    BY DEF Generate
  <1>1. /\ link' \in [1..3 -> {link'[h] : h \in 1..3}] /\ link'[2] = link[2] /\ link'[3] = link[3]
        /\ Shape(link'[1]) /\ link'[1].reader = link[1].reader /\ link'[1].items \in Seq(Nat)
        /\ \/ /\ said < turn.pieces /\ said' = said + 1
              /\ link'[1].items = Append(link[1].items, said + 1) /\ link'[1].end = "open"
           \/ /\ said = turn.pieces /\ said' = said
              /\ link'[1].items = link[1].items /\ link'[1].end = "done"
    <2>1. Shape(link[1]) /\ link \in [1..3 -> {link[h] : h \in 1..3}]
      BY <1>0 DEF RelayTypes
    <2>2. PICK k \in Nat : k = said + 1
      BY <1>0, TypesOfPieces
    <2>3. CASE said < turn.pieces
      <3>1. said' = k /\ link' = [link EXCEPT ![1] = Put(@, <<k>>)]
        BY <2>3, <2>2 DEF Generate
      <3>2. link'[1] = Put(link[1], <<k>>) /\ link'[2] = link[2] /\ link'[3] = link[3]
            /\ link' \in [1..3 -> {link'[h] : h \in 1..3}]
        BY <3>1, <2>1
      <3>3. Shape(Put(link[1], <<k>>)) /\ Put(link[1], <<k>>).end = link[1].end
            /\ Put(link[1], <<k>>).reader = link[1].reader
            /\ Put(link[1], <<k>>).items = link[1].items \o <<k>>
        BY <2>1, <1>2, Puts
      <3>4. link[1].items \o <<k>> = Append(link[1].items, k) /\ Append(link[1].items, k) \in Seq(Nat)
        BY SMTT(30), <1>0, TypesOfPieces, Appended
      <3>5. link'[1].end = "open" /\ link'[1].items = Append(link[1].items, k) /\ link'[1].reader = link[1].reader
        BY <3>2, <3>3, <3>4, <1>2
      <3> QED BY <3>1, <3>2, <3>3, <3>4, <3>5, <2>2, <2>3
    <2>4. CASE ~(said < turn.pieces)
      <3>1. said' = said /\ link' = [link EXCEPT ![1] = End(@, "done")]
        BY <2>4 DEF Generate
      <3>2. link'[1] = End(link[1], "done") /\ link'[2] = link[2] /\ link'[3] = link[3]
            /\ link' \in [1..3 -> {link'[h] : h \in 1..3}]
        BY <3>1, <2>1
      <3>3. said = turn.pieces /\ link[1].items \in Seq(Nat)
        BY <2>4, <1>0, TypesOfPieces
      <3>4. Shape(End(link[1], "done")) /\ End(link[1], "done").end = "done"
            /\ End(link[1], "done").items = link[1].items /\ End(link[1], "done").reader = link[1].reader
        BY <2>1, Ends
      <3> QED BY <3>1, <3>2, <3>3, <3>4
    <2> QED BY <2>3, <2>4
  <1>3. FlowHolds' /\ HeldBack' /\ Reaches'
    BY <1>0, <1>1, <1>2, UpstreamKeeps
  <1>4. service # "asked" /\ (service = "reading" => agent # "called")
    BY <1>0, <1>2, Opens DEF Unasked, InTurn
  <1>5. said' \in 0..turn.pieces /\ said' \in Nat
    BY <1>0, <1>1, TypeFacts
  <1>6. RelayTypes'
    <2>1. \A h \in 1..3 : Shape(link[h])'
      BY <1>0, <1>1 DEF RelayTypes, Shape
    <2> QED BY <2>1, <1>0, <1>1, <1>2, <1>5 DEF RelayTypes
  <1>7. Unasked'
    BY <1>4, <1>2 DEF Unasked
  <1>8. InTurn'
    <2> SUFFICES ASSUME service = "reading" PROVE InTurn'
      BY <1>2 DEF InTurn
    <2>1. ASSUME NEW s \in Seq(Nat), Rises(s, link[1].items, said)
          PROVE  Rises(s, link'[1].items, said') /\ \A t \in Seq(Nat) : Rises(s, t, said) => Rises(s, t, said')
      <3>1. CASE said' = said + 1 /\ link'[1].items = Append(link[1].items, said + 1)
        BY <3>1, <2>1, <1>5, <1>0, TypesOfPieces, RisesSaid
      <3>2. CASE said' = said /\ link'[1].items = link[1].items
        BY <3>2, <2>1
      <3> QED BY <1>1, <3>1, <3>2
    <2>2. \A s, t \in Seq(Nat) : Rises(s, t, said) => Rises(s, t, said')
      <3>1. CASE said' = said + 1
        BY <3>1, <1>5, <1>0, TypesOfPieces, RisesSaid
      <3> QED BY <3>1, <1>1
    <2>3. Rises(got, link[Up].items, said)' /\ (link[Up].reader)'
      <3>1. Rises(got, link[Up].items, said) /\ link[Up].reader
        BY <1>0 DEF InTurn
      <3>2. CASE turn.direct
        BY <3>1, <3>2, <2>1, <1>0, <1>1, <1>2, TypesOfPieces DEF Up, Rises
      <3>3. CASE ~turn.direct
        BY <3>1, <3>3, <2>2, <1>0, <1>1, <1>2, TypesOfPieces DEF Up, Rises
      <3> QED BY <3>2, <3>3
    <2>4. ASSUME agent = "reading" PROVE AgentInTurn'
      <3>1. AgentInTurn
        BY <2>4, <1>0 DEF InTurn
      <3>2. Rises(got, link'[1].items, said') /\ Rises(link[2].items, link'[1].items, said')
            /\ Rises(whole, link'[1].items, said')
        BY <3>1, <2>1, <1>0, TypesOfPieces DEF AgentInTurn
      <3> QED BY <3>1, <3>2, <1>1, <1>2 DEF AgentInTurn
    <2>5. /\ Len(held) <= 1 /\ (turn.direct <=> agent = "none")
          /\ \A k \in DOMAIN held : held[k] <= turn.rationale /\ \E i \in DOMAIN got : got[i] = held[k]
      BY <1>0 DEF InTurn
    <2>6. /\ Len(held)' <= 1 /\ (turn.direct <=> agent = "none")'
          /\ (\A k \in DOMAIN held : held[k] <= turn.rationale /\ \E i \in DOMAIN got : got[i] = held[k])'
      BY <2>5, <1>2
    <2>7. agent' # "called"
      BY <1>2, <1>4
    <2>8. (agent = "reading" => AgentInTurn)'
      BY <2>4, <1>2
    <2>9. (agent = "called" =>
             link[1] = Closed /\ said = 0 /\ got = <<>> /\ link[2].items = <<>> /\ whole = <<>>)'
      BY <2>7
    <2> QED BY <2>3, <2>6, <2>8, <2>9 DEF InTurn
  <1>9. NoneMissing'
    <2> SUFFICES ASSUME service = "reading", ~failed PROVE NoneMissing'
      BY <1>2 DEF NoneMissing
    <2>1. ASSUME NEW n \in Nat, Counted(n) PROVE Counted(n)'
      <3>1. CASE said' = said + 1 /\ link'[1].items = Append(link[1].items, said + 1) /\ link'[1].end = "open"
        <4>1. PICK s \in Seq(Nat) : s = link[1].items
          BY <1>0, TypesOfPieces
        <4>2. PICK k \in Nat : k = said + 1
          BY <1>0, TypesOfPieces
        <4>3. k = n + Len(s) + 1 /\ Follows(s, n) /\ Len(s) \in Nat
          BY <4>1, <4>2, <2>1 DEF Counted
        <4>4. Follows(Append(s, k), n) /\ Len(Append(s, k)) = Len(s) + 1
          BY <4>3, AppendFollows, Appended
        <4> QED BY <4>1, <4>2, <4>3, <4>4, <3>1 DEF Counted
      <3>2. CASE said' = said /\ link'[1].items = link[1].items /\ said = turn.pieces
        BY <3>2, <2>1, <1>2 DEF Counted
      <3> QED BY <1>1, <3>1, <3>2
    <2>2. CASE turn.direct
      <3>1. Counted(Len(got)) /\ Follows(got, 0) /\ agent = "none"
        BY <2>2, <1>0 DEF NoneMissing, InTurn
      <3>2. Counted(Len(got))'
        BY <3>1, <2>1, <1>0, TypesOfPieces, <1>2 DEF Counted
      <3> QED BY <3>1, <3>2, <2>2, <1>2 DEF NoneMissing, Up, Counted
    <2>3. CASE ~turn.direct /\ agent # "reading"
      BY <2>3, <1>0, <1>1, <1>2 DEF NoneMissing, Up
    <2>4. CASE ~turn.direct /\ agent = "reading" /\ turn.streaming
      <3>1. Counted(Len(got) + Len(link[2].items))
        BY <2>4, <1>0 DEF NoneMissing
      <3>2. Counted(Len(got) + Len(link[2].items))'
        BY <3>1, <2>1, <1>0, TypesOfPieces, <1>1, <1>2 DEF Counted
      <3> QED BY <3>1, <3>2, <2>4, <1>0, <1>1, <1>2 DEF NoneMissing, Up
    <2>5. CASE ~turn.direct /\ agent = "reading" /\ ~turn.streaming
      <3>1. Counted(Len(whole))
        BY <2>5, <1>0 DEF NoneMissing
      <3>2. Counted(Len(whole))'
        BY <3>1, <2>1, <1>0, TypesOfPieces, <1>1, <1>2 DEF Counted
      <3> QED BY <3>1, <3>2, <2>5, <1>0, <1>1, <1>2 DEF NoneMissing, Up
    <2> QED BY <2>2, <2>3, <2>4, <2>5
  <1> QED BY <1>3, <1>6, <1>7, <1>8, <1>9 DEF RelayInv

LEMMA UpstreamTypes ==
  ASSUME RelayTypes, link' \in [1..3 -> {link'[h] : h \in 1..3}], link'[3] = link[3],
         Shape(link'[1]), Shape(link'[2]), link'[1].items \in Seq(Nat), link'[2].items \in Seq(Nat),
         UNCHANGED <<turn, said, got, held, read, service>>,
         agent' \in {"none", "called", "reading", "over"}, whole' \in Seq(Nat),
         failed' \in BOOLEAN, garbled' \in BOOLEAN
  PROVE  RelayTypes'
  <1>1. \A h \in 1..3 : Shape(link[h])'
    BY DEF RelayTypes, Shape
  <1> QED BY <1>1 DEF RelayTypes

LEMMA ModelFailsKeeps == ASSUME RelayInv, ModelFails PROVE RelayInv'
  <1>0. RelayTypes /\ Unasked /\ InTurn /\ NoneMissing /\ FlowHolds /\ HeldBack /\ Reaches
    BY DEF RelayInv
  <1>1. /\ UNCHANGED <<turn, said, agent, service, whole, got, held, read, garbled>> /\ failed' = TRUE
        /\ link[1].end = "open"
    BY DEF ModelFails
  <1>2. PICK how \in {"reset", "done"} : link' = [link EXCEPT ![1] = End(@, how)]
    BY DEF ModelFails
  <1>3. /\ link' \in [1..3 -> {link'[h] : h \in 1..3}] /\ link'[2] = link[2] /\ link'[3] = link[3]
        /\ Shape(link'[1]) /\ link'[1].items = link[1].items /\ link'[1].reader = link[1].reader
    <2>1. Shape(link[1]) /\ link \in [1..3 -> {link[h] : h \in 1..3}]
      BY <1>0 DEF RelayTypes
    <2>2. link'[1] = End(link[1], how) /\ link'[2] = link[2] /\ link'[3] = link[3]
          /\ link' \in [1..3 -> {link'[h] : h \in 1..3}]
      BY <2>1, <1>2
    <2>3. Shape(End(link[1], how)) /\ End(link[1], how).items = link[1].items
          /\ End(link[1], how).reader = link[1].reader
      BY <2>1, Ends
    <2> QED BY <2>2, <2>3
  <1>4. FlowHolds' /\ HeldBack' /\ Reaches'
    BY <1>0, <1>1, <1>3, UpstreamKeeps
  <1>5. RelayTypes'
    <2>1. link'[1].items \in Seq(Nat) /\ link'[2].items \in Seq(Nat) /\ Shape(link'[2])
      BY <1>0, <1>3 DEF RelayTypes
    <2> QED BY <2>1, <1>0, <1>1, <1>3, UpstreamTypes DEF RelayTypes
  <1>6. service # "asked" /\ (service = "reading" => agent # "called")
    BY <1>0, <1>1, Opens DEF Unasked, InTurn
  <1>7. Unasked' /\ NoneMissing'
    BY <1>1, <1>6 DEF Unasked, NoneMissing
  <1>8. InTurn'
    <2> SUFFICES ASSUME service = "reading" PROVE InTurn'
      BY <1>1 DEF InTurn
    <2>1. Rises(got, link[Up].items, said)' /\ (link[Up].reader)'
      <3>1. Rises(got, link[Up].items, said) /\ link[Up].reader /\ Up \in {1, 2}
        BY <1>0, TypeFacts DEF InTurn
      <3> QED BY <3>1, <1>1, <1>3 DEF Up
    <2>2. (agent = "reading" => AgentInTurn)'
      BY <1>0, <1>1, <1>3 DEF InTurn, AgentInTurn
    <2>3. /\ Len(held)' <= 1 /\ (turn.direct <=> agent = "none")'
          /\ (\A k \in DOMAIN held : held[k] <= turn.rationale /\ \E i \in DOMAIN got : got[i] = held[k])'
      BY <1>0, <1>1 DEF InTurn
    <2>4. agent' # "called"
      BY <1>1, <1>6
    <2> QED BY <2>1, <2>2, <2>3, <2>4 DEF InTurn
  <1> QED BY <1>4, <1>5, <1>7, <1>8 DEF RelayInv

LEMMA AgentStopsKeeps ==
  ASSUME RelayInv, agent \in {"called", "reading"}, AgentStops("reset"), failed => failed', failed' \in BOOLEAN,
         service = "reading" => failed'
  PROVE  RelayInv'
  <1>0. RelayTypes /\ Unasked /\ InTurn /\ NoneMissing /\ FlowHolds /\ HeldBack /\ Reaches
    BY DEF RelayInv
  <1>1. /\ UNCHANGED <<turn, said, service, whole, got, held, read, garbled>> /\ agent' = "over"
        /\ link' = [link EXCEPT ![1] = Leave(@), ![2] = End(@, "reset")]
    BY DEF AgentStops
  <1>3. /\ link' \in [1..3 -> {link'[h] : h \in 1..3}] /\ link'[3] = link[3]
        /\ Shape(link'[1]) /\ link'[1].items = <<>>
        /\ Shape(link'[2]) /\ link'[2].items = link[2].items /\ link'[2].reader = link[2].reader
    <2>1. Shape(link[1]) /\ Shape(link[2]) /\ link \in [1..3 -> {link[h] : h \in 1..3}]
      BY <1>0 DEF RelayTypes
    <2>2. link'[1] = Leave(link[1]) /\ link'[2] = End(link[2], "reset") /\ link'[3] = link[3]
          /\ link' \in [1..3 -> {link'[h] : h \in 1..3}]
      BY <2>1, <1>1
    <2>3. /\ Shape(End(link[2], "reset")) /\ End(link[2], "reset").items = link[2].items
          /\ End(link[2], "reset").reader = link[2].reader
          /\ Shape(Leave(link[1])) /\ Leave(link[1]).items = <<>>
      BY <2>1, Ends, Leaves
    <2> QED BY <2>2, <2>3
  <1>4. FlowHolds' /\ HeldBack' /\ Reaches'
    BY <1>0, <1>1, <1>3, UpstreamKeeps
  <1>5. RelayTypes'
    <2>0. <<>> \in Seq(Nat)
      OBVIOUS
    <2>1. link'[1].items \in Seq(Nat) /\ link'[2].items \in Seq(Nat) /\ whole' \in Seq(Nat)
      BY <2>0, <1>0, <1>1, <1>3, TypesOfPieces
    <2>2. garbled' \in BOOLEAN
      BY <1>0, <1>1 DEF RelayTypes
    <2> QED BY <2>1, <2>2, <1>0, <1>1, <1>3, UpstreamTypes
  <1>6. service # "asked" /\ (service = "reading" => ~turn.direct)
    BY <1>0 DEF Unasked, InTurn
  <1>7. Unasked' /\ NoneMissing'
    BY <1>1, <1>6 DEF Unasked, NoneMissing
  <1>8. InTurn'
    <2> SUFFICES ASSUME service = "reading" PROVE InTurn'
      BY <1>1 DEF InTurn
    <2>1. Rises(got, link[Up].items, said)' /\ (link[Up].reader)'
      <3>1. Rises(got, link[Up].items, said) /\ link[Up].reader /\ Up = 2
        BY <1>0, <1>6, TypeFacts DEF InTurn
      <3> QED BY <3>1, <1>1, <1>3 DEF Up
    <2>2. agent' # "reading" /\ agent' # "called" /\ (turn.direct <=> agent = "none")'
      BY <1>1, <1>6
    <2>3. /\ Len(held)' <= 1
          /\ (\A k \in DOMAIN held : held[k] <= turn.rationale /\ \E i \in DOMAIN got : got[i] = held[k])'
      BY <1>0, <1>1 DEF InTurn
    <2> QED BY <2>1, <2>2, <2>3 DEF InTurn
  <1> QED BY <1>4, <1>5, <1>7, <1>8 DEF RelayInv

LEMMA AgentRefusesKeeps == ASSUME RelayInv, AgentRefuses PROVE RelayInv'
  BY AgentStopsKeeps DEF AgentRefuses

LEMMA AgentFailsKeeps == ASSUME RelayInv, AgentFails PROVE RelayInv'
  BY AgentStopsKeeps DEF AgentFails

LEMMA AgentCancelledKeeps == ASSUME RelayInv, AgentCancelled PROVE RelayInv'
  <1>1. service # "reading"
    <2> SUFFICES ASSUME service = "reading" PROVE FALSE
      OBVIOUS
    <2>1. agent # "none" /\ ~link[2].reader
      BY DEF AgentCancelled
    <2>2. RelayTypes /\ InTurn
      BY DEF RelayInv
    <2>3. link[Up].reader /\ Up = 2
      BY <2>1, <2>2, TypeFacts DEF InTurn
    <2> QED BY <2>1, <2>3
  <1>2. failed' = failed /\ failed \in BOOLEAN
    BY DEF AgentCancelled, RelayInv, RelayTypes
  <1> QED BY <1>1, <1>2, AgentStopsKeeps DEF AgentCancelled

LEMMA AgentStartsKeeps == ASSUME RelayInv, AgentStarts PROVE RelayInv'
  <1>0. RelayTypes /\ Unasked /\ InTurn /\ NoneMissing /\ FlowHolds /\ HeldBack /\ Reaches
    BY DEF RelayInv
  <1>1. /\ UNCHANGED <<turn, said, service, whole, got, held, read, failed, garbled>>
        /\ agent = "called" /\ agent' = "reading" /\ link' = [link EXCEPT ![1] = Opened]
    BY DEF AgentStarts
  <1>3. /\ link' \in [1..3 -> {link'[h] : h \in 1..3}] /\ link'[3] = link[3] /\ link'[2] = link[2]
        /\ Shape(link'[1]) /\ link'[1].items = <<>> /\ link'[1].end = "open" /\ link'[1].reader = TRUE
    <2>1. link \in [1..3 -> {link[h] : h \in 1..3}]
      BY <1>0 DEF RelayTypes
    <2>2. link'[1] = Opened /\ link'[2] = link[2] /\ link'[3] = link[3]
          /\ link' \in [1..3 -> {link'[h] : h \in 1..3}]
      BY <2>1, <1>1
    <2> QED BY <2>2, Opens
  <1>4. FlowHolds' /\ HeldBack' /\ Reaches'
    BY <1>0, <1>1, <1>3, UpstreamKeeps
  <1>5. RelayTypes'
    <2>0. <<>> \in Seq(Nat)
      OBVIOUS
    <2>1. /\ link'[1].items \in Seq(Nat) /\ link'[2].items \in Seq(Nat) /\ whole' \in Seq(Nat)
          /\ Shape(link'[2])
      BY <2>0, <1>0, <1>1, <1>3, TypesOfPieces, TypeFacts
    <2>2. garbled' \in BOOLEAN /\ failed' \in BOOLEAN
      BY <1>0, <1>1 DEF RelayTypes
    <2> QED BY <2>1, <2>2, <1>0, <1>1, <1>3, UpstreamTypes
  <1>6. service # "asked" /\ (service = "reading" => ~turn.direct)
    BY <1>0, <1>1 DEF Unasked, InTurn
  <1>7. Unasked'
    BY <1>1, <1>6 DEF Unasked
  <1> DEFINE Clean == said = 0 /\ got = <<>> /\ link[2].items = <<>> /\ whole = <<>>
  <1>9. service = "reading" => Clean
    BY <1>0, <1>1 DEF InTurn
  <1>8. InTurn'
    <2> SUFFICES ASSUME service = "reading" PROVE InTurn'
      BY <1>1 DEF InTurn
    <2>1. Rises(got, link[Up].items, said)' /\ (link[Up].reader)'
      <3>1. Rises(got, link[Up].items, said) /\ link[Up].reader /\ Up = 2
        BY <1>0, <1>6, TypeFacts DEF InTurn
      <3> QED BY <3>1, <1>1, <1>3 DEF Up
    <2>2. agent' # "called" /\ (turn.direct <=> agent = "none")'
      BY <1>1, <1>6
    <2>3. /\ Len(held)' <= 1
          /\ (\A k \in DOMAIN held : held[k] <= turn.rationale /\ \E i \in DOMAIN got : got[i] = held[k])'
      BY <1>0, <1>1 DEF InTurn
    <2>4. AgentInTurn'
      <3>1. Rises(<<>>, <<>>, 0)
        BY DEF Rises, Ascends, Below, Within
      <3> QED BY <3>1, <1>1, <1>3, <1>9 DEF AgentInTurn
    <2> QED BY <2>1, <2>2, <2>3, <2>4 DEF InTurn
  <1>10. NoneMissing'
    <2> SUFFICES ASSUME service = "reading", ~failed PROVE NoneMissing'
      BY <1>1 DEF NoneMissing
    <2>1. Follows(<<>>, 0) /\ Len(<<>>) = 0
      BY DEF Follows
    <2>2. Counted(0)'
      BY <2>1, <1>1, <1>3, <1>9 DEF Counted
    <2>3. ~turn.direct /\ (link[2].end = "done" => agent = "over")
      BY <1>0, <1>6 DEF NoneMissing
    <2> QED BY <2>1, <2>2, <2>3, <1>1, <1>3, <1>9 DEF NoneMissing, Up
  <1> QED BY <1>4, <1>5, <1>7, <1>8, <1>10 DEF RelayInv

LEMMA AgentReadsKeeps == ASSUME RelayInv, AgentReads PROVE RelayInv'
  <1>0. RelayTypes /\ Unasked /\ InTurn /\ NoneMissing /\ FlowHolds /\ HeldBack /\ Reaches
    BY DEF RelayInv
  <1>1. /\ UNCHANGED <<turn, said, agent, service, got, held, read, failed, garbled>>
        /\ agent = "reading" /\ link[1].items # <<>> /\ Ahead(1) = Head(link[1].items)
    BY DEF AgentReads, Ahead
  <1>2. PICK h \in Nat : h = Head(link[1].items)
    BY <1>0, <1>1, TypesOfPieces, TailOf
  <1>3. /\ link' \in [1..3 -> {link'[g] : g \in 1..3}] /\ link'[3] = link[3]
        /\ Shape(link'[1]) /\ link'[1].items = Tail(link[1].items) /\ link'[1].end = link[1].end
        /\ Shape(link'[2]) /\ link'[2].reader = link[2].reader /\ link'[2].end = link[2].end
        /\ \/ /\ turn.streaming /\ whole' = whole
              /\ link[2].reader => link'[2].items = Append(link[2].items, h)
              /\ ~link[2].reader => link'[2].items = link[2].items
           \/ ~turn.streaming /\ whole' = Append(whole, h) /\ link'[2] = link[2]
    <2>1. Shape(link[1]) /\ Shape(link[2]) /\ link \in [1..3 -> {link[g] : g \in 1..3}]
      BY <1>0 DEF RelayTypes
    <2>2. /\ Shape(Took(1)) /\ Took(1).end = link[1].end /\ Took(1).items = Tail(link[1].items)
      BY <2>1, Takes
    <2>3. CASE turn.streaming
      <3>1. whole' = whole /\ link' = [link EXCEPT ![1] = Took(1), ![2] = Put(@, <<h>>)]
        BY <2>3, <1>1, <1>2 DEF AgentReads
      <3>2. link'[1] = Took(1) /\ link'[2] = Put(link[2], <<h>>) /\ link'[3] = link[3]
            /\ link' \in [1..3 -> {link'[g] : g \in 1..3}]
        BY <3>1, <2>1
      <3>3. /\ Shape(Put(link[2], <<h>>)) /\ Put(link[2], <<h>>).end = link[2].end
            /\ Put(link[2], <<h>>).reader = link[2].reader
            /\ link[2].reader => Put(link[2], <<h>>).items = link[2].items \o <<h>>
            /\ ~link[2].reader => Put(link[2], <<h>>).items = link[2].items
        BY <2>1, Puts
      <3>4. link[2].items \o <<h>> = Append(link[2].items, h)
        BY <1>0, TypesOfPieces, Appended
      <3> QED BY <3>1, <3>2, <3>3, <3>4, <2>2, <2>3
    <2>4. CASE ~turn.streaming
      <3>1. whole' = Append(whole, h) /\ link' = [link EXCEPT ![1] = Took(1)]
        BY <2>4, <1>1, <1>2 DEF AgentReads
      <3>2. link'[1] = Took(1) /\ link'[2] = link[2] /\ link'[3] = link[3]
            /\ link' \in [1..3 -> {link'[g] : g \in 1..3}]
        BY <3>1, <2>1
      <3> QED BY <3>1, <3>2, <2>1, <2>2, <2>4
    <2> QED BY <2>3, <2>4
  <1>4. FlowHolds' /\ HeldBack' /\ Reaches'
    BY <1>0, <1>1, <1>3, UpstreamKeeps
  <1>5. RelayTypes'
    <2>1. Append(link[2].items, h) \in Seq(Nat) /\ Append(whole, h) \in Seq(Nat) /\ Tail(link[1].items) \in Seq(Nat)
      BY <1>0, <1>1, TypesOfPieces, Appended, TailOf
    <2>2. link'[1].items \in Seq(Nat) /\ link'[2].items \in Seq(Nat) /\ whole' \in Seq(Nat)
      BY <2>1, <1>3, <1>0, TypesOfPieces
    <2>3. garbled' \in BOOLEAN /\ failed' \in BOOLEAN
      BY <1>0, <1>1 DEF RelayTypes
    <2> QED BY <2>2, <2>3, <1>0, <1>1, <1>3, UpstreamTypes
  <1>6. service # "asked" /\ (service = "reading" => ~turn.direct /\ Up = 2 /\ link[2].reader /\ AgentInTurn)
    BY <1>0, <1>1, TypeFacts DEF Unasked, InTurn
  <1>7. Unasked'
    BY <1>1, <1>6 DEF Unasked
  <1>8. InTurn'
    <2> SUFFICES ASSUME service = "reading" PROVE InTurn'
      BY <1>1 DEF InTurn
    <2>1. PICK g \in Seq(Nat), one \in Seq(Nat), two \in Seq(Nat), all \in Seq(Nat) :
            g = got /\ one = link[1].items /\ two = link[2].items /\ all = whole
      BY <1>0, TypesOfPieces
    <2>2. Rises(g, one, said) /\ Rises(two, one, said) /\ Rises(all, one, said) /\ Rises(g, two, said) /\ one # <<>>
          /\ (turn.streaming => all = <<>>) /\ (~turn.streaming => g = <<>> /\ two = <<>>) /\ h = Head(one)
      BY <2>1, <1>0, <1>1, <1>2, <1>6 DEF InTurn, AgentInTurn
    <2>3. /\ Rises(g, Tail(one), said) /\ Rises(Append(two, h), Tail(one), said) /\ Rises(two, Tail(one), said)
          /\ Rises(all, Tail(one), said) /\ Rises(Append(all, h), Tail(one), said)
          /\ Rises(g, Append(two, h), said)
      <3>1. Rises(g, Tail(one), said)
        BY <2>2, RisesMove
      <3>2. Rises(Append(two, h), Tail(one), said) /\ Rises(two, Tail(one), said)
        BY <2>2, RisesMove
      <3>3. Rises(all, Tail(one), said) /\ Rises(Append(all, h), Tail(one), said)
        BY <2>2, RisesMove
      <3>4. Rises(g, Append(two, h), said)
        BY <2>2, RisesPast
      <3> QED BY <3>1, <3>2, <3>3, <3>4
    <2>4. Rises(got, link[Up].items, said)' /\ (link[Up].reader)'
      <3>1. Up' = 2 /\ link'[2].reader
        BY <1>1, <1>3, <1>6 DEF Up
      <3>2. Rises(g, link'[2].items, said)
        BY <2>1, <2>2, <2>3, <1>3, <1>6
      <3> QED BY <3>1, <3>2, <2>1, <1>1
    <2>5. AgentInTurn'
      <3>1. CASE turn.streaming
        <4>1. whole' = all /\ link'[2].items = Append(two, h) /\ link'[1].items = Tail(one)
          BY <3>1, <2>1, <1>3, <1>6
        <4> QED BY <4>1, <2>1, <2>2, <2>3, <3>1, <1>1 DEF AgentInTurn
      <3>2. CASE ~turn.streaming
        <4>1. whole' = Append(all, h) /\ link'[2].items = two /\ link'[1].items = Tail(one)
          BY <3>2, <2>1, <1>3, <1>6
        <4> QED BY <4>1, <2>1, <2>2, <2>3, <3>2, <1>1 DEF AgentInTurn
      <3> QED BY <3>1, <3>2
    <2>6. agent' # "called" /\ (turn.direct <=> agent = "none")'
      BY <1>1, <1>6
    <2>7. /\ Len(held)' <= 1
          /\ (\A k \in DOMAIN held : held[k] <= turn.rationale /\ \E i \in DOMAIN got : got[i] = held[k])'
      BY <1>0, <1>1 DEF InTurn
    <2> QED BY <2>4, <2>5, <2>6, <2>7 DEF InTurn
  <1>9. NoneMissing'
    <2> SUFFICES ASSUME service = "reading", ~failed PROVE NoneMissing'
      BY <1>1 DEF NoneMissing
    <2>1. PICK g \in Seq(Nat), one \in Seq(Nat), two \in Seq(Nat), all \in Seq(Nat) :
            g = got /\ one = link[1].items /\ two = link[2].items /\ all = whole
      BY <1>0, TypesOfPieces
    <2>2. /\ Len(g) \in Nat /\ Len(one) \in Nat /\ Len(two) \in Nat /\ Len(all) \in Nat
          /\ Len(Tail(one)) = Len(one) - 1 /\ h = Head(one) /\ one # <<>>
          /\ Len(Append(two, h)) = Len(two) + 1 /\ Len(Append(all, h)) = Len(all) + 1
      BY SMTT(30), <2>1, <1>1, <1>2, TailOf, Appended
    <2>3. Follows(g, 0) /\ Follows(two, Len(g)) /\ (link[2].end = "done" => agent = "over")
      BY <2>1, <1>0, <1>1, <1>6 DEF NoneMissing
    <2>4. CASE turn.streaming
      <3>1. PICK n \in Nat : n = Len(g) + Len(two)
        BY <2>2
      <3>2. Follows(one, n) /\ said = n + Len(one) /\ (link[1].end = "done" => said = turn.pieces)
        BY <3>1, <2>1, <2>4, <1>0, <1>1 DEF NoneMissing, Counted
      <3>3. Follows(Tail(one), n + 1) /\ h = n + 1
        BY <3>2, <2>2, TailFollows
      <3>4. Follows(Append(two, h), Len(g))
        BY <3>1, <3>3, <2>2, <2>3, AppendFollows
      <3>5. link'[2].items = Append(two, h) /\ link'[1].items = Tail(one)
        BY <2>4, <2>1, <1>3, <1>6
      <3>6. Len(g) + Len(Append(two, h)) = n + 1 /\ said = n + 1 + Len(Tail(one))
        BY <3>1, <3>2, <2>2
      <3>7. Counted(Len(got) + Len(link[2].items))'
        BY <3>2, <3>3, <3>5, <3>6, <2>1, <1>1, <1>3 DEF Counted
      <3>8. Up' = 2
        BY <1>1, <1>6 DEF Up
      <3> QED BY <3>4, <3>5, <3>7, <3>8, <2>1, <2>3, <2>4, <1>1, <1>3, <1>6 DEF NoneMissing
    <2>5. CASE ~turn.streaming
      <3>1. Follows(all, 0) /\ Follows(one, Len(all)) /\ said = Len(all) + Len(one)
            /\ (link[1].end = "done" => said = turn.pieces)
        BY <2>1, <2>5, <1>0, <1>1 DEF NoneMissing, Counted
      <3>2. Follows(Tail(one), Len(all) + 1) /\ h = Len(all) + 1
        BY <3>1, <2>2, TailFollows
      <3>3. Follows(Append(all, h), 0)
        BY <3>1, <3>2, <2>2, AppendFollows
      <3>4. link'[2] = link[2] /\ link'[1].items = Tail(one) /\ whole' = Append(all, h)
        BY <2>5, <2>1, <1>3
      <3>5. said = Len(Append(all, h)) + Len(Tail(one))
        BY <3>1, <2>2
      <3>6. (Follows(whole, 0) /\ Counted(Len(whole)))'
        BY <3>1, <3>2, <3>3, <3>4, <3>5, <2>2, <1>1, <1>3 DEF Counted
      <3>7. Up' = 2
        BY <1>1, <1>6 DEF Up
      <3> QED BY <3>4, <3>6, <3>7, <2>1, <2>3, <2>5, <1>1, <1>6 DEF NoneMissing
    <2> QED BY <2>4, <2>5
  <1> QED BY <1>4, <1>5, <1>7, <1>8, <1>9 DEF RelayInv

LEMMA AgentSkipsKeeps == ASSUME RelayInv, AgentSkips PROVE RelayInv'
  <1>0. RelayTypes /\ Unasked /\ InTurn /\ NoneMissing /\ FlowHolds /\ HeldBack /\ Reaches
    BY DEF RelayInv
  <1>1. /\ UNCHANGED <<turn, said, agent, service, whole, got, held, read>> /\ garbled' = TRUE /\ failed' = TRUE
        /\ agent = "reading" /\ link[1].items # <<>> /\ link' = [link EXCEPT ![1] = Took(1)]
    BY DEF AgentSkips
  <1>3. /\ link' \in [1..3 -> {link'[g] : g \in 1..3}] /\ link'[3] = link[3] /\ link'[2] = link[2]
        /\ Shape(link'[1]) /\ link'[1].items = Tail(link[1].items)
    <2>1. Shape(link[1]) /\ link \in [1..3 -> {link[g] : g \in 1..3}]
      BY <1>0 DEF RelayTypes
    <2>2. /\ Shape(Took(1)) /\ Took(1).items = Tail(link[1].items)
      BY <2>1, Takes
    <2>3. link'[1] = Took(1) /\ link'[2] = link[2] /\ link'[3] = link[3]
          /\ link' \in [1..3 -> {link'[g] : g \in 1..3}]
      BY <1>1, <2>1
    <2> QED BY <2>2, <2>3
  <1>4. FlowHolds' /\ HeldBack' /\ Reaches'
    BY <1>0, <1>1, <1>3, UpstreamKeeps
  <1>5. RelayTypes'
    <2>1. Tail(link[1].items) \in Seq(Nat) /\ link[2].items \in Seq(Nat) /\ whole \in Seq(Nat) /\ Shape(link[2])
      BY <1>0, <1>1, TypesOfPieces, TypeFacts, TailOf
    <2> QED BY <2>1, <1>0, <1>1, <1>3, UpstreamTypes
  <1>6. service # "asked" /\ (service = "reading" => ~turn.direct /\ Up = 2 /\ AgentInTurn)
    BY <1>0, <1>1, TypeFacts DEF Unasked, InTurn
  <1>7. Unasked' /\ NoneMissing'
    BY <1>1, <1>6 DEF Unasked, NoneMissing
  <1>8. InTurn'
    <2> SUFFICES ASSUME service = "reading" PROVE InTurn'
      BY <1>1 DEF InTurn
    <2>1. Rises(got, link[Up].items, said)' /\ (link[Up].reader)'
      <3>1. Up' = 2 /\ Rises(got, link[2].items, said) /\ link[2].reader
        BY <1>0, <1>1, <1>6 DEF InTurn, Up
      <3> QED BY <3>1, <1>1, <1>3
    <2>2. AgentInTurn'
      <3>1. Rises(got, Tail(link[1].items), said) /\ Rises(link[2].items, Tail(link[1].items), said)
            /\ Rises(whole, Tail(link[1].items), said)
        BY <1>0, <1>1, <1>6, TypesOfPieces, RisesMove DEF AgentInTurn
      <3> QED BY <3>1, <1>1, <1>3, <1>6 DEF AgentInTurn
    <2>3. agent' # "called" /\ (turn.direct <=> agent = "none")'
      BY <1>1, <1>6
    <2>4. /\ Len(held)' <= 1
          /\ (\A k \in DOMAIN held : held[k] <= turn.rationale /\ \E i \in DOMAIN got : got[i] = held[k])'
      BY <1>0, <1>1 DEF InTurn
    <2> QED BY <2>1, <2>2, <2>3, <2>4 DEF InTurn
  <1> QED BY <1>4, <1>5, <1>7, <1>8 DEF RelayInv

LEMMA AgentEndsKeeps == ASSUME RelayInv, AgentEnds PROVE RelayInv'
  <1>0. RelayTypes /\ Unasked /\ InTurn /\ NoneMissing /\ FlowHolds /\ HeldBack /\ Reaches
    BY DEF RelayInv
  <1>1. /\ UNCHANGED <<turn, said, service, whole, got, held, read, failed, garbled>> /\ agent' = "over"
        /\ agent = "reading" /\ link[1].items = <<>> /\ link[1].end = "done"
        /\ link' = [link EXCEPT ![1] = Leave(@), ![2] = End(Put(@, whole), "done")]
    BY DEF AgentEnds, Waiting
  <1>3. /\ link' \in [1..3 -> {link'[h] : h \in 1..3}] /\ link'[3] = link[3]
        /\ Shape(link'[1]) /\ link'[1].items = <<>>
        /\ Shape(link'[2]) /\ link'[2].reader = link[2].reader
        /\ link[2].reader => link'[2].items = link[2].items \o whole
        /\ ~link[2].reader => link'[2].items = link[2].items
    <2>1. Shape(link[1]) /\ Shape(link[2]) /\ link \in [1..3 -> {link[h] : h \in 1..3}]
      BY <1>0 DEF RelayTypes
    <2>2. link'[1] = Leave(link[1]) /\ link'[2] = End(Put(link[2], whole), "done") /\ link'[3] = link[3]
          /\ link' \in [1..3 -> {link'[h] : h \in 1..3}]
      BY <2>1, <1>1
    <2>3. Shape(Leave(link[1])) /\ Leave(link[1]).items = <<>>
      BY <2>1, Leaves
    <2>4. /\ Shape(Put(link[2], whole)) /\ Put(link[2], whole).reader = link[2].reader
          /\ link[2].reader => Put(link[2], whole).items = link[2].items \o whole
          /\ ~link[2].reader => Put(link[2], whole).items = link[2].items
      BY <2>1, Puts
    <2>5. /\ Shape(End(Put(link[2], whole), "done"))
          /\ End(Put(link[2], whole), "done").items = Put(link[2], whole).items
          /\ End(Put(link[2], whole), "done").reader = Put(link[2], whole).reader
      BY <2>4, Ends
    <2> QED BY <2>2, <2>3, <2>4, <2>5
  <1>4. FlowHolds' /\ HeldBack' /\ Reaches'
    BY <1>0, <1>1, <1>3, UpstreamKeeps
  <1>5. RelayTypes'
    <2>0. <<>> \in Seq(Nat)
      OBVIOUS
    <2>1. link[2].items \o whole \in Seq(Nat)
      BY <1>0, TypesOfPieces
    <2>2. link'[1].items \in Seq(Nat) /\ link'[2].items \in Seq(Nat) /\ whole' \in Seq(Nat)
      BY <2>0, <2>1, <1>0, <1>1, <1>3, TypesOfPieces
    <2>3. garbled' \in BOOLEAN /\ failed' \in BOOLEAN
      BY <1>0, <1>1 DEF RelayTypes
    <2> QED BY <2>2, <2>3, <1>0, <1>1, <1>3, UpstreamTypes
  <1>6. service # "asked" /\ (service = "reading" => ~turn.direct /\ Up = 2 /\ link[2].reader /\ AgentInTurn)
    BY <1>0, <1>1, TypeFacts DEF Unasked, InTurn
  <1>7. Unasked'
    BY <1>1, <1>6 DEF Unasked
  <1>2. service = "reading" =>
          \/ turn.streaming /\ whole = <<>> /\ link'[2].items = link[2].items
          \/ ~turn.streaming /\ got = <<>> /\ link[2].items = <<>> /\ link'[2].items = whole
    <2> SUFFICES ASSUME service = "reading"
                 PROVE  \/ turn.streaming /\ whole = <<>> /\ link'[2].items = link[2].items
                        \/ ~turn.streaming /\ got = <<>> /\ link[2].items = <<>> /\ link'[2].items = whole
      OBVIOUS
    <2>1. link'[2].items = link[2].items \o whole /\ AgentInTurn
      BY <1>3, <1>6
    <2>2. \A s \in Seq(Nat) : s \o <<>> = s /\ <<>> \o s = s
      OBVIOUS
    <2>3. CASE turn.streaming
      BY <2>1, <2>2, <2>3, <1>0, TypesOfPieces DEF AgentInTurn
    <2>4. CASE ~turn.streaming
      BY <2>1, <2>2, <2>4, <1>0, TypesOfPieces DEF AgentInTurn
    <2> QED BY <2>3, <2>4
  <1>8. InTurn'
    <2> SUFFICES ASSUME service = "reading" PROVE InTurn'
      BY <1>1 DEF InTurn
    <2>1. Rises(got, link[Up].items, said)' /\ (link[Up].reader)'
      <3>1. Up' = 2 /\ Rises(got, link[2].items, said) /\ Rises(whole, link[1].items, said) /\ link'[2].reader
        BY <1>0, <1>1, <1>3, <1>6 DEF InTurn, Up, AgentInTurn
      <3>2. Rises(<<>>, whole, said)
        BY <3>1, <1>0, TypesOfPieces, RisesEmpty
      <3>3. Rises(got, link'[2].items, said)
        BY <3>1, <3>2, <1>2
      <3> QED BY <3>1, <3>3, <1>1
    <2>2. agent' # "called" /\ agent' # "reading" /\ (turn.direct <=> agent = "none")'
      BY <1>1, <1>6
    <2>3. /\ Len(held)' <= 1
          /\ (\A k \in DOMAIN held : held[k] <= turn.rationale /\ \E i \in DOMAIN got : got[i] = held[k])'
      BY <1>0, <1>1 DEF InTurn
    <2> QED BY <2>1, <2>2, <2>3 DEF InTurn
  <1>9. NoneMissing'
    <2> SUFFICES ASSUME service = "reading", ~failed PROVE NoneMissing'
      BY <1>1 DEF NoneMissing
    <2>1. /\ Follows(got, 0) /\ Follows(link[2].items, Len(got))
          /\ turn.streaming => Counted(Len(got) + Len(link[2].items))
          /\ ~turn.streaming => Follows(whole, 0) /\ Counted(Len(whole))
      BY <1>0, <1>1, <1>6 DEF NoneMissing
    <2>2. Len(<<>>) = 0
      OBVIOUS
    <2>3. Follows(link'[2].items, Len(got)) /\ Len(got) + Len(link'[2].items) = turn.pieces
      <3>1. CASE turn.streaming
        <4>1. PICK n \in Nat : n = Len(got) + Len(link[2].items)
          BY <1>0, TypesOfPieces
        <4>2. said = n + 0 /\ said = turn.pieces
          BY <4>1, <3>1, <2>1, <2>2, <1>1 DEF Counted
        <4> QED BY <4>1, <4>2, <3>1, <2>1, <1>2
      <3>2. CASE ~turn.streaming
        BY <3>2, <2>1, <2>2, <1>0, <1>1, <1>2, TypesOfPieces DEF Counted
      <3> QED BY <3>1, <3>2
    <2>4. Up' = 2 /\ ~turn.direct
      BY <1>1, <1>6 DEF Up
    <2> QED BY <2>1, <2>3, <2>4, <1>1 DEF NoneMissing
  <1> QED BY <1>4, <1>5, <1>7, <1>8, <1>9 DEF RelayInv

-----------------------------------------------------------------------------
(* Downstream: what the browser does leaves the pieces as they are.        *)
LEMMA DownstreamKeeps ==
  ASSUME RelayTypes, Unasked, InTurn, NoneMissing,
         UNCHANGED <<turn, said, agent, service, whole, got, held, failed, garbled>>,
         link' \in [1..3 -> {link'[h] : h \in 1..3}], link'[1] = link[1], link'[2] = link[2],
         Shape(link'[3]), link'[3].items \in Seq(FrameSet), read' \in Seq(FrameSet),
         service = "asked" => Flow' = <<>>
  PROVE  RelayTypes' /\ Unasked' /\ InTurn' /\ NoneMissing'
  <1>1. RelayTypes'
    <2>1. Shape(link'[1]) /\ Shape(link'[2]) /\ Shape(link'[3])
      BY TypeFacts
    <2>2. \A h \in 1..3 : Shape(link[h])'
      BY <2>1
    <2> QED BY <2>2 DEF RelayTypes
  <1>2. Unasked'
    BY DEF Unasked, Closed
  <1>3. Up' = Up /\ link'[Up] = link[Up]
    BY TypeFacts DEF Up
  <1>4. (AgentInTurn <=> AgentInTurn') /\ \A n \in Nat : Counted(n) <=> Counted(n)'
    BY DEF AgentInTurn, Counted
  <1>5. InTurn'
    BY <1>3, <1>4 DEF InTurn, Closed
  <1>6. NoneMissing'
    BY <1>3, <1>4, TypesOfPieces DEF NoneMissing
  <1> QED BY <1>1, <1>2, <1>5, <1>6

LEMMA BrowserReadsKeeps == ASSUME RelayInv, BrowserReads PROVE RelayInv'
  <1>0. RelayTypes /\ Unasked /\ InTurn /\ NoneMissing /\ FlowHolds /\ HeldBack /\ Reaches
    BY DEF RelayInv
  <1>1. /\ UNCHANGED <<turn, said, agent, service, whole, got, held, failed, garbled>>
        /\ link[3].items # <<>> /\ read' = Append(read, Head(link[3].items))
        /\ link' = [link EXCEPT ![3] = Took(3)]
    BY DEF BrowserReads, Ahead
  <1>2. /\ link' \in [1..3 -> {link'[h] : h \in 1..3}] /\ link'[1] = link[1] /\ link'[2] = link[2]
        /\ Shape(link'[3]) /\ link'[3].items = Tail(link[3].items) /\ link'[3].end = link[3].end
        /\ link'[3].reader = link[3].reader
    <2>1. Shape(link[3]) /\ link \in [1..3 -> {link[g] : g \in 1..3}]
      BY <1>0 DEF RelayTypes
    <2>2. /\ Shape(Took(3)) /\ Took(3).items = Tail(link[3].items) /\ Took(3).end = link[3].end
          /\ Took(3).reader = link[3].reader
      BY <2>1, Takes
    <2>3. link'[3] = Took(3) /\ link'[2] = link[2] /\ link'[1] = link[1]
          /\ link' \in [1..3 -> {link'[g] : g \in 1..3}]
      BY <1>1, <2>1
    <2> QED BY <2>2, <2>3
  <1>3. link[3].items \in Seq(FrameSet) /\ read \in Seq(FrameSet)
    BY <1>0 DEF RelayTypes
  <1>4. Flow' = Flow
    <2>1. \A r, s \in Seq(FrameSet) : s # <<>> => Append(r, Head(s)) \o Tail(s) = r \o s
      OBVIOUS
    <2> QED BY <2>1, <1>1, <1>2, <1>3 DEF Flow
  <1>5. link'[3].items \in Seq(FrameSet) /\ read' \in Seq(FrameSet)
    <2>1. Tail(link[3].items) \in Seq(FrameSet) /\ Head(link[3].items) \in FrameSet
      BY <1>1, <1>3, TailOf
    <2>2. \A r \in Seq(FrameSet), f \in FrameSet : Append(r, f) \in Seq(FrameSet)
      OBVIOUS
    <2> QED BY <2>1, <2>2, <1>1, <1>2, <1>3
  <1>6. RelayTypes' /\ Unasked' /\ InTurn' /\ NoneMissing'
    BY <1>0, <1>1, <1>2, <1>4, <1>5, DownstreamKeeps DEF Unasked
  <1>7. FlowHolds'
    BY <1>0, <1>1, <1>4 DEF FlowHolds, Told, Terminal, Delta
  <1>8. HeldBack'
    BY <1>0, <1>1, <1>2, <1>4 DEF HeldBack, Delta, Pieces
  <1>9. Reaches'
    <2>1. link[3].reader
      BY <1>0, <1>1 DEF Reaches
    <2> QED BY ZenonT(30), <2>1, <1>0, <1>1, <1>2, <1>4 DEF Reaches, Terminal, Delta, Pieces
  <1> QED BY <1>6, <1>7, <1>8, <1>9 DEF RelayInv

LEMMA BrowserLeavesKeeps == ASSUME RelayInv, BrowserLeaves PROVE RelayInv'
  <1>0. RelayTypes /\ Unasked /\ InTurn /\ NoneMissing /\ FlowHolds /\ HeldBack /\ Reaches
    BY DEF RelayInv
  <1>1. /\ UNCHANGED <<turn, said, agent, service, whole, got, held, read, failed, garbled>>
        /\ link[3].reader /\ link[3].end = "open"
        /\ link' = [link EXCEPT ![3] = Leave(@)]
    BY DEF BrowserLeaves
  <1>2. /\ link' \in [1..3 -> {link'[h] : h \in 1..3}] /\ link'[1] = link[1] /\ link'[2] = link[2]
        /\ Shape(link'[3]) /\ link'[3].items = <<>> /\ link'[3].end = "open" /\ link'[3].reader = FALSE
    <2>1. Shape(link[3]) /\ link \in [1..3 -> {link[g] : g \in 1..3}]
      BY <1>0 DEF RelayTypes
    <2>2. /\ Shape(Leave(link[3])) /\ Leave(link[3]).items = <<>> /\ Leave(link[3]).end = link[3].end
          /\ Leave(link[3]).reader = FALSE
      BY <2>1, Leaves
    <2>3. link'[3] = Leave(link[3]) /\ link'[2] = link[2] /\ link'[1] = link[1]
          /\ link' \in [1..3 -> {link'[g] : g \in 1..3}]
      BY <1>1, <2>1
    <2> QED BY <2>2, <2>3, <1>1
  <1>3. link[3].items \in Seq(FrameSet) /\ read \in Seq(FrameSet)
    BY <1>0 DEF RelayTypes
  <1>4. Flow' = read /\ service # "over"
    <2>1. \A r \in Seq(FrameSet) : r \o <<>> = r
      OBVIOUS
    <2> QED BY <2>1, <1>0, <1>1, <1>2, <1>3 DEF Flow, Reaches
  <1>5. /\ Len(read) <= Len(Flow) /\ \A i \in DOMAIN read : i \in DOMAIN Flow /\ Flow[i] = read[i]
    BY <1>3 DEF Flow
  <1>6. RelayTypes' /\ Unasked' /\ InTurn' /\ NoneMissing'
    <2>1. <<>> \in Seq(FrameSet)
      OBVIOUS
    <2>2. service = "asked" => Flow' = <<>>
      <3>1. \A r, s \in Seq(FrameSet) : r \o s = <<>> => r = <<>>
        OBVIOUS
      <3> QED BY <3>1, <1>0, <1>3, <1>4 DEF Unasked, Flow
    <2> QED BY <2>1, <2>2, <1>0, <1>1, <1>2, <1>3, DownstreamKeeps
  <1>7. FlowHolds'
    <2>1. \A i \in DOMAIN Flow : ~Terminal(Flow[i])
      BY <1>0, <1>4 DEF FlowHolds
    <2>2. \A i \in DOMAIN read : ~Terminal(read[i]) /\ read[i] # <<"result">>
      BY <2>1, <1>5 DEF Terminal
    <2>3. \A i \in DOMAIN read : (read[i] = <<"session">>) <=> (i = 1 /\ turn.streaming)
      BY <1>0, <1>5 DEF FlowHolds, Told
    <2>4. \A i, j \in DOMAIN read : i < j /\ Delta(read[i]) /\ Delta(read[j]) => read[i][2] < read[j][2]
      BY <1>0, <1>5 DEF FlowHolds, Told, Delta
    <2>5. \A i \in DOMAIN read : Delta(read[i]) =>
            turn.streaming /\ read[i][2] <= turn.rationale /\ \E k \in DOMAIN got : got[k] = read[i][2]
      BY <1>0, <1>5 DEF FlowHolds, Told, Delta
    <2> QED BY <2>2, <2>3, <2>4, <2>5, <1>1, <1>4 DEF FlowHolds, Told
  <1>8. HeldBack'
    <2>1. service = "reading" =>
            \A i \in DOMAIN read : \A k \in DOMAIN held : Delta(read[i]) => read[i][2] < held[k]
      BY <1>0, <1>5 DEF HeldBack, Delta
    <2>2. service = "reading" => turn.gate = "pass"
      BY <1>0 DEF HeldBack
    <2> QED BY <2>1, <2>2, <1>1, <1>2, <1>4 DEF HeldBack
  <1>9. Reaches'
    BY <1>0, <1>1, <1>2, <1>4 DEF Reaches
  <1> QED BY <1>6, <1>7, <1>8, <1>9 DEF RelayInv

-----------------------------------------------------------------------------
LEMMA Joined ==
  ASSUME NEW S, NEW s \in Seq(S), NEW t \in Seq(S)
  PROVE  /\ s \o t \in Seq(S) /\ Len(s \o t) = Len(s) + Len(t) /\ Len(s) \in Nat /\ Len(t) \in Nat
         /\ \A i \in DOMAIN s : i \in DOMAIN (s \o t) /\ (s \o t)[i] = s[i] /\ i \in Nat /\ i <= Len(s) /\ 1 <= i
         /\ \A j \in DOMAIN t : Len(s) + j \in DOMAIN (s \o t) /\ (s \o t)[Len(s) + j] = t[j] /\ j \in Nat /\ 1 <= j
         /\ \A i \in DOMAIN (s \o t) : i \in Nat /\ (i \in DOMAIN s \/ \E j \in DOMAIN t : i = Len(s) + j)
  <1>1. \A i \in DOMAIN (s \o t) : i \in DOMAIN s \/ \E j \in DOMAIN t : i = Len(s) + j
    <2> SUFFICES ASSUME NEW i \in DOMAIN (s \o t), ~(i \in DOMAIN s) PROVE \E j \in DOMAIN t : i = Len(s) + j
      OBVIOUS
    <2>1. i - Len(s) \in DOMAIN t /\ i = Len(s) + (i - Len(s))
      OBVIOUS
    <2> QED BY <2>1
  <1> QED BY <1>1

LEMMA DeltasAre ==
  ASSUME NEW ps \in Seq(Nat)
  PROVE  /\ Deltas(ps) \in Seq(FrameSet) /\ DOMAIN Deltas(ps) = DOMAIN ps /\ Len(Deltas(ps)) = Len(ps)
         /\ \A i \in DOMAIN ps : /\ Deltas(ps)[i] = <<"delta", ps[i]>> /\ Delta(Deltas(ps)[i])
                                 /\ Deltas(ps)[i][2] = ps[i] /\ ~Terminal(Deltas(ps)[i])
                                 /\ Deltas(ps)[i] # <<"session">> /\ Deltas(ps)[i] # <<"result">>
  <1>1. Len(ps) \in Nat /\ DOMAIN ps = 1..Len(ps) /\ DOMAIN Deltas(ps) = DOMAIN ps
    BY DEF Deltas
  <1>2. \A i \in DOMAIN ps : Deltas(ps)[i] = <<"delta", ps[i]>> /\ ps[i] \in Nat
    BY DEF Deltas
  <1>3. \A n \in Nat : <<"delta", n>> \in FrameSet
    BY DEF FrameSet
  <1>4. Deltas(ps) \in Seq(FrameSet) /\ Len(Deltas(ps)) = Len(ps)
    <2>1. Deltas(ps) \in [1..Len(ps) -> FrameSet]
      BY <1>1, <1>2, <1>3 DEF Deltas
    <2> QED BY <1>1, <2>1
  <1>5. \A n \in Nat : /\ Delta(<<"delta", n>>) /\ <<"delta", n>>[2] = n /\ ~Terminal(<<"delta", n>>)
                       /\ <<"delta", n>> # <<"session">> /\ <<"delta", n>> # <<"result">>
    BY DEF Delta, Terminal
  <1> QED BY <1>1, <1>2, <1>4, <1>5

(* What may be shown after frames made of pieces g, of pieces g2.          *)
Showable(ps, frames, g, g2) ==
  /\ Ascends(ps)
  /\ \A k \in DOMAIN ps : ps[k] <= turn.rationale /\ \E i \in DOMAIN g2 : g2[i] = ps[k]
  /\ \A i \in DOMAIN frames : \A k \in DOMAIN ps : Delta(frames[i]) => frames[i][2] < ps[k]
  /\ \A k \in DOMAIN g : \E j \in DOMAIN g2 : g2[j] = g[k]

LEMMA FramesJoined ==
  ASSUME NEW F \in Seq(FrameSet), NEW b \in Seq(FrameSet)
  PROVE  /\ \A i \in DOMAIN F : (F \o b)[i] = F[i]
         /\ \A j \in DOMAIN b : (F \o b)[Len(F) + j] = b[j]
         /\ \A i \in DOMAIN (F \o b) : i \in DOMAIN F \/ \E j \in DOMAIN b : i = Len(F) + j
  BY SMTT(30), Joined

LEMMA ToldMore ==
  ASSUME NEW F \in Seq(FrameSet), NEW g, NEW g2, Told(F, g), turn.streaming, F # <<>>,
         NEW ps \in Seq(Nat), Showable(ps, F, g, g2)
  PROVE  Told(F \o Deltas(ps), g2)
  <1> DEFINE D == Deltas(ps)
             H == F \o D
  <1>1. /\ D \in Seq(FrameSet) /\ DOMAIN D = DOMAIN ps
        /\ \A i \in DOMAIN ps : Delta(D[i]) /\ D[i][2] = ps[i] /\ D[i] # <<"session">>
    BY DeltasAre
  <1>2. /\ \A i \in DOMAIN F : H[i] = F[i] /\ i \in Nat /\ i <= Len(F)
        /\ \A j \in DOMAIN D : H[Len(F) + j] = D[j] /\ j \in Nat /\ 1 <= j
        /\ \A i \in DOMAIN H : i \in DOMAIN F \/ \E j \in DOMAIN D : i = Len(F) + j
        /\ Len(F) \in Nat
    <2> HIDE DEF D
    <2>1. D \in Seq(FrameSet)
      BY <1>1
    <2>2. /\ \A i \in DOMAIN F : (F \o D)[i] = F[i] /\ i \in Nat /\ i <= Len(F)
          /\ \A j \in DOMAIN D : (F \o D)[Len(F) + j] = D[j] /\ j \in Nat /\ 1 <= j
          /\ \A i \in DOMAIN (F \o D) : i \in DOMAIN F \/ \E j \in DOMAIN D : i = Len(F) + j
          /\ Len(F) \in Nat
      BY SMTT(30), <2>1, Joined
    <2> QED BY <2>2
  <1>6. Len(F) # 0
    OBVIOUS
  <1> HIDE DEF D, H
  <1>3. \A i \in DOMAIN H : (H[i] = <<"session">>) <=> (i = 1 /\ turn.streaming)
    <2> SUFFICES ASSUME NEW i \in DOMAIN H PROVE (H[i] = <<"session">>) <=> (i = 1 /\ turn.streaming)
      OBVIOUS
    <2>1. CASE i \in DOMAIN F
      BY <2>1, <1>2 DEF Told
    <2>2. CASE \E j \in DOMAIN D : i = Len(F) + j
      <3>1. PICK j \in DOMAIN D : i = Len(F) + j
        BY <2>2
      <3>2. H[i] = D[j] /\ D[j] # <<"session">>
        BY <3>1, <1>1, <1>2
      <3>3. i # 1
        BY <3>1, <1>2, <1>6
      <3> QED BY <3>2, <3>3
    <2> QED BY <2>1, <2>2, <1>2
  <1>4. ASSUME NEW i \in DOMAIN H, NEW j \in DOMAIN H, i < j, Delta(H[i]), Delta(H[j])
                 PROVE  H[i][2] < H[j][2]
    <2>1. CASE i \in DOMAIN F /\ j \in DOMAIN F
      BY <2>1, <1>2, <1>4 DEF Told
    <2>2. CASE i \in DOMAIN F /\ \E k \in DOMAIN D : j = Len(F) + k
      BY <2>2, <1>1, <1>2, <1>4 DEF Showable
    <2>3. CASE \E k, l \in DOMAIN D : i = Len(F) + k /\ j = Len(F) + l
      <3>1. PICK k \in DOMAIN D, l \in DOMAIN D : i = Len(F) + k /\ j = Len(F) + l
        BY <2>3
      <3>2. k < l
        BY <3>1, <1>2, <1>4
      <3> QED BY <3>1, <3>2, <1>1, <1>2 DEF Showable, Ascends
    <2>4. CASE j \in DOMAIN F /\ \E k \in DOMAIN D : i = Len(F) + k
      BY <2>4, <1>2, <1>4
    <2> QED BY <2>1, <2>2, <2>3, <2>4, <1>2
  <1>5. ASSUME NEW i \in DOMAIN H, Delta(H[i])
        PROVE  turn.streaming /\ H[i][2] <= turn.rationale /\ \E k \in DOMAIN g2 : g2[k] = H[i][2]
    <2>1. CASE i \in DOMAIN F
      <3>1. H[i] = F[i] /\ F[i][2] <= turn.rationale /\ \E k \in DOMAIN g : g[k] = F[i][2]
        BY <2>1, <1>2, <1>5 DEF Told
      <3> QED BY <3>1 DEF Showable
    <2>2. CASE \E j \in DOMAIN D : i = Len(F) + j
      BY <2>2, <1>1, <1>2 DEF Showable
    <2> QED BY <2>1, <2>2, <1>2
  <1> QED BY <1>3, <1>4, <1>5 DEF Told, H, D

LEMMA ToldOne ==
  ASSUME NEW F \in Seq(FrameSet), NEW g, Told(F, g), turn.streaming => F # <<>>,
         NEW v \in FrameSet, Terminal(v)
  PROVE  Told(F \o <<v>>, g)
  <1> DEFINE H == F \o <<v>>
  <1>1. ~Delta(v) /\ v # <<"session">>
    BY DEF Terminal, Delta
  <1>2. /\ \A i \in DOMAIN F : H[i] = F[i] /\ i \in Nat /\ i <= Len(F)
        /\ \A i \in DOMAIN H : i \in DOMAIN F \/ (i = Len(F) + 1 /\ H[i] = v)
        /\ Len(F) \in Nat /\ (F # <<>> => Len(F) # 0)
    BY Appended
  <1> HIDE DEF H
  <1>3. \A i \in DOMAIN H : (H[i] = <<"session">>) <=> (i = 1 /\ turn.streaming)
    BY <1>1, <1>2 DEF Told
  <1>4. \A i, j \in DOMAIN H : i < j /\ Delta(H[i]) /\ Delta(H[j]) => H[i][2] < H[j][2]
    <2> SUFFICES ASSUME NEW i \in DOMAIN H, NEW j \in DOMAIN H, i < j, Delta(H[i]), Delta(H[j])
                 PROVE  H[i][2] < H[j][2]
      OBVIOUS
    <2>1. i \in DOMAIN F /\ j \in DOMAIN F /\ H[i] = F[i] /\ H[j] = F[j]
      BY <1>1, <1>2
    <2> QED BY <2>1 DEF Told
  <1>5. ASSUME NEW i \in DOMAIN H, Delta(H[i])
        PROVE  turn.streaming /\ H[i][2] <= turn.rationale /\ \E k \in DOMAIN g : g[k] = H[i][2]
    <2>1. i \in DOMAIN F /\ H[i] = F[i]
      BY <1>1, <1>2, <1>5
    <2> QED BY <2>1, <1>5 DEF Told
  <1> QED BY <1>3, <1>4, <1>5 DEF Told, H

LEMMA PiecesGrow ==
  ASSUME NEW F \in Seq(FrameSet), NEW ps \in Seq(Nat)
  PROVE  Pieces(F \o Deltas(ps)) = Pieces(F) \union {ps[k] : k \in DOMAIN ps}
  <1> DEFINE D == Deltas(ps)
             H == F \o D
  <1>1. /\ D \in Seq(FrameSet) /\ DOMAIN D = DOMAIN ps
        /\ \A i \in DOMAIN ps : Delta(D[i]) /\ D[i][2] = ps[i]
    BY DeltasAre
  <1>2. /\ \A i \in DOMAIN F : i \in DOMAIN H /\ H[i] = F[i]
        /\ \A j \in DOMAIN D : Len(F) + j \in DOMAIN H /\ H[Len(F) + j] = D[j]
        /\ \A i \in DOMAIN H : i \in DOMAIN F \/ \E j \in DOMAIN D : i = Len(F) + j
    <2> HIDE DEF D
    <2>1. D \in Seq(FrameSet)
      BY <1>1
    <2> QED BY SMTT(30), <2>1, Joined
  <1> HIDE DEF D, H
  <1>3. ASSUME NEW x \in Pieces(H) PROVE x \in Pieces(F) \union {ps[k] : k \in DOMAIN ps}
    <2>1. PICK i \in DOMAIN H : Delta(H[i]) /\ x = H[i][2]
      BY <1>3 DEF Pieces
    <2>2. CASE i \in DOMAIN F
      BY <2>1, <2>2, <1>2 DEF Pieces
    <2>3. CASE \E j \in DOMAIN D : i = Len(F) + j
      BY <2>1, <2>3, <1>1, <1>2
    <2> QED BY <2>2, <2>3, <1>2
  <1>4. ASSUME NEW x \in Pieces(F) PROVE x \in Pieces(H)
    BY <1>4, <1>2 DEF Pieces
  <1>5. ASSUME NEW k \in DOMAIN ps PROVE ps[k] \in Pieces(H)
    BY <1>5, <1>1, <1>2 DEF Pieces
  <1>6. Pieces(H) = Pieces(F) \union {ps[k] : k \in DOMAIN ps}
    BY <1>3, <1>4, <1>5
  <1> QED BY <1>6 DEF H, D

LEMMA PiecesEnd ==
  ASSUME NEW F \in Seq(FrameSet), NEW v \in FrameSet, Terminal(v)
  PROVE  Pieces(F \o <<v>>) = Pieces(F)
  <1> DEFINE H == F \o <<v>>
  <1>1. ~Delta(v)
    BY DEF Terminal, Delta
  <1>2. /\ \A i \in DOMAIN F : i \in DOMAIN H /\ H[i] = F[i]
        /\ \A i \in DOMAIN H : i \in DOMAIN F \/ (i = Len(F) + 1 /\ H[i] = v)
    BY Appended
  <1> HIDE DEF H
  <1>3. Pieces(H) = Pieces(F)
    BY <1>1, <1>2 DEF Pieces
  <1> QED BY <1>3 DEF H

(* A frame that ends the turn is the only one, and the last.               *)
LEMMA LastFrame ==
  ASSUME NEW F \in Seq(FrameSet), NEW v \in FrameSet, \A i \in DOMAIN F : ~Terminal(F[i]), Terminal(v)
  PROVE  /\ F \o <<v>> \in Seq(FrameSet) /\ F \o <<v>> # <<>> /\ (F \o <<v>>)[Len(F \o <<v>>)] = v
         /\ \A i \in DOMAIN (F \o <<v>>) : Terminal((F \o <<v>>)[i]) => i = Len(F \o <<v>>)
         /\ \A i \in DOMAIN (F \o <<v>>) : (F \o <<v>>)[i] = <<"result">> => v = <<"result">>
  <1>1. Terminal(<<"result">>)
    BY DEF Terminal
  <1>2. /\ F \o <<v>> = Append(F, v) /\ Append(F, v) \in Seq(FrameSet)
        /\ Len(Append(F, v)) = Len(F) + 1 /\ Append(F, v)[Len(F) + 1] = v
        /\ \A i \in DOMAIN Append(F, v) : \/ (i \in DOMAIN F /\ Append(F, v)[i] = F[i])
                                           \/ (i = Len(F) + 1 /\ Append(F, v)[i] = v)
    BY Appended
  <1>3. Append(F, v) # <<>>
    OBVIOUS
  <1> QED BY <1>1, <1>2, <1>3

(* What the service puts on the browser's connection is what it is told.   *)
LEMMA FlowPut ==
  ASSUME RelayTypes, Reaches, NEW fs \in Seq(FrameSet), read' = read,
         link'[3].reader = link[3].reader,
         link[3].reader => link'[3].items = link[3].items \o fs,
         ~link[3].reader => link'[3].items = link[3].items
  PROVE  /\ link'[3].items \in Seq(FrameSet) /\ Flow \in Seq(FrameSet) /\ Flow' \in Seq(FrameSet)
         /\ link[3].reader => Flow' = Flow \o fs
         /\ ~link[3].reader => Flow' = Flow /\ link'[3].items = <<>>
  <1>1. PICK r \in Seq(FrameSet), s \in Seq(FrameSet) : r = read /\ s = link[3].items
    BY DEF RelayTypes
  <1>2. r \o s \in Seq(FrameSet) /\ s \o fs \in Seq(FrameSet) /\ r \o (s \o fs) = (r \o s) \o fs
        /\ (r \o s) \o fs \in Seq(FrameSet)
    OBVIOUS
  <1>3. ~link[3].reader => link[3].items = <<>>
    BY DEF Reaches
  <1>4. CASE link[3].reader
    BY <1>1, <1>2, <1>4 DEF Flow
  <1>5. CASE ~link[3].reader
    BY <1>1, <1>2, <1>3, <1>5 DEF Flow
  <1> QED BY <1>4, <1>5

(* The end of a turn: the service stops, and says how it ended.            *)
LEMMA ServiceStopsTypes ==
  ASSUME RelayInv, service = "reading", NEW fs \in Seq(FrameSet), NEW how \in {"reset", "done"},
         ServiceStops(fs, how), failed' \in BOOLEAN
  PROVE  /\ RelayTypes' /\ Unasked' /\ InTurn' /\ NoneMissing' /\ HeldBack'
         /\ link'[3].end = how /\ link'[3].reader = link[3].reader
         /\ Flow \in Seq(FrameSet) /\ Flow' \in Seq(FrameSet)
         /\ link[3].reader => Flow' = Flow \o fs
         /\ ~link[3].reader => Flow' = Flow /\ link'[3].items = <<>>
  <1>0. RelayTypes /\ Reaches
    BY DEF RelayInv
  <1>1. /\ UNCHANGED <<turn, said, agent, whole, got, held, read, garbled>> /\ service' = "over"
        /\ link' = [link EXCEPT ![Up] = Leave(@), ![3] = End(Put(@, fs), how)]
    BY DEF ServiceStops
  <1>2. Shape(link[1]) /\ Shape(link[2]) /\ Shape(link[3]) /\ Up \in {1, 2}
        /\ link \in [1..3 -> {link[h] : h \in 1..3}]
    BY <1>0, TypeFacts DEF RelayTypes
  <1>3. /\ link'[Up] = Leave(link[Up]) /\ link'[3] = End(Put(link[3], fs), how)
        /\ \A g \in {1, 2} : g # Up => link'[g] = link[g]
        /\ link' \in [1..3 -> {link'[h] : h \in 1..3}]
    BY <1>1, <1>2
  <1>4. /\ Shape(End(Put(link[3], fs), how)) /\ End(Put(link[3], fs), how).end = how
        /\ End(Put(link[3], fs), how).reader = link[3].reader
        /\ link[3].reader => End(Put(link[3], fs), how).items = link[3].items \o fs
        /\ ~link[3].reader => End(Put(link[3], fs), how).items = link[3].items
    <2>1. /\ Shape(Put(link[3], fs)) /\ Put(link[3], fs).reader = link[3].reader
          /\ link[3].reader => Put(link[3], fs).items = link[3].items \o fs
          /\ ~link[3].reader => Put(link[3], fs).items = link[3].items
      BY <1>2, Puts
    <2>2. /\ Shape(End(Put(link[3], fs), how)) /\ End(Put(link[3], fs), how).end = how
          /\ End(Put(link[3], fs), how).reader = Put(link[3], fs).reader
          /\ End(Put(link[3], fs), how).items = Put(link[3], fs).items
      BY <2>1, Ends
    <2> QED BY <2>1, <2>2
  <1>5. /\ link'[3].items \in Seq(FrameSet) /\ Flow \in Seq(FrameSet) /\ Flow' \in Seq(FrameSet)
        /\ link[3].reader => Flow' = Flow \o fs
        /\ ~link[3].reader => Flow' = Flow /\ link'[3].items = <<>>
    BY <1>0, <1>1, <1>3, <1>4, FlowPut
  <1>6. RelayTypes'
    <2>1. /\ Shape(Leave(link[Up])) /\ Leave(link[Up]).items = <<>>
      BY <1>2, Leaves
    <2>2. <<>> \in Seq(Nat) /\ link[1].items \in Seq(Nat) /\ link[2].items \in Seq(Nat)
      BY <1>0, TypesOfPieces
    <2>3. /\ Shape(link'[1]) /\ Shape(link'[2]) /\ Shape(link'[3])
          /\ link'[1].items \in Seq(Nat) /\ link'[2].items \in Seq(Nat)
      BY <2>1, <2>2, <1>2, <1>3, <1>4
    <2>4. \A h \in 1..3 : Shape(link[h])'
      BY <2>3
    <2> QED BY <2>3, <2>4, <1>0, <1>1, <1>3, <1>5 DEF RelayTypes
  <1>7. Unasked' /\ InTurn' /\ NoneMissing' /\ HeldBack'
    BY <1>1 DEF Unasked, InTurn, NoneMissing, HeldBack
  <1> QED BY <1>3, <1>4, <1>5, <1>6, <1>7

LEMMA ServiceFailsKeeps == ASSUME RelayInv, ServiceFails PROVE RelayInv'
  <1>0. RelayTypes /\ FlowHolds /\ HeldBack /\ Reaches
    BY DEF RelayInv
  <1>1. service = "reading" /\ failed' = TRUE /\ service' = "over" /\ UNCHANGED <<turn, got>>
        /\ ServiceStops(Frame(<<"error", "upstream">>), "done")
    BY DEF ServiceFails, ServiceStops
  <1>2. PICK v \in FrameSet : v = <<"error", "upstream">>
    BY DEF FrameSet, Errors
  <1>3. Terminal(v) /\ v # <<"result">>
    BY <1>2 DEF Terminal
  <1>4. Frame(<<"error", "upstream">>) = <<v>> /\ <<v>> \in Seq(FrameSet)
    BY <1>2 DEF Frame
  <1>5. /\ RelayTypes' /\ Unasked' /\ InTurn' /\ NoneMissing' /\ HeldBack'
        /\ link'[3].end = "done" /\ link'[3].reader = link[3].reader
        /\ Flow \in Seq(FrameSet)
        /\ link[3].reader => Flow' = Flow \o <<v>>
        /\ ~link[3].reader => Flow' = Flow /\ link'[3].items = <<>>
    BY <1>1, <1>4, ServiceStopsTypes
  <1>6. \A i \in DOMAIN Flow : ~Terminal(Flow[i]) /\ Flow[i] # <<"result">>
    <2>1. \A i \in DOMAIN Flow : ~Terminal(Flow[i])
      BY <1>0, <1>1 DEF FlowHolds
    <2> QED BY <2>1 DEF Terminal
  <1>7. CASE link[3].reader
    <2>1. Flow' = Flow \o <<v>>
      BY <1>5, <1>7
    <2>2. /\ Flow' # <<>> /\ Flow'[Len(Flow')] = v
          /\ \A i \in DOMAIN Flow' : Terminal(Flow'[i]) => i = Len(Flow')
          /\ \A i \in DOMAIN Flow' : Flow'[i] # <<"result">>
      BY <2>1, <1>3, <1>5, <1>6, LastFrame
    <2>3. Told(Flow', got)
      BY <2>1, <1>0, <1>1, <1>3, <1>5, <1>7, ToldOne DEF FlowHolds, HeldBack
    <2>4. FlowHolds'
      BY <2>2, <2>3, <1>1 DEF FlowHolds, Told
    <2>5. Reaches'
      BY <2>2, <1>1, <1>3, <1>5, <1>7 DEF Reaches
    <2> QED BY <2>4, <2>5, <1>5 DEF RelayInv
  <1>8. CASE ~link[3].reader
    <2>1. FlowHolds'
      BY <1>0, <1>1, <1>5, <1>6, <1>8 DEF FlowHolds, Told
    <2>2. Reaches'
      BY <1>1, <1>5, <1>8 DEF Reaches
    <2> QED BY <2>1, <2>2, <1>5 DEF RelayInv
  <1> QED BY <1>7, <1>8

LEMMA ServiceCancelledKeeps == ASSUME RelayInv, ServiceCancelled PROVE RelayInv'
  <1>0. RelayTypes /\ FlowHolds /\ HeldBack /\ Reaches
    BY DEF RelayInv
  <1>1. service = "reading" /\ failed' = failed /\ service' = "over" /\ UNCHANGED <<turn, got>>
        /\ ServiceStops(<<>>, "reset") /\ ~link[3].reader
    BY DEF ServiceCancelled, ServiceStops
  <1>2. <<>> \in Seq(FrameSet) /\ failed' \in BOOLEAN
    BY <1>0, <1>1 DEF RelayTypes
  <1>5. /\ RelayTypes' /\ Unasked' /\ InTurn' /\ NoneMissing' /\ HeldBack'
        /\ link'[3].end = "reset" /\ link'[3].reader = link[3].reader
        /\ Flow' = Flow /\ link'[3].items = <<>>
    BY <1>1, <1>2, ServiceStopsTypes
  <1>6. \A i \in DOMAIN Flow : ~Terminal(Flow[i]) /\ Flow[i] # <<"result">>
    <2>1. \A i \in DOMAIN Flow : ~Terminal(Flow[i])
      BY <1>0, <1>1 DEF FlowHolds
    <2> QED BY <2>1 DEF Terminal
  <1>7. FlowHolds'
    BY <1>0, <1>1, <1>5, <1>6 DEF FlowHolds, Told
  <1>8. Reaches'
    BY <1>1, <1>5 DEF Reaches
  <1> QED BY <1>5, <1>7, <1>8 DEF RelayInv

(* What is made of the pieces: a result only of the whole of them.         *)
LEMMA ParsedIs ==
  ASSUME RelayInv, service = "reading", NEW v \in Parsed
  PROVE  /\ v \in FrameSet /\ Terminal(v)
         /\ v = <<"result">> => turn.sound /\ got # <<>> /\ got[Len(got)] = turn.pieces
         /\ Follows(got, 0) /\ Len(got) = turn.pieces /\ turn.sound => v = <<"result">>
  <1>0. RelayTypes /\ InTurn
    BY DEF RelayInv
  <1>1. v \in {<<"result">>, <<"error", "invalid">>}
    BY DEF Parsed
  <1>2. v \in FrameSet /\ Terminal(v)
    BY <1>1 DEF FrameSet, Errors, Terminal
  <1>3. got \in Seq(Nat) /\ Len(got) \in Nat /\ turn.pieces \in Nat /\ said <= turn.pieces /\ said \in Nat
        /\ turn.rationale \in Nat /\ (turn.sound => turn.rationale < turn.pieces)
    BY <1>0, TypesOfPieces, TypeFacts
  <1>4. Ascends(got) /\ Within(got, said)
    BY <1>0 DEF InTurn, Rises
  <1>5. ASSUME v = <<"result">>
        PROVE  turn.sound /\ got # <<>> /\ got[Len(got)] = turn.pieces
    <2>1. turn.sound /\ turn.pieces \in Json
      <3>1. ~(~turn.sound \/ turn.pieces \notin Json)
        <4> SUFFICES ASSUME ~turn.sound \/ turn.pieces \notin Json PROVE FALSE
          OBVIOUS
        <4>2. Parsed = {<<"error", "invalid">>}
          BY DEF Parsed
        <4> QED BY <4>2, <1>5
      <3> QED BY <3>1
    <2>2. PICK k \in DOMAIN got : got[k] = turn.pieces
      BY <2>1 DEF Json
    <2>3. Len(got) \in DOMAIN got /\ k \in Nat /\ k <= Len(got) /\ got # <<>>
      BY <1>3
    <2>4. got[Len(got)] <= turn.pieces /\ got[Len(got)] \in Nat
      BY <2>3, <1>3, <1>4 DEF Within
    <2>5. ~(k < Len(got))
      BY <2>2, <2>3, <2>4, <1>3, <1>4 DEF Ascends
    <2>6. k = Len(got)
      BY <2>3, <2>5, <1>3
    <2> QED BY <2>1, <2>2, <2>3, <2>6
  <1>6. ASSUME Follows(got, 0), Len(got) = turn.pieces, turn.sound
        PROVE  v = <<"result">>
    <2>1. \A k \in DOMAIN got : got[k] = k
      BY <1>6, <1>3 DEF Follows
    <2>2. DOMAIN got = 1..turn.pieces
      BY <1>6, <1>3
    <2>3. Json = (turn.rationale + 1)..turn.pieces
      BY <2>1, <2>2, <1>3, <1>6 DEF Json
    <2>4. turn.pieces \in Json
      BY <2>3, <1>3, <1>6
    <2>5. Parsed = {<<"result">>}
      BY <2>3, <2>4, <1>6 DEF Parsed
    <2> QED BY <2>5
  <1> QED BY <1>2, <1>5, <1>6

LEMMA ServiceEndsKeeps == ASSUME RelayInv, ServiceEnds PROVE RelayInv'
  <1>0. RelayTypes /\ InTurn /\ NoneMissing /\ FlowHolds /\ HeldBack /\ Reaches
    BY DEF RelayInv
  <1>1. service = "reading" /\ failed' = failed /\ link[Up].items = <<>> /\ link[Up].end = "done"
    BY DEF ServiceEnds, Waiting
  <1>2. PICK v \in Parsed : ServiceStops(Flushed(v), "done")
    BY DEF ServiceEnds
  <1>3. service' = "over" /\ UNCHANGED <<turn, got, held>>
    BY <1>2 DEF ServiceStops
  <1>4. /\ v \in FrameSet /\ Terminal(v)
        /\ v = <<"result">> => turn.sound /\ got # <<>> /\ got[Len(got)] = turn.pieces
        /\ Follows(got, 0) /\ Len(got) = turn.pieces /\ turn.sound => v = <<"result">>
    BY <1>1, ParsedIs
  <1>5. held \in Seq(Nat) /\ got \in Seq(Nat)
    BY <1>0, TypesOfPieces
  <1>6. PICK D \in Seq(FrameSet) : /\ turn.streaming => D = Deltas(held)
                                   /\ ~turn.streaming => D = <<>>
                                   /\ Flushed(v) = D \o <<v>>
    <2>1. Deltas(held) \in Seq(FrameSet) /\ <<>> \in Seq(FrameSet)
      BY <1>5, DeltasAre
    <2>2. CASE turn.streaming
      BY <2>1, <2>2 DEF Flushed, Frame
    <2>3. CASE ~turn.streaming
      BY <2>1, <2>3 DEF Flushed, Frame
    <2> QED BY <2>2, <2>3
  <1>7. D \o <<v>> \in Seq(FrameSet) /\ failed' \in BOOLEAN
    <2>1. D \o <<v>> \in Seq(FrameSet)
      BY <1>4, Appended
    <2>2. failed' \in BOOLEAN
      BY <1>0, <1>1 DEF RelayTypes
    <2> QED BY <2>1, <2>2
  <1>8. /\ RelayTypes' /\ Unasked' /\ InTurn' /\ NoneMissing' /\ HeldBack'
        /\ link'[3].end = "done" /\ link'[3].reader = link[3].reader
        /\ Flow \in Seq(FrameSet)
        /\ link[3].reader => Flow' = Flow \o (D \o <<v>>)
        /\ ~link[3].reader => Flow' = Flow /\ link'[3].items = <<>>
    BY <1>1, <1>2, <1>6, <1>7, ServiceStopsTypes
  <1>9. \A i \in DOMAIN Flow : ~Terminal(Flow[i]) /\ Flow[i] # <<"result">>
    <2>1. \A i \in DOMAIN Flow : ~Terminal(Flow[i])
      BY <1>0, <1>1 DEF FlowHolds
    <2> QED BY <2>1 DEF Terminal
  <1>10. CASE link[3].reader
    <2>0. Flow \o D \in Seq(FrameSet)
      BY <1>8, Joined
    <2>1. PICK M \in Seq(FrameSet) : M = Flow \o D
      BY <2>0
    <2>2. Flow' = M \o <<v>>
      <3>1. \A a, b \in Seq(FrameSet), f \in FrameSet : a \o (b \o <<f>>) = (a \o b) \o <<f>>
        OBVIOUS
      <3> QED BY <3>1, <2>1, <1>4, <1>8, <1>10
    <2>3. (turn.streaming => M = Flow \o Deltas(held)) /\ (~turn.streaming => M = Flow)
      <3>1. \A a \in Seq(FrameSet) : a \o <<>> = a
        OBVIOUS
      <3> QED BY <3>1, <2>1, <1>6, <1>8
    <2>4. turn.streaming => Flow # <<>> /\ M # <<>>
      <3>1. turn.streaming => Flow # <<>>
        BY <1>0, <1>1, <1>10 DEF HeldBack
      <3>2. \A a, b \in Seq(FrameSet) : a # <<>> => a \o b # <<>>
        OBVIOUS
      <3> QED BY <3>1, <3>2, <2>1, <1>8
    <2>5. Told(M, got)
      <3>1. Told(Flow, got)
        BY <1>0 DEF FlowHolds
      <3>2. CASE turn.streaming
        <4>1. Ascends(held)
          <5>1. \A i \in DOMAIN held : i \in Nat /\ 1 <= i /\ i <= 1
            BY <1>0, <1>1, <1>5 DEF InTurn
          <5> QED BY <5>1 DEF Ascends
        <4>2. \A k \in DOMAIN held : held[k] <= turn.rationale /\ \E i \in DOMAIN got : got[i] = held[k]
          BY <1>0, <1>1 DEF InTurn
        <4>3. \A i \in DOMAIN Flow : \A k \in DOMAIN held : Delta(Flow[i]) => Flow[i][2] < held[k]
          BY <1>0, <1>1 DEF HeldBack
        <4>4. \A k \in DOMAIN got : \E j \in DOMAIN got : got[j] = got[k]
          OBVIOUS
        <4>5. PICK F \in Seq(FrameSet), h \in Seq(Nat) : F = Flow /\ h = held
          BY <1>5, <1>8
        <4>6. Told(F, got) /\ F # <<>> /\ Showable(h, F, got, got)
          BY <4>1, <4>2, <4>3, <4>4, <4>5, <3>1, <3>2, <2>4 DEF Showable
        <4>7. Told(F \o Deltas(h), got)
          BY <4>4, <4>5, <4>6, <3>2, ToldMore
        <4> QED BY <4>5, <4>7, <3>2, <2>3
      <3>3. CASE ~turn.streaming
        BY <3>1, <3>3, <2>3
      <3> QED BY <3>2, <3>3
    <2>6. Told(Flow', got)
      BY <2>2, <2>4, <2>5, <1>4, ToldOne
    <2>7. \A i \in DOMAIN M : ~Terminal(M[i])
      <3>1. CASE turn.streaming
        <4>1. PICK b \in Seq(FrameSet) : b = Deltas(held) /\ \A i \in DOMAIN b : ~Terminal(b[i])
          BY <1>5, DeltasAre
        <4>5. PICK F \in Seq(FrameSet) : F = Flow
          BY <1>8
        <4>2. /\ \A i \in DOMAIN F : (F \o b)[i] = F[i]
              /\ \A j \in DOMAIN b : (F \o b)[Len(F) + j] = b[j]
              /\ \A i \in DOMAIN (F \o b) : i \in DOMAIN F \/ \E j \in DOMAIN b : i = Len(F) + j
          BY <4>1, <4>5, FramesJoined
        <4>3. M = F \o b
          BY <4>1, <4>5, <3>1, <2>3
        <4> QED BY <4>1, <4>2, <4>3, <4>5, <1>9
      <3>2. CASE ~turn.streaming
        BY <3>2, <2>3, <1>9
      <3> QED BY <3>1, <3>2
    <2>8. /\ Flow' # <<>> /\ Flow'[Len(Flow')] = v
          /\ \A i \in DOMAIN Flow' : Terminal(Flow'[i]) => i = Len(Flow')
          /\ \A i \in DOMAIN Flow' : Flow'[i] = <<"result">> => v = <<"result">>
      BY <2>2, <2>7, <1>4, LastFrame
    <2>9. FlowHolds'
      BY <2>6, <2>8, <1>3, <1>4 DEF FlowHolds, Told
    <2>10. ASSUME ~failed, turn.gate = "pass"
           PROVE  /\ turn.streaming => Pieces(Flow') = 1..turn.rationale
                  /\ turn.sound => v = <<"result">>
      <3>1. Follows(got, 0) /\ Len(got) = turn.pieces
        <4>1. Follows(got, 0) /\ Up \in {1, 2} /\ (turn.direct <=> Up = 1)
          BY <2>10, <1>0, <1>1, TypeFacts DEF NoneMissing
        <4>2. CASE turn.direct
          <5>1. said = Len(got) + Len(link[1].items) /\ said = turn.pieces /\ link[1].items = <<>>
            BY <4>1, <4>2, <2>10, <1>0, <1>1 DEF NoneMissing, Counted
          <5>2. Len(<<>>) = 0 /\ Len(got) \in Nat
            BY <1>5
          <5> QED BY <4>1, <5>1, <5>2
        <4>3. CASE ~turn.direct
          <5>1. Len(got) + Len(link[2].items) = turn.pieces /\ link[2].items = <<>>
            BY <4>1, <4>3, <2>10, <1>0, <1>1 DEF NoneMissing
          <5>2. Len(<<>>) = 0 /\ Len(got) \in Nat
            BY <1>5
          <5> QED BY <4>1, <5>1, <5>2
        <4> QED BY <4>2, <4>3
      <3>2. ASSUME turn.streaming PROVE Pieces(Flow') = 1..turn.rationale
        <4>1. Pieces(Flow') = Pieces(Flow) \union {held[k] : k \in DOMAIN held}
          <5>1. Pieces(M) = Pieces(Flow) \union {held[k] : k \in DOMAIN held}
            BY <3>2, <2>3, <1>5, <1>8, PiecesGrow
          <5> QED BY <5>1, <2>2, <1>4, PiecesEnd
        <4>2. DOMAIN got = 1..turn.pieces /\ \A k \in DOMAIN got : got[k] = k
          BY <3>1, <1>5 DEF Follows
        <4>3. turn.rationale \in Nat /\ turn.pieces \in Nat /\ turn.rationale <= turn.pieces
          BY <1>0, TypeFacts
        <4>4. ASSUME NEW p \in 1..turn.rationale PROVE p \in Pieces(Flow')
          <5>1. p \in DOMAIN got /\ got[p] = p /\ p <= turn.rationale
            BY <4>2, <4>3
          <5>2. p \in Pieces(Flow) \/ \E i \in DOMAIN held : held[i] = p
            BY <5>1, <3>2, <1>0, <1>1, <1>10 DEF HeldBack
          <5> QED BY <5>2, <4>1
        <4>5. ASSUME NEW p \in Pieces(Flow') PROVE p \in 1..turn.rationale
          <5>1. p <= turn.rationale /\ \E k \in DOMAIN got : got[k] = p
            <6>1. CASE p \in Pieces(Flow)
              BY <6>1, <1>0 DEF Pieces, FlowHolds, Told
            <6>2. CASE \E k \in DOMAIN held : p = held[k]
              BY <6>2, <1>0, <1>1 DEF InTurn
            <6> QED BY <6>1, <6>2, <4>1, <4>5
          <5> QED BY <5>1, <4>2, <4>3
        <4> QED BY <4>4, <4>5
      <3> QED BY <3>1, <3>2, <1>4
    <2>11. Reaches'
      BY <2>8, <2>10, <1>1, <1>3, <1>4, <1>8, <1>10 DEF Reaches
    <2> QED BY <2>9, <2>11, <1>8 DEF RelayInv
  <1>11. CASE ~link[3].reader
    <2>1. FlowHolds'
      BY <1>0, <1>3, <1>8, <1>9, <1>11 DEF FlowHolds, Told
    <2>2. Reaches'
      BY <1>3, <1>8, <1>11 DEF Reaches
    <2> QED BY <2>1, <2>2, <1>8 DEF RelayInv
  <1> QED BY <1>10, <1>11

LEMMA RisesFirst ==
  ASSUME NEW s \in Seq(Nat), NEW t \in Seq(Nat), NEW u \in Seq(Nat), t # <<>>, NEW n,
         Rises(s, t, n), Rises(s, u, n), Rises(t, u, n)
  PROVE  Rises(Append(s, Head(t)), u, n) /\ Rises(Tail(t), u, n)
  <1>1. Head(t) \in Nat /\ Rises(Append(s, Head(t)), Tail(t), n)
    BY RisesMove
  <1>2. \A j \in DOMAIN u : Head(t) < u[j]
    BY TailOf DEF Rises, Below
  <1>3. Below(Append(s, Head(t)), u)
    <2> SUFFICES ASSUME NEW i \in DOMAIN Append(s, Head(t)), NEW j \in DOMAIN u
                 PROVE  Append(s, Head(t))[i] < u[j]
      BY DEF Below
    <2>1. i \in DOMAIN s \/ Append(s, Head(t))[i] = Head(t)
      BY <1>1, Appended
    <2>2. CASE i \in DOMAIN s
      BY <2>2, <1>1, Appended DEF Rises, Below
    <2> QED BY <2>1, <2>2, <1>2
  <1>4. Below(Tail(t), u)
    BY TailOf DEF Rises, Below
  <1> QED BY <1>1, <1>3, <1>4 DEF Rises

(* What is fed to the parser, and what it shows of it.                     *)
LEMMA OneOf == ASSUME NEW s \in Seq(Nat), NEW m \in 1..Len(s) PROVE SubSeq(s, m, m) = <<s[m]>>
  <1>1. m \in Nat /\ m - m + 1 = 1
    OBVIOUS
  <1>2. SubSeq(s, m, m) \in Seq(Nat) /\ Len(SubSeq(s, m, m)) = 1 /\ SubSeq(s, m, m)[1] = s[m] /\ s[m] \in Nat
    BY <1>1
  <1>3. ASSUME NEW t \in Seq(Nat), Len(t) = 1, NEW x \in Nat, t[1] = x PROVE t = <<x>>
    BY <1>3
  <1> QED BY <1>2, <1>3

LEMMA AllOf ==
  ASSUME NEW s \in Seq(Nat)
  PROVE  SubSeq(s, Len(s) - 0 + 1, Len(s)) = <<>> /\ SubSeq(s, 1, Len(s) - 0) = s
  OBVIOUS

LEMMA AllButOne ==
  ASSUME NEW h \in Seq(Nat), NEW p \in Nat, NEW s, s = Append(h, p)
  PROVE  SubSeq(s, Len(s) - 1 + 1, Len(s)) = <<p>> /\ SubSeq(s, 1, Len(s) - 1) = h
  <1>1. Append(h, p) \in Seq(Nat) /\ Len(Append(h, p)) = Len(h) + 1 /\ Len(h) \in Nat /\ Append(h, p)[Len(h) + 1] = p
    OBVIOUS
  <1>2. Len(s) - 1 + 1 = Len(h) + 1 /\ Len(s) - 1 = Len(h) /\ Len(s) = Len(h) + 1
    BY <1>1
  <1>3. SubSeq(Append(h, p), Len(h) + 1, Len(h) + 1) = <<p>>
    <2>1. Len(h) + 1 \in 1..Len(Append(h, p))
      BY <1>1
    <2> QED BY <2>1, <1>1, OneOf
  <1>4. SubSeq(Append(h, p), 1, Len(h)) = h
    BY <1>1
  <1> QED BY <1>2, <1>3, <1>4

LEMMA ServiceReadsKeeps == ASSUME RelayInv, ServiceReads PROVE RelayInv'
  <1>0. RelayTypes /\ InTurn /\ NoneMissing /\ FlowHolds /\ HeldBack /\ Reaches
    BY DEF RelayInv
  <1>1. /\ service = "reading" /\ link[Up].items # <<>>
        /\ UNCHANGED <<turn, said, agent, service, whole, read, failed, garbled>>
    BY DEF ServiceReads
  <1>2. PICK p \in Nat : p = Head(link[Up].items) /\ p = Ahead(Up)
    BY <1>0, <1>1, TypeFacts, TailOf DEF Ahead
  <1>3. PICK out : out = IF p <= turn.rationale THEN Append(held, p) ELSE held
    OBVIOUS
  <1>4. PICK n \in (IF p <= turn.rationale THEN {0, 1} ELSE {0}) :
          /\ held' = SubSeq(out, Len(out) - n + 1, Len(out))
          /\ link' = [link EXCEPT ![Up] = Took(Up),
                        ![3] = IF turn.streaming THEN Put(@, Deltas(SubSeq(out, 1, Len(out) - n))) ELSE @]
    BY <1>2, <1>3 DEF ServiceReads
  <1>5. got' = Append(got, p)
    BY <1>2 DEF ServiceReads
  <1>6. /\ held \in Seq(Nat) /\ got \in Seq(Nat) /\ link[1].items \in Seq(Nat) /\ link[2].items \in Seq(Nat)
        /\ link[Up].items \in Seq(Nat) /\ Len(held) <= 1 /\ Len(got) \in Nat
    BY <1>0, <1>1, TypesOfPieces, TypeFacts DEF InTurn
  <1>7. PICK ps : ps = SubSeq(out, 1, Len(out) - n)
    OBVIOUS
  <1>8. \/ p <= turn.rationale /\ held' = <<>> /\ ps = Append(held, p)
        \/ p <= turn.rationale /\ held' = <<p>> /\ ps = held
        \/ ~(p <= turn.rationale) /\ held' = <<>> /\ ps = held
    <2>1. CASE ~(p <= turn.rationale)
      <3>1. n = 0 /\ out = held
        BY <2>1, <1>3
      <3> QED BY <3>1, <2>1, <1>4, <1>6, <1>7, AllOf
    <2>2. CASE p <= turn.rationale /\ n = 0
      <3>1. out = Append(held, p) /\ Append(held, p) \in Seq(Nat)
        BY <2>2, <1>3, <1>6
      <3> QED BY <3>1, <2>2, <1>4, <1>7, AllOf
    <2>3. CASE p <= turn.rationale /\ n = 1
      <3>1. out = Append(held, p)
        BY <2>3, <1>3
      <3>2. SubSeq(out, Len(out) - 1 + 1, Len(out)) = <<p>> /\ SubSeq(out, 1, Len(out) - 1) = held
        BY <3>1, <1>6, AllButOne
      <3> QED BY <3>2, <2>3, <1>4, <1>7
    <2>4. n = 0 \/ n = 1
      OBVIOUS
    <2> QED BY <2>1, <2>2, <2>3, <2>4
  <1>9. ps \in Seq(Nat) /\ held' \in Seq(Nat) /\ Len(held') <= 1
    <2>1. Append(held, p) \in Seq(Nat) /\ <<p>> \in Seq(Nat) /\ <<>> \in Seq(Nat) /\ Len(<<p>>) = 1 /\ Len(<<>>) = 0
      BY <1>6
    <2>2. ps = Append(held, p) \/ ps = held
      BY <1>8
    <2>3. held' = <<>> \/ held' = <<p>>
      BY <1>8
    <2>4. ps \in Seq(Nat)
      BY <2>1, <2>2, <1>6
    <2>5. CASE held' = <<>>
      BY <2>1, <2>4, <2>5
    <2>6. CASE held' = <<p>>
      BY <2>1, <2>4, <2>6
    <2> QED BY <2>3, <2>5, <2>6
  <1>10. /\ link' \in [1..3 -> {link'[h] : h \in 1..3}] /\ Up \in {1, 2} /\ Up' = Up
         /\ \A g \in {1, 2} : g # Up => link'[g] = link[g]
         /\ Shape(link'[Up]) /\ link'[Up].items = Tail(link[Up].items) /\ link'[Up].end = link[Up].end
         /\ link'[Up].reader = link[Up].reader
         /\ Shape(link'[3]) /\ link'[3].end = link[3].end /\ link'[3].reader = link[3].reader
         /\ turn.streaming /\ link[3].reader => link'[3].items = link[3].items \o Deltas(ps)
         /\ ~(turn.streaming /\ link[3].reader) => link'[3].items = link[3].items
    <2>1. Shape(link[1]) /\ Shape(link[2]) /\ Shape(link[3]) /\ Up \in {1, 2} /\ Up' = Up
          /\ link \in [1..3 -> {link[h] : h \in 1..3}]
      BY <1>0, <1>1, TypeFacts DEF RelayTypes, Up
    <2>2. /\ Shape(Took(Up)) /\ Took(Up).end = link[Up].end /\ Took(Up).items = Tail(link[Up].items)
          /\ Took(Up).reader = link[Up].reader
      BY <2>1, Takes
    <2>3. /\ Shape(Put(link[3], Deltas(ps))) /\ Put(link[3], Deltas(ps)).end = link[3].end
          /\ Put(link[3], Deltas(ps)).reader = link[3].reader
          /\ link[3].reader => Put(link[3], Deltas(ps)).items = link[3].items \o Deltas(ps)
          /\ ~link[3].reader => Put(link[3], Deltas(ps)).items = link[3].items
      BY <2>1, Puts
    <2>4. CASE turn.streaming
      <3>1. link' = [link EXCEPT ![Up] = Took(Up), ![3] = Put(@, Deltas(ps))]
        BY <2>4, <1>4, <1>7
      <3>2. /\ link'[Up] = Took(Up) /\ link'[3] = Put(link[3], Deltas(ps))
            /\ \A g \in {1, 2} : g # Up => link'[g] = link[g]
            /\ link' \in [1..3 -> {link'[h] : h \in 1..3}]
        BY <3>1, <2>1
      <3> QED BY <3>2, <2>1, <2>2, <2>3, <2>4
    <2>5. CASE ~turn.streaming
      <3>1. link' = [link EXCEPT ![Up] = Took(Up), ![3] = @]
        BY <2>5, <1>4
      <3>2. /\ link'[Up] = Took(Up) /\ link'[3] = link[3]
            /\ \A g \in {1, 2} : g # Up => link'[g] = link[g]
            /\ link' \in [1..3 -> {link'[h] : h \in 1..3}]
        BY <3>1, <2>1
      <3> QED BY <3>2, <2>1, <2>2, <2>5
    <2> QED BY <2>4, <2>5
  <1>11. /\ link'[3].items \in Seq(FrameSet) /\ Flow \in Seq(FrameSet) /\ Flow' \in Seq(FrameSet)
         /\ turn.streaming /\ link[3].reader => Flow' = Flow \o Deltas(ps)
         /\ ~(turn.streaming /\ link[3].reader) => Flow' = Flow
    <2>1. CASE turn.streaming
      <3>1. Deltas(ps) \in Seq(FrameSet)
        BY <1>9, DeltasAre
      <3> QED BY <3>1, <2>1, <1>0, <1>1, <1>10, FlowPut
    <2>2. CASE ~turn.streaming
      <3>1. link'[3].items = link[3].items /\ read' = read
        BY <2>2, <1>1, <1>10
      <3>2. \A r, s \in Seq(FrameSet) : r \o s \in Seq(FrameSet)
        OBVIOUS
      <3> QED BY <3>1, <3>2, <2>2, <1>0 DEF Flow, RelayTypes
    <2> QED BY <2>1, <2>2
  <1>12. RelayTypes'
    <2>1. Append(got, p) \in Seq(Nat) /\ Tail(link[Up].items) \in Seq(Nat)
      BY <1>1, <1>6, TailOf
    <2>2. Shape(link[1]) /\ Shape(link[2])
      BY <1>0, TypeFacts
    <2>3. link'[1].items \in Seq(Nat) /\ link'[2].items \in Seq(Nat) /\ Shape(link'[1]) /\ Shape(link'[2])
      BY <2>1, <2>2, <1>6, <1>10
    <2>4. \A h \in 1..3 : Shape(link[h])'
      BY <2>3, <1>10
    <2> QED BY <2>1, <2>3, <2>4, <1>0, <1>1, <1>5, <1>9, <1>10, <1>11 DEF RelayTypes
  <1>13. Unasked'
    BY <1>1 DEF Unasked
  <1>14. PICK g \in Seq(Nat), up \in Seq(Nat) : g = got /\ up = link[Up].items /\ up # <<>> /\ p = Head(up)
           /\ Rises(g, up, said)
    BY <1>0, <1>1, <1>2, <1>6 DEF InTurn
  <1>15. Rises(Append(g, p), Tail(up), said) /\ \A i \in DOMAIN g : g[i] < p
    BY <1>14, RisesMove
  <1>16. agent # "called" /\ (turn.direct <=> agent = "none")
         /\ (agent = "reading" => ~turn.direct /\ Up = 2 /\ turn.streaming /\ AgentInTurn)
    <2>1. agent # "none" => Up = 2
      BY <1>0, <1>1, TypeFacts DEF InTurn
    <2> QED BY <2>1, <1>0, <1>1 DEF InTurn, AgentInTurn
  <1>17. \A k \in DOMAIN g : \E j \in DOMAIN got' : got'[j] = g[k]
    BY <1>5, <1>14, Appended
  <1>18. \E j \in DOMAIN got' : got'[j] = p
    <2>1. Len(g) + 1 \in DOMAIN Append(g, p) /\ Append(g, p)[Len(g) + 1] = p
      BY <1>14
    <2> QED BY <2>1, <1>5, <1>14
  <1>19. InTurn'
    <2>1. Rises(got, link[Up].items, said)' /\ (link[Up].reader)'
      BY <1>0, <1>1, <1>5, <1>10, <1>14, <1>15 DEF InTurn
    <2>2. ASSUME agent = "reading" PROVE AgentInTurn'
      <3>1. Rises(g, link[1].items, said) /\ Rises(up, link[1].items, said) /\ Rises(whole, link[1].items, said)
            /\ whole = <<>>
        BY <2>2, <1>14, <1>16 DEF AgentInTurn
      <3>2. Rises(Append(g, p), link[1].items, said) /\ Rises(Tail(up), link[1].items, said)
        BY <3>1, <1>6, <1>14, RisesFirst
      <3>3. link'[1] = link[1] /\ link'[2].items = Tail(up)
        BY <2>2, <1>10, <1>14, <1>16
      <3> QED BY <3>1, <3>2, <3>3, <2>2, <1>1, <1>5, <1>14, <1>16 DEF AgentInTurn
    <2>3. (\A k \in DOMAIN held : held[k] <= turn.rationale /\ \E i \in DOMAIN got : got[i] = held[k])'
      <3>1. CASE held' = <<>>
        BY <3>1
      <3>2. CASE held' = <<p>> /\ p <= turn.rationale
        BY <3>2, <1>1, <1>18
      <3> QED BY <3>1, <3>2, <1>8
    <2>4. (agent # "called" /\ (turn.direct <=> agent = "none"))'
      BY <1>1, <1>16
    <2> QED BY <2>1, <2>2, <2>3, <2>4, <1>1, <1>9 DEF InTurn
  <1>20. NoneMissing'
    <2> SUFFICES ASSUME ~failed PROVE NoneMissing'
      BY <1>1 DEF NoneMissing
    <2>1. /\ Len(g) \in Nat /\ Len(up) \in Nat /\ Len(Append(g, p)) = Len(g) + 1
          /\ Len(Append(g, p)) + Len(Tail(up)) = Len(g) + Len(up)
      <3>1. Len(up) \in Nat \ {0} /\ Len(Tail(up)) = Len(up) - 1 /\ Len(g) \in Nat /\ Len(Append(g, p)) = Len(g) + 1
        BY <1>14, TailOf
      <3>2. \A a, b \in Nat : (a + 1) + (b - 1) = a + b
        OBVIOUS
      <3>3. (Len(g) + 1) + (Len(up) - 1) = Len(g) + Len(up)
        BY <3>1, <3>2
      <3> QED BY <3>1, <3>3
    <2>2. Follows(g, 0) /\ Follows(up, Len(g))
      BY <1>0, <1>1, <1>14 DEF NoneMissing
    <2>3. Follows(Tail(up), Len(g) + 1) /\ p = Len(g) + 1
      BY <2>1, <2>2, <1>14, TailFollows
    <2>4. Follows(Append(g, p), 0)
      BY <2>1, <2>2, <2>3, <1>14, AppendFollows
    <2>5. Follows(got, 0)' /\ Follows(link[Up].items, Len(got))'
      BY <2>1, <2>3, <2>4, <1>5, <1>10, <1>14
    <2>6. CASE turn.direct
      <3>1. Up = 1 /\ agent = "none"
        BY <2>6, <1>16 DEF Up
      <3>2. said = Len(g) + Len(up) /\ (link[1].end = "done" => said = turn.pieces)
        BY <2>6, <3>1, <1>0, <1>1, <1>14 DEF NoneMissing, Counted
      <3>3. said = Len(Append(g, p)) + Len(Tail(up))
        BY <3>2, <2>1
      <3>4. Counted(Len(got))'
        BY <3>1, <3>2, <3>3, <2>5, <1>1, <1>5, <1>10, <1>14 DEF Counted
      <3> QED BY <3>1, <3>4, <2>5, <2>6, <1>1 DEF NoneMissing
    <2>7. CASE ~turn.direct
      <3>1. Up = 2 /\ link'[1] = link[1] /\ link'[2].end = link[2].end /\ link'[2].items = Tail(up)
            /\ up = link[2].items
        BY <2>7, <1>10, <1>14 DEF Up
      <3>2. Len(Append(g, p)) + Len(Tail(up)) = Len(g) + Len(up)
        BY <2>1
      <3>3. agent = "reading" => Counted(Len(got) + Len(link[2].items))'
        BY <3>1, <3>2, <1>0, <1>1, <1>5, <1>14, <1>16 DEF NoneMissing, Counted
      <3>4. /\ link[2].end = "done" => agent = "over"
            /\ agent = "over" => Len(g) + Len(up) = turn.pieces
        BY <2>7, <3>1, <1>0, <1>1, <1>14 DEF NoneMissing
      <3> QED BY <3>1, <3>2, <3>3, <3>4, <2>5, <2>7, <1>1, <1>5, <1>14, <1>16 DEF NoneMissing
    <2> QED BY <2>6, <2>7
  <1>21. /\ \A k \in DOMAIN ps : ps[k] <= turn.rationale /\ \E i \in DOMAIN got' : got'[i] = ps[k]
         /\ Ascends(ps) /\ \A k \in DOMAIN held : \E j \in DOMAIN ps : ps[j] = held[k]
    <2>1. \A k \in DOMAIN held : k = 1 /\ held[k] <= turn.rationale /\ (\E i \in DOMAIN g : g[i] = held[k])
          /\ held[k] < p
      <3>1. \A k \in DOMAIN held : k = 1
        BY <1>6
      <3>2. \A k \in DOMAIN held : held[k] <= turn.rationale /\ (\E i \in DOMAIN g : g[i] = held[k])
        BY <1>0, <1>1, <1>14 DEF InTurn
      <3> QED BY <3>1, <3>2, <1>15
    <2>2. CASE ps = held
      BY <2>1, <2>2, <1>17 DEF Ascends
    <2>3. CASE ps = Append(held, p) /\ p <= turn.rationale
      <3>1. \A k \in DOMAIN ps : (k \in DOMAIN held /\ ps[k] = held[k]) \/ (k = Len(held) + 1 /\ ps[k] = p)
        BY <2>3, <1>6, Appended
      <3>2. \A k \in DOMAIN held : k \in DOMAIN ps /\ ps[k] = held[k]
        BY <2>3, <1>6, Appended
      <3>3. Ascends(held)
        BY <2>1 DEF Ascends
      <3>4. Ascends(ps)
        BY <3>3, <2>1, <2>3, <1>6, AppendAscends
      <3>5. ASSUME NEW k \in DOMAIN ps
            PROVE  ps[k] <= turn.rationale /\ \E i \in DOMAIN got' : got'[i] = ps[k]
        BY <3>1, <2>1, <2>3, <1>17, <1>18
      <3> QED BY <3>2, <3>4, <3>5
    <2> QED BY <2>2, <2>3, <1>8
  <1>22. \A i \in DOMAIN Flow : Delta(Flow[i]) =>
           /\ Flow[i][2] < p /\ \A k \in DOMAIN ps : Flow[i][2] < ps[k]
    <2> SUFFICES ASSUME NEW i \in DOMAIN Flow, Delta(Flow[i])
                 PROVE  Flow[i][2] < p /\ \A k \in DOMAIN ps : Flow[i][2] < ps[k]
      OBVIOUS
    <2>1. Flow[i][2] < p
      BY <1>0, <1>14, <1>15 DEF FlowHolds, Told
    <2>2. \A k \in DOMAIN held : Flow[i][2] < held[k]
      BY <1>0, <1>1 DEF HeldBack
    <2>3. \A k \in DOMAIN ps : ps[k] = p \/ \E j \in DOMAIN held : ps[k] = held[j]
      <3>1. CASE ps = held
        BY <3>1
      <3>2. CASE ps = Append(held, p)
        BY <3>2, <1>6, Appended
      <3> QED BY <3>1, <3>2, <1>8
    <2> QED BY <2>1, <2>2, <2>3
  <1>23. Told(Flow', got')
    <2>1. Told(Flow, got)
      BY <1>0 DEF FlowHolds
    <2>2. CASE turn.streaming /\ link[3].reader
      <3>1. PICK F \in Seq(FrameSet), q \in Seq(Nat) : F = Flow /\ q = ps
        BY <1>9, <1>11
      <3>2. F # <<>>
        BY <3>1, <2>2, <1>0, <1>1 DEF HeldBack
      <3>3. Told(F, g) /\ Showable(q, F, g, got')
        BY <3>1, <2>1, <1>14, <1>17, <1>21, <1>22 DEF Showable
      <3>4. Told(F \o Deltas(q), got')
        BY <3>1, <3>2, <3>3, <2>2, ToldMore
      <3> QED BY <3>1, <3>4, <2>2, <1>11
    <2>3. CASE ~(turn.streaming /\ link[3].reader)
      <3>1. \A i \in DOMAIN Flow : Delta(Flow[i]) => \E k \in DOMAIN got' : got'[k] = Flow[i][2]
        <4> SUFFICES ASSUME NEW i \in DOMAIN Flow, Delta(Flow[i]) PROVE \E k \in DOMAIN got' : got'[k] = Flow[i][2]
          OBVIOUS
        <4>1. \E k \in DOMAIN got : got[k] = Flow[i][2]
          BY <2>1 DEF Told
        <4> QED BY <4>1, <1>14, <1>17
      <3> QED BY <3>1, <2>1, <2>3, <1>11 DEF Told
    <2> QED BY <2>2, <2>3
  <1>24. FlowHolds'
    <2>1. \A i \in DOMAIN Flow : ~Terminal(Flow[i])
      BY <1>0, <1>1 DEF FlowHolds
    <2>2. \A i \in DOMAIN Flow' : ~Terminal(Flow'[i])
      <3>1. CASE turn.streaming /\ link[3].reader
        <4>1. PICK F \in Seq(FrameSet), b \in Seq(FrameSet) : F = Flow /\ b = Deltas(ps) /\ \A i \in DOMAIN b : ~Terminal(b[i])
          BY <1>9, <1>11, DeltasAre
        <4>2. /\ \A i \in DOMAIN F : (F \o b)[i] = F[i]
              /\ \A j \in DOMAIN b : (F \o b)[Len(F) + j] = b[j]
              /\ \A i \in DOMAIN (F \o b) : i \in DOMAIN F \/ \E j \in DOMAIN b : i = Len(F) + j
          BY <4>1, FramesJoined
        <4>3. Flow' = F \o b
          BY <4>1, <3>1, <1>11
        <4> QED BY <4>1, <4>2, <4>3, <2>1
      <3>2. CASE ~(turn.streaming /\ link[3].reader)
        BY <3>2, <2>1, <1>11
      <3> QED BY <3>1, <3>2
    <2>3. \A i \in DOMAIN Flow' : Flow'[i] # <<"result">>
      BY <2>2 DEF Terminal
    <2>4. Told(Flow, got)'
      BY <1>23, <1>1 DEF Told
    <2> QED BY <2>2, <2>3, <2>4 DEF FlowHolds
  <1>25. HeldBack'
    <2>1. (\A i \in DOMAIN Flow : \A k \in DOMAIN held : Delta(Flow[i]) => Flow[i][2] < held[k])'
      <3>1. CASE held' = <<>>
        BY <3>1
      <3>2. CASE held' = <<p>> /\ ps = held
        <4>1. \A i \in DOMAIN Flow' : Delta(Flow'[i]) => Flow'[i][2] < p
          <5>1. CASE turn.streaming /\ link[3].reader
            <6>1. PICK F \in Seq(FrameSet), b \in Seq(FrameSet) :
                    /\ F = Flow /\ b = Deltas(ps) /\ DOMAIN b = DOMAIN ps
                    /\ \A i \in DOMAIN ps : b[i][2] = ps[i]
              BY <1>9, <1>11, DeltasAre
            <6>2. /\ \A i \in DOMAIN F : (F \o b)[i] = F[i]
                  /\ \A j \in DOMAIN b : (F \o b)[Len(F) + j] = b[j]
                  /\ \A i \in DOMAIN (F \o b) : i \in DOMAIN F \/ \E j \in DOMAIN b : i = Len(F) + j
              BY <6>1, FramesJoined
            <6>3. Flow' = F \o b
              BY <6>1, <5>1, <1>11
            <6>4. \A k \in DOMAIN ps : ps[k] < p
              BY <3>2, <1>0, <1>1, <1>14, <1>15 DEF InTurn
            <6>5. \A i \in DOMAIN F : Delta(F[i]) => F[i][2] < p
              BY <6>1, <1>22
            <6> QED BY <6>1, <6>2, <6>3, <6>4, <6>5
          <5>2. CASE ~(turn.streaming /\ link[3].reader)
            BY <5>2, <1>11, <1>22
          <5> QED BY <5>1, <5>2
        <4>2. DOMAIN held' = {1} /\ held'[1] = p
          BY <3>2
        <4> QED BY <4>1, <4>2
      <3> QED BY <3>1, <3>2, <1>8
    <2>2. turn'.gate = "pass"
      BY <1>0, <1>1 DEF HeldBack
    <2>3. ASSUME turn.streaming, link[3].reader
          PROVE  /\ Flow' # <<>>
                 /\ \A k \in DOMAIN got' : got'[k] <= turn.rationale =>
                      got'[k] \in Pieces(Flow') \/ \E i \in DOMAIN held' : held'[i] = got'[k]
      <3>1. Flow # <<>> /\ \A k \in DOMAIN g : g[k] <= turn.rationale =>
                      g[k] \in Pieces(Flow) \/ \E i \in DOMAIN held : held[i] = g[k]
        BY <2>3, <1>0, <1>1, <1>14 DEF HeldBack
      <3>2. PICK F \in Seq(FrameSet), q \in Seq(Nat), b \in Seq(FrameSet) : F = Flow /\ q = ps /\ b = Deltas(q)
        BY <1>9, <1>11, DeltasAre
      <3>3. Pieces(Flow') = Pieces(Flow) \union {ps[k] : k \in DOMAIN ps} /\ Flow' = F \o b
        BY ZenonT(30), <3>2, <2>3, <1>11, PiecesGrow
      <3>4. Flow' # <<>>
        <4>1. \A s, t \in Seq(FrameSet) : s # <<>> => s \o t # <<>>
          OBVIOUS
        <4> QED BY <4>1, <3>1, <3>2, <3>3
      <3>5. ASSUME NEW k \in DOMAIN got', got'[k] <= turn.rationale
            PROVE  got'[k] \in Pieces(Flow') \/ \E i \in DOMAIN held' : held'[i] = got'[k]
        <4>1. (k \in DOMAIN g /\ got'[k] = g[k]) \/ got'[k] = p
          BY SMTT(30), <1>5, <1>14, Appended
        <4>2. CASE k \in DOMAIN g /\ got'[k] = g[k]
          BY <4>2, <3>1, <3>3, <3>5, <1>21
        <4>3. CASE got'[k] = p
          <5>1. CASE held' = <<p>>
            <6>1. 1 \in DOMAIN held' /\ held'[1] = p
              BY <5>1
            <6> QED BY <6>1, <4>3
          <5>2. CASE ps = Append(held, p)
            <6>1. Len(held) + 1 \in DOMAIN ps /\ ps[Len(held) + 1] = p
              BY <5>2, <1>6
            <6> QED BY <6>1, <4>3, <3>3
          <5> QED BY <5>1, <5>2, <4>3, <3>5, <1>8
        <4> QED BY <4>1, <4>2, <4>3
      <3> QED BY <3>4, <3>5
    <2> QED BY <2>1, <2>2, <2>3, <1>1, <1>10 DEF HeldBack
  <1>26. Reaches'
    <2>1. link'[3].end = "open"
      BY <1>0, <1>1, <1>10 DEF Reaches
    <2>2. ~link'[3].reader => link'[3].items = <<>>
      BY <1>0, <1>10 DEF Reaches
    <2> QED BY <2>1, <2>2, <1>1 DEF Reaches
  <1> QED BY <1>12, <1>13, <1>19, <1>20, <1>24, <1>25, <1>26 DEF RelayInv

LEMMA GateKeeps == ASSUME RelayInv, Gate PROVE RelayInv'
  <1>0. RelayTypes /\ Unasked /\ Reaches
    BY DEF RelayInv
  <1>1. /\ service = "asked" /\ UNCHANGED <<turn, said, whole, got, held, read, garbled>>
        /\ failed' = (failed \/ turn.gate = "catalog")
    BY DEF Gate
  <1>2. /\ agent = "none" /\ said = 0 /\ got = <<>> /\ held = <<>> /\ whole = <<>> /\ ~failed
        /\ link[1] = Closed /\ link[2] = Closed /\ Flow = <<>>
    BY <1>0, <1>1 DEF Unasked
  <1>3. Shape(link[1]) /\ Shape(link[2]) /\ Shape(link[3]) /\ Up \in {1, 2} /\ Up' = Up
        /\ link \in [1..3 -> {link[h] : h \in 1..3}] /\ link[3].end = "open"
    BY <1>0, <1>1, TypeFacts DEF RelayTypes, Up, Reaches
  <1>4. PICK gr \in Seq(FrameSet) :
          /\ gr = Greeting /\ (turn.streaming => gr = <<<<"session">>>>) /\ (~turn.streaming => gr = <<>>)
    <2>1. <<<<"session">>>> \in Seq(FrameSet) /\ <<>> \in Seq(FrameSet)
      BY DEF FrameSet
    <2> QED BY <2>1 DEF Greeting, Frame
  <1>5. Told(gr, <<>>) /\ Told(<<>>, <<>>) /\ \A i \in DOMAIN gr : ~Terminal(gr[i]) /\ gr[i] # <<"result">>
    <2>1. CASE turn.streaming
      <3>1. DOMAIN gr = {1} /\ gr[1] = <<"session">>
        BY <1>4, <2>1
      <3>2. ~Delta(<<"session">>) /\ ~Terminal(<<"session">>) /\ <<"session">> # <<"result">>
        BY DEF Delta, Terminal
      <3> QED BY <3>1, <3>2, <2>1 DEF Told
    <2>2. CASE ~turn.streaming
      BY <1>4, <2>2 DEF Told
    <2>3. Told(<<>>, <<>>)
      BY DEF Told
    <2> QED BY <2>1, <2>2, <2>3
  <1>6. <<>> \in Seq(Nat) /\ <<>> \in Seq(FrameSet) /\ Follows(<<>>, 0) /\ Rises(<<>>, <<>>, 0) /\ Len(<<>>) = 0
    BY DEF Follows, Rises, Ascends, Below, Within
  <1>7. \A f \in Seq(FrameSet) : <<>> \o f = f
    OBVIOUS
  <1>8. CASE turn.gate = "pass"
    <2>1. /\ service' = "reading" /\ agent' = (IF turn.direct THEN "none" ELSE "called")
          /\ link' = [link EXCEPT ![Up] = Opened, ![3] = Put(@, gr)] /\ failed' = FALSE
      BY <1>1, <1>2, <1>4, <1>8 DEF Gate
    <2>2. /\ link'[Up] = Opened /\ link'[3] = Put(link[3], gr)
          /\ \A g \in {1, 2} : g # Up => link'[g] = link[g]
          /\ link' \in [1..3 -> {link'[h] : h \in 1..3}]
      BY <2>1, <1>3
    <2>3. /\ Shape(Put(link[3], gr)) /\ Put(link[3], gr).end = "open"
          /\ Put(link[3], gr).reader = link[3].reader
          /\ link[3].reader => Put(link[3], gr).items = link[3].items \o gr
          /\ ~link[3].reader => Put(link[3], gr).items = link[3].items
      BY <1>3, Puts
    <2>4. /\ link'[3].items \in Seq(FrameSet) /\ Flow \in Seq(FrameSet) /\ Flow' \in Seq(FrameSet)
          /\ link[3].reader => Flow' = Flow \o gr
          /\ ~link[3].reader => Flow' = Flow /\ link'[3].items = <<>>
      BY <2>2, <2>3, <1>0, <1>1, <1>4, FlowPut
    <2>5. (link[3].reader => Flow' = gr) /\ (~link[3].reader => Flow' = <<>>)
      BY <2>4, <1>2, <1>4, <1>7
    <2>6. \A h \in {1, 2} : link'[h].items = <<>> /\ Shape(link'[h])
      BY <2>2, <1>2, <1>3, Opens
    <2>7. RelayTypes'
      <3>1. \A h \in 1..3 : Shape(link[h])'
        BY <2>2, <2>3, <2>6
      <3>2. link'[1].items \in Seq(Nat) /\ link'[2].items \in Seq(Nat)
        BY <2>6, <1>6
      <3> QED BY <3>1, <3>2, <2>1, <2>2, <2>4, <1>0, <1>1 DEF RelayTypes
    <2>8. Unasked'
      BY <2>1 DEF Unasked
    <2>9. (turn.direct => agent' = "none") /\ (~turn.direct => agent' = "called" /\ link'[1] = Closed /\ link'[2] = Opened)
          /\ (turn.direct => link'[1] = Opened)
      BY <2>1, <2>2, <1>2 DEF Up
    <2>10. InTurn'
      <3>1. (link[Up].reader /\ Rises(got, link[Up].items, said))'
        BY <2>2, <2>6, <1>1, <1>2, <1>3, <1>6, Opens
      <3>2. (Len(held) <= 1 /\ \A k \in DOMAIN held : held[k] <= turn.rationale /\ \E i \in DOMAIN got : got[i] = held[k])'
        BY <1>1, <1>2, <1>6
      <3>3. (turn.direct <=> agent = "none")' /\ agent' # "reading"
        BY <2>9, <1>1
      <3>4. (agent = "called" => link[1] = Closed /\ said = 0 /\ got = <<>> /\ link[2].items = <<>> /\ whole = <<>>)'
        BY <2>6, <2>9, <1>1, <1>2 DEF Closed
      <3> QED BY <3>1, <3>2, <3>3, <3>4 DEF InTurn
    <2>11. NoneMissing'
      <3>1. Follows(got, 0)' /\ Follows(link[Up].items, Len(got))'
        BY <2>2, <2>6, <1>1, <1>2, <1>3, <1>6
      <3>2. turn.direct => Counted(Len(got))'
        BY <2>6, <2>9, <1>1, <1>2, <1>6, Opens DEF Counted
      <3>3. ~turn.direct => link'[2].end # "done"
        BY <2>9, Opens
      <3>4. agent' # "over" /\ agent' # "reading" /\ turn' = turn
        BY <2>9, <1>1
      <3> QED BY <3>1, <3>2, <3>3, <3>4 DEF NoneMissing
    <2>12. FlowHolds'
      <3>1. Told(Flow', <<>>) /\ \A i \in DOMAIN Flow' : ~Terminal(Flow'[i]) /\ Flow'[i] # <<"result">>
        BY <2>5, <1>5
      <3>2. Told(Flow, got)'
        BY <3>1, <1>1, <1>2 DEF Told
      <3> QED BY <3>1, <3>2 DEF FlowHolds
    <2>13. HeldBack'
      <3>1. (turn.streaming /\ link[3].reader)' => Flow' # <<>>
        BY <2>2, <2>3, <2>5, <1>1, <1>4
      <3> QED BY <3>1, <1>1, <1>2, <1>8 DEF HeldBack
    <2>14. Reaches'
      BY <2>1, <2>2, <2>3, <2>4 DEF Reaches
    <2> QED BY <2>7, <2>8, <2>10, <2>11, <2>12, <2>13, <2>14 DEF RelayInv
  <1>9. ASSUME NEW fs \in Seq(FrameSet), NEW how \in {"done", "reset"},
               service' = "over", agent' = agent, link' = [link EXCEPT ![3] = End(Put(@, fs), how)],
               failed' \in BOOLEAN, turn.gate # "pass",
               Told(fs, <<>>), \A i \in DOMAIN fs : Terminal(fs[i]) => i = Len(fs),
               \A i \in DOMAIN fs : fs[i] # <<"result">>,
               how = "done" => fs # <<>> /\ Terminal(fs[Len(fs)])
        PROVE  RelayInv'
    <2>1. /\ link'[3] = End(Put(link[3], fs), how) /\ link'[1] = link[1] /\ link'[2] = link[2]
          /\ link' \in [1..3 -> {link'[h] : h \in 1..3}]
      BY <1>3, <1>9
    <2>2. /\ Shape(Put(link[3], fs)) /\ Put(link[3], fs).reader = link[3].reader
          /\ link[3].reader => Put(link[3], fs).items = link[3].items \o fs
          /\ ~link[3].reader => Put(link[3], fs).items = link[3].items
      BY <1>3, Puts
    <2>3. /\ Shape(End(Put(link[3], fs), how)) /\ End(Put(link[3], fs), how).end = how
          /\ End(Put(link[3], fs), how).reader = Put(link[3], fs).reader
          /\ End(Put(link[3], fs), how).items = Put(link[3], fs).items
      BY <2>2, Ends
    <2>4. /\ link'[3].items \in Seq(FrameSet) /\ Flow \in Seq(FrameSet) /\ Flow' \in Seq(FrameSet)
          /\ link[3].reader => Flow' = Flow \o fs
          /\ ~link[3].reader => Flow' = Flow /\ link'[3].items = <<>>
      BY <2>1, <2>2, <2>3, <1>0, <1>1, FlowPut
    <2>5. (link[3].reader => Flow' = fs) /\ (~link[3].reader => Flow' = <<>>)
      BY <2>4, <1>2, <1>7
    <2>6. RelayTypes'
      <3>1. \A h \in 1..3 : Shape(link[h])'
        BY <2>1, <2>3, <1>3
      <3> QED BY <3>1, <2>1, <2>4, <1>0, <1>1, <1>9 DEF RelayTypes
    <2>7. Unasked' /\ InTurn' /\ NoneMissing' /\ HeldBack'
      BY <1>9 DEF Unasked, InTurn, NoneMissing, HeldBack
    <2>8. FlowHolds'
      <3>1. Told(Flow', <<>>) /\ (\A i \in DOMAIN Flow' : Terminal(Flow'[i]) => i = Len(Flow'))
            /\ (\A i \in DOMAIN Flow' : Flow'[i] # <<"result">>)
        BY <2>5, <1>5, <1>9
      <3>2. Told(Flow, got)'
        BY <3>1, <1>1, <1>2 DEF Told
      <3> QED BY <3>1, <3>2, <1>9 DEF FlowHolds
    <2>9. Reaches'
      BY <2>1, <2>2, <2>3, <2>4, <2>5, <1>1, <1>9 DEF Reaches
    <2> QED BY <2>6, <2>7, <2>8, <2>9 DEF RelayInv
  <1>10. failed' \in BOOLEAN
    BY <1>1, <1>2
  <1>11. CASE turn.gate \in {"disabled", "rate_limit"}
    <2>1. PICK v \in FrameSet : v = <<"error", turn.gate>>
      BY <1>11 DEF FrameSet, Errors
    <2>2. Terminal(v) /\ v # <<"result">>
      BY <2>1 DEF Terminal
    <2>3. /\ service' = "over" /\ agent' = agent
          /\ link' = [link EXCEPT ![3] = End(Put(@, gr \o <<v>>), "done")]
      BY <2>1, <1>4, <1>11 DEF Gate, Frame
    <2>4. /\ gr \o <<v>> \in Seq(FrameSet) /\ gr \o <<v>> # <<>> /\ (gr \o <<v>>)[Len(gr \o <<v>>)] = v
          /\ \A i \in DOMAIN (gr \o <<v>>) : Terminal((gr \o <<v>>)[i]) => i = Len(gr \o <<v>>)
          /\ \A i \in DOMAIN (gr \o <<v>>) : (gr \o <<v>>)[i] # <<"result">>
      BY <2>2, <1>5, LastFrame
    <2>5. Told(gr \o <<v>>, <<>>)
      <3>1. turn.streaming => gr # <<>>
        BY <1>4
      <3> QED BY <3>1, <2>2, <1>5, ToldOne
    <2> QED BY <2>2, <2>3, <2>4, <2>5, <1>9, <1>10, <1>11
  <1>12. CASE turn.gate = "catalog"
    <2>1. service' = "over" /\ agent' = agent /\ link' = [link EXCEPT ![3] = End(Put(@, gr), "reset")]
      BY <1>4, <1>12 DEF Gate
    <2> QED BY <2>1, <1>4, <1>5, <1>9, <1>10, <1>12
  <1>13. turn.gate \in {"pass", "disabled", "rate_limit", "catalog"}
    BY <1>0, TypeFacts
  <1> QED BY <1>8, <1>11, <1>12, <1>13

LEMMA RelayStarts == RelayInit => RelayInv
  <1> SUFFICES ASSUME RelayInit PROVE RelayInv
    OBVIOUS
  <1>1. /\ link[1] = Closed /\ link[2] = Closed /\ link[3] = Opened /\ link \in [1..3 -> {link[h] : h \in 1..3}]
        /\ service = "asked" /\ agent = "none" /\ said = 0 /\ turn \in Turns
        /\ whole = <<>> /\ got = <<>> /\ held = <<>> /\ read = <<>> /\ failed = FALSE /\ garbled = FALSE
    BY DEF RelayInit
  <1>2. Flow = <<>>
    BY <1>1, Opens DEF Flow
  <1>3. RelayTypes
    <2>1. <<>> \in Seq(Nat) /\ <<>> \in Seq(FrameSet)
      OBVIOUS
    <2>2. turn.pieces \in Nat
      BY <1>1, RelayAssumption DEF Turns
    <2>3. \A h \in 1..3 : Shape(link[h])
      BY <1>1, Opens
    <2>4. /\ link[1].items \in Seq(Nat) /\ link[2].items \in Seq(Nat) /\ link[3].items \in Seq(FrameSet)
          /\ whole \in Seq(Nat) /\ got \in Seq(Nat) /\ held \in Seq(Nat) /\ read \in Seq(FrameSet)
      BY <2>1, <1>1, Opens
    <2>5. failed \in BOOLEAN /\ garbled \in BOOLEAN
      BY <1>1
    <2>6. said \in 0..turn.pieces
      BY <2>2, <1>1
    <2> QED BY <2>3, <2>4, <2>5, <2>6, <1>1 DEF RelayTypes
  <1>4. Unasked /\ InTurn /\ NoneMissing /\ HeldBack
    BY <1>1, <1>2 DEF Unasked, InTurn, NoneMissing, HeldBack
  <1>5. FlowHolds
    BY <1>1, <1>2 DEF FlowHolds, Told
  <1>6. Reaches
    BY <1>1, Opens DEF Reaches
  <1> QED BY <1>3, <1>4, <1>5, <1>6 DEF RelayInv

LEMMA RelayStepKeeps == RelayInv /\ [RelayNext]_relayVars => RelayInv'
  <1> SUFFICES ASSUME RelayInv, [RelayNext]_relayVars PROVE RelayInv'
    OBVIOUS
  <1>1. CASE Generate
    BY <1>1, GenerateKeeps
  <1>2. CASE ModelFails
    BY <1>2, ModelFailsKeeps
  <1>3. CASE AgentRefuses
    BY <1>3, AgentRefusesKeeps
  <1>4. CASE AgentSkips
    BY <1>4, AgentSkipsKeeps
  <1>5. CASE AgentStep
    BY <1>5, AgentStartsKeeps, AgentReadsKeeps, AgentEndsKeeps, AgentFailsKeeps, AgentCancelledKeeps DEF AgentStep
  <1>6. CASE ServiceStep
    BY <1>6, GateKeeps, ServiceReadsKeeps, ServiceEndsKeeps, ServiceFailsKeeps, ServiceCancelledKeeps
    DEF ServiceStep
  <1>7. CASE BrowserReads
    BY <1>7, BrowserReadsKeeps
  <1>8. CASE BrowserLeaves
    BY <1>8, BrowserLeavesKeeps
  <1>9. CASE UNCHANGED relayVars
    <2>1. /\ turn' = turn /\ link' = link /\ said' = said /\ agent' = agent /\ service' = service
          /\ whole' = whole /\ got' = got /\ held' = held /\ read' = read /\ failed' = failed /\ garbled' = garbled
      BY <1>9 DEF relayVars
    <2>2. Flow' = Flow
      BY <2>1 DEF Flow
    <2>3. /\ link \in [1..3 -> {link[h] : h \in 1..3}] /\ Shape(link[3]) /\ link[3].items \in Seq(FrameSet)
          /\ read \in Seq(FrameSet) /\ (service = "asked" => Flow = <<>>)
      BY DEF RelayInv, RelayTypes, Unasked
    <2>4. RelayTypes' /\ Unasked' /\ InTurn' /\ NoneMissing'
      BY <2>1, <2>2, <2>3, DownstreamKeeps DEF RelayInv
    <2>5. FlowHolds' /\ HeldBack' /\ Reaches'
      BY <2>1, UpstreamKeeps DEF RelayInv
    <2> QED BY <2>4, <2>5 DEF RelayInv
  <1> QED BY <1>1, <1>2, <1>3, <1>4, <1>5, <1>6, <1>7, <1>8, <1>9 DEF RelayNext

(* From what is told and what is on its way to what the browser has read.  *)
LEMMA ReadIsExact == RelayInv => RelayExact
  <1> SUFFICES ASSUME RelayInv PROVE RelayExact
    OBVIOUS
  <1>0. RelayTypes /\ FlowHolds /\ Reaches
    BY DEF RelayInv
  <1>1. read \in Seq(FrameSet) /\ link[3].items \in Seq(FrameSet)
    BY <1>0 DEF RelayTypes
  <1>2. /\ \A i \in DOMAIN read : i \in DOMAIN Flow /\ Flow[i] = read[i] /\ i \in Nat /\ i <= Len(read)
        /\ Len(read) \in Nat /\ Len(Flow) \in Nat /\ Len(read) <= Len(Flow)
    BY <1>1 DEF Flow
  <1>3. link[3].items = <<>> => Flow = read
    <2>1. \A r \in Seq(FrameSet) : r \o <<>> = r
      OBVIOUS
    <2> QED BY <2>1, <1>1 DEF Flow
  <1>4. \A i \in DOMAIN read : (read[i] = <<"session">>) <=> (i = 1 /\ turn.streaming)
    BY <1>0, <1>2 DEF FlowHolds, Told
  <1>5. ASSUME NEW i \in DOMAIN read, Terminal(read[i]) PROVE i = Len(read) /\ service = "over"
    <2>1. i = Len(Flow) /\ service = "over"
      BY <1>0, <1>2, <1>5 DEF FlowHolds
    <2> QED BY <2>1, <1>2
  <1>6. \A i, j \in DOMAIN read : i < j /\ Delta(read[i]) /\ Delta(read[j]) => read[i][2] < read[j][2]
    BY <1>0, <1>2 DEF FlowHolds, Told
  <1>7. <<"result">> \in {read[i] : i \in DOMAIN read} => turn.sound /\ got[Len(got)] = turn.pieces
    BY <1>0, <1>2 DEF FlowHolds
  <1>8. Ended => Terminal(read[Len(read)])
    BY <1>0, <1>3 DEF Ended, Reaches
  <1>9. Ended /\ ~failed /\ turn.gate = "pass" =>
          /\ turn.streaming => Pieces(read) = 1..turn.rationale
          /\ turn.sound => read[Len(read)] = <<"result">>
    BY <1>0, <1>3 DEF Ended, Reaches
  <1> QED BY <1>4, <1>5, <1>6, <1>7, <1>8, <1>9 DEF RelayExact

(* Whatever breaks on the way, the browser is told the rationale in the    *)
(* model's order and one end, a result only of the whole reply             *)
(* (ai_composer_service.py:530-591).                                       *)
THEOREM TurnsAreExact == RelaySpec => []RelayExact
  BY RelayStarts, RelayStepKeeps, ReadIsExact, PTL DEF RelaySpec

-----------------------------------------------------------------------------
(* A turn ends.  What is left of it is weighed so that a piece is lighter  *)
(* at every place it gets to: with the model 5, on the model's connection  *)
(* 4, in AI_Agent or on its connection 3, in the parser 2, on its way to   *)
(* the browser 1; what each process has still to do of its own comes on    *)
(* top.                                                                    *)
Load(h) == Len(link[h].items)

ModelLeft ==
  5 * (turn.pieces - said) + 4 * Load(1) + (IF link[1].end = "open" THEN 1 ELSE 0)

AgentHolds ==
  IF agent = "over" THEN 0
  ELSE 3 * Len(whole) + (IF agent = "called" THEN 3 ELSE IF agent = "reading" THEN 1 ELSE 0)

AgentLeft == 3 * Load(2) + AgentHolds

ServiceLeft ==
  IF service = "asked" THEN 7 ELSE IF service = "reading" THEN 2 + 2 * Len(held) ELSE 0

BrowserLeft == Load(3) + (IF link[3].reader THEN 1 ELSE 0)

Upstream   == ModelLeft + AgentLeft
Downstream == ServiceLeft + BrowserLeft
WorkLeft   == Upstream + Downstream

Weighed == ModelLeft \in Nat /\ AgentLeft \in Nat /\ ServiceLeft \in Nat /\ BrowserLeft \in Nat

(* Who reads what: a process reads its connection as long as it is at it.  *)
LinksInTurn ==
  /\ turn.direct => agent = "none"
  /\ link[1].reader <=> agent = "reading" \/ (turn.direct /\ service = "reading")
  /\ link[2].reader <=> service = "reading" /\ ~turn.direct
  /\ link[1].reader => link[1].end # "none"
  /\ link[2].reader => link[2].end # "none"

TurnOver ==
  /\ service = "over" /\ agent \in {"none", "over"}
  /\ LetGo(1) /\ LetGo(2) /\ link[3].items = <<>>

(* A step of AI_Agent, the API server or the browser that waits for        *)
(* nobody: there is something to read, or what is read has ended, or is    *)
(* silent and times out.                                                   *)
SomeoneMayStep ==
  \/ agent = "called" \/ service = "asked" \/ link[3].items # <<>>
  \/ agent = "reading" /\ (link[1].items # <<>> \/ (Waiting(1) /\ link[1].end # "none"))
  \/ service = "reading" /\ (link[Up].items # <<>> \/ (Waiting(Up) /\ link[Up].end # "none"))

LEMMA RelayNumbers ==
  ASSUME RelayInv
  PROVE  /\ turn.pieces \in Nat /\ said \in Nat /\ turn.pieces - said \in Nat
         /\ Load(1) \in Nat /\ Load(2) \in Nat /\ Load(3) \in Nat
         /\ Len(whole) \in Nat /\ Len(held) \in Nat
  <1>1. RelayTypes
    BY DEF RelayInv
  <1>2. /\ turn.pieces \in Nat /\ said \in Nat /\ said <= turn.pieces
        /\ Load(1) \in Nat /\ Load(2) \in Nat /\ Len(whole) \in Nat /\ held \in Seq(Nat)
    BY <1>1, TypesOfPieces DEF Load
  <1>3. link[3].items \in Seq(FrameSet)
    BY <1>1 DEF RelayTypes
  <1>4. \A S : \A s \in Seq(S) : Len(s) \in Nat
    OBVIOUS
  <1>5. Load(3) \in Nat /\ Len(held) \in Nat
    BY <1>2, <1>3, <1>4 DEF Load
  <1> QED
    BY <1>2, <1>5

LEMMA RelayIsWeighed == RelayInv => Weighed
  <1> SUFFICES ASSUME RelayInv PROVE Weighed
    OBVIOUS
  <1>1. /\ turn.pieces - said \in Nat
        /\ Load(1) \in Nat /\ Load(2) \in Nat /\ Load(3) \in Nat
        /\ Len(whole) \in Nat /\ Len(held) \in Nat
    BY RelayNumbers
  <1>2. ModelLeft \in Nat
    BY <1>1 DEF ModelLeft
  <1>3. AgentLeft \in Nat
    <2>1. AgentHolds \in Nat
      BY <1>1 DEF AgentHolds
    <2> QED
      BY <1>1, <2>1 DEF AgentLeft
  <1>4. ServiceLeft \in Nat
    BY <1>1 DEF ServiceLeft
  <1>5. BrowserLeft \in Nat
    BY <1>1 DEF BrowserLeft
  <1> QED
    BY <1>2, <1>3, <1>4, <1>5 DEF Weighed

(* A sum of numbers falls with one of the two.                             *)
LEMMA PartFalls ==
  ASSUME NEW a \in Int, NEW b \in Int, NEW a1 \in Int, NEW b1 \in Int, a1 <= a, b1 < b
  PROVE  a1 + b1 < a + b /\ b1 + a1 < b + a
  OBVIOUS

LEMMA LighterAbove ==
  ASSUME Weighed, Weighed', Upstream' < Upstream, Downstream' = Downstream
  PROVE  WorkLeft' < WorkLeft
  <1>1. Upstream \in Int /\ Downstream \in Int /\ Upstream' \in Int /\ Downstream' \in Int
    BY DEF Weighed, Upstream, Downstream
  <1>2. Downstream' <= Downstream
    BY <1>1
  <1> QED
    BY <1>1, <1>2, PartFalls DEF WorkLeft

LEMMA LighterBelow ==
  ASSUME Weighed, Weighed', Upstream' <= Upstream, Downstream' < Downstream
  PROVE  WorkLeft' < WorkLeft
  <1>1. Upstream \in Int /\ Downstream \in Int /\ Upstream' \in Int /\ Downstream' \in Int
    BY DEF Weighed, Upstream, Downstream
  <1> QED
    BY <1>1, PartFalls DEF WorkLeft

LEMMA LinkTypes ==
  ASSUME RelayInv
  PROVE  /\ link \in [1..3 -> {link[h] : h \in 1..3}]
         /\ Shape(link[1]) /\ Shape(link[2]) /\ Shape(link[3])
         /\ link[1].items \in Seq(Nat) /\ link[2].items \in Seq(Nat) /\ link[3].items \in Seq(FrameSet)
         /\ whole \in Seq(Nat) /\ held \in Seq(Nat)
         /\ Up \in {1, 2} /\ (turn.direct => Up = 1) /\ (~turn.direct => Up = 2)
         /\ turn.direct \in BOOLEAN
  BY TypeFacts DEF RelayInv, RelayTypes

(* What is put on a connection is on it once, or nowhere.                  *)
LEMMA PutLoad ==
  ASSUME NEW S, NEW l, Shape(l), l.items \in Seq(S), NEW s \in Seq(S)
  PROVE  /\ Len(Put(l, s).items) <= Len(l.items) + Len(s)
         /\ Len(Put(l, s).items) \in Nat /\ Len(l.items) \in Nat /\ Len(s) \in Nat
  <1>1. Len(l.items) \in Nat /\ Len(s) \in Nat
    OBVIOUS
  <1>2. CASE l.reader
    <2>1. Put(l, s).items = l.items \o s
      BY <1>2, Puts
    <2> QED
      BY <1>1, <2>1, Joined
  <1>3. CASE ~l.reader
    <2>1. Put(l, s) = l
      BY <1>3, Puts
    <2> QED
      BY <1>1, <2>1
  <1> QED
    BY <1>2, <1>3

(* The parts a step leaves alone.                                          *)
LEMMA ModelLeftStays ==
  ASSUME UNCHANGED <<turn, said>>, link'[1] = link[1]
  PROVE  ModelLeft' = ModelLeft
  BY DEF ModelLeft, Load

LEMMA AgentLeftStays ==
  ASSUME UNCHANGED <<agent, whole>>, link'[2] = link[2]
  PROVE  AgentLeft' = AgentLeft
  BY DEF AgentLeft, AgentHolds, Load

LEMMA DownstreamStays ==
  ASSUME UNCHANGED <<service, held>>, link'[3] = link[3]
  PROVE  Downstream' = Downstream
  BY DEF Downstream, ServiceLeft, BrowserLeft, Load

LEMMA ModelGoesOn ==
  ASSUME RelayInv, LinksInTurn, Weighed', Generate \/ ModelFails
  PROVE  LinksInTurn' /\ WorkLeft' < WorkLeft
  <1>1. /\ UNCHANGED <<turn, agent, service, whole, held>>
        /\ link[1].end = "open" /\ link[1].reader
    BY DEF Generate, ModelFails
  <1>2. /\ Weighed /\ Shape(link[1]) /\ link \in [1..3 -> {link[h] : h \in 1..3}]
        /\ link[1].items \in Seq(Nat)
        /\ said \in Nat /\ turn.pieces \in Nat /\ turn.pieces - said \in Nat /\ Load(1) \in Nat
    BY RelayIsWeighed, LinkTypes, RelayNumbers
  <1>3. ASSUME link'[1].reader = link[1].reader, link'[1].end \in {"open", "done", "reset"},
               link'[2] = link[2], link'[3] = link[3], ModelLeft' < ModelLeft
        PROVE  LinksInTurn' /\ WorkLeft' < WorkLeft
    <2>1. LinksInTurn'
      BY <1>1, <1>3 DEF LinksInTurn
    <2>2. AgentLeft' = AgentLeft /\ Downstream' = Downstream
      BY <1>1, <1>3, AgentLeftStays, DownstreamStays
    <2>3. Upstream' < Upstream
      BY <1>2, <1>3, <2>2 DEF Weighed, Upstream
    <2> QED
      BY <1>2, <2>1, <2>2, <2>3, LighterAbove
  <1>4. ASSUME NEW how \in {"done", "reset"}, link' = [link EXCEPT ![1] = End(@, how)], said' = said
        PROVE  LinksInTurn' /\ WorkLeft' < WorkLeft
    <2>1. link'[1] = End(link[1], how) /\ link'[2] = link[2] /\ link'[3] = link[3]
      BY <1>2, <1>4
    <2>2. /\ End(link[1], how).reader = link[1].reader /\ End(link[1], how).end = how
          /\ End(link[1], how).items = link[1].items
      BY <1>2, Ends
    <2>3. Load(1)' = Load(1) /\ link'[1].end = how
      BY <2>1, <2>2 DEF Load
    <2>4. ModelLeft' < ModelLeft
      BY <1>1, <1>2, <1>4, <2>3 DEF ModelLeft
    <2> QED
      BY <1>3, <2>1, <2>2, <2>4
  <1>5. ASSUME said < turn.pieces, said' = said + 1,
               link' = [link EXCEPT ![1] = Put(@, <<said + 1>>)]
        PROVE  LinksInTurn' /\ WorkLeft' < WorkLeft
    <2>1. link'[1] = Put(link[1], <<said + 1>>) /\ link'[2] = link[2] /\ link'[3] = link[3]
      BY <1>2, <1>5
    <2>2. /\ Put(link[1], <<said + 1>>).reader = link[1].reader
          /\ Put(link[1], <<said + 1>>).end = link[1].end
      BY <1>2, Puts
    <2>3. <<said + 1>> \in Seq(Nat) /\ Len(<<said + 1>>) = 1
      BY <1>2
    <2>4. Load(1)' <= Load(1) + 1 /\ Load(1)' \in Nat
      BY <1>2, <2>1, <2>3, PutLoad DEF Load
    <2>5. turn.pieces' - said' = (turn.pieces - said) - 1
      BY <1>1, <1>2, <1>5
    <2>6. link'[1].end = "open"
      BY <1>1, <2>1, <2>2
    <2>7. ModelLeft' < ModelLeft
      <3>1. ModelLeft = 5 * (turn.pieces - said) + 4 * Load(1) + 1
        BY <1>1 DEF ModelLeft
      <3>2. ModelLeft' = 5 * ((turn.pieces - said) - 1) + 4 * Load(1)' + 1
        BY <2>5, <2>6 DEF ModelLeft
      <3> QED
        <4>1. PICK u \in Int, l \in Int, l1 \in Int : u = turn.pieces - said /\ l = Load(1) /\ l1 = Load(1)'
          BY <1>2, <2>4
        <4>2. l1 <= l + 1
          BY <2>4, <4>1
        <4>3. 5 * (u - 1) + 4 * l1 + 1 < 5 * u + 4 * l + 1
          BY ONLY <4>2, u \in Int, l \in Int, l1 \in Int
        <4> QED
          BY ONLY <3>1, <3>2, <4>1, <4>3
    <2> QED
      BY <1>1, <1>3, <2>1, <2>2, <2>7
  <1>6. CASE Generate
    <2>1. CASE said < turn.pieces
      BY <1>5, <1>6, <2>1 DEF Generate
    <2>2. CASE ~(said < turn.pieces)
      BY <1>4, <1>6, <2>2 DEF Generate
    <2> QED
      BY <2>1, <2>2
  <1>7. CASE ModelFails
    <2>1. PICK how \in {"done", "reset"} : link' = [link EXCEPT ![1] = End(@, how)] /\ said' = said
      BY <1>7 DEF ModelFails
    <2> QED
      BY <1>4, <2>1
  <1> QED
    BY <1>6, <1>7

LEMMA AgentStopsOn ==
  ASSUME RelayInv, LinksInTurn, Weighed', agent \in {"called", "reading"}, AgentStops("reset")
  PROVE  LinksInTurn' /\ WorkLeft' < WorkLeft
  <1>1. /\ UNCHANGED <<turn, said, service, whole, held>> /\ agent' = "over"
        /\ link' = [link EXCEPT ![1] = Leave(@), ![2] = End(@, "reset")]
    BY DEF AgentStops
  <1>2. /\ Weighed /\ Shape(link[1]) /\ Shape(link[2]) /\ link \in [1..3 -> {link[h] : h \in 1..3}]
        /\ Len(whole) \in Nat /\ Load(1) \in Nat /\ Load(2) \in Nat /\ turn.pieces - said \in Nat
    BY RelayIsWeighed, LinkTypes, RelayNumbers
  <1>3. link'[1] = Leave(link[1]) /\ link'[2] = End(link[2], "reset") /\ link'[3] = link[3]
    BY <1>1, <1>2
  <1>4. /\ Leave(link[1]).end = link[1].end /\ Leave(link[1]).reader = FALSE
        /\ Leave(link[1]).items = <<>>
        /\ End(link[2], "reset").end = "reset" /\ End(link[2], "reset").reader = link[2].reader
        /\ End(link[2], "reset").items = link[2].items
    BY <1>2, Leaves, Ends
  <1>5. /\ link'[1].end = link[1].end /\ link'[1].reader = FALSE /\ link'[1].items = <<>>
        /\ link'[2].end = "reset" /\ link'[2].reader = link[2].reader /\ link'[2].items = link[2].items
    BY <1>3, <1>4
  <1>6. LinksInTurn'
    BY <1>1, <1>5 DEF LinksInTurn
  <1>7. ModelLeft' <= ModelLeft
    <2>1. Load(1)' = 0
      BY <1>5 DEF Load
    <2>2. PICK o \in Nat : o = (IF link[1].end = "open" THEN 1 ELSE 0)
      OBVIOUS
    <2>5. PICK u \in Nat, l \in Nat : u = turn.pieces - said /\ l = Load(1)
      BY <1>2
    <2>6. 5 * u + 4 * 0 + o <= 5 * u + 4 * l + o
      OBVIOUS
    <2>3. ModelLeft = 5 * (turn.pieces - said) + 4 * Load(1) + o
      BY <2>2 DEF ModelLeft
    <2>4. ModelLeft' = 5 * (turn.pieces - said) + 4 * 0 + o
      BY <1>1, <1>5, <2>1, <2>2 DEF ModelLeft
    <2> QED
      BY ONLY <2>3, <2>4, <2>5, <2>6
  <1>8. AgentLeft' < AgentLeft
    <2>1. Load(2)' = Load(2) /\ AgentHolds' = 0
      BY <1>1, <1>5 DEF Load, AgentHolds
    <2>2. AgentHolds >= 1 /\ AgentHolds \in Nat
      BY <1>2 DEF AgentHolds
    <2> QED
      BY <1>2, <2>1, <2>2 DEF AgentLeft
  <1>9. Upstream' < Upstream
    BY <1>2, <1>7, <1>8 DEF Weighed, Upstream
  <1> QED
    BY <1>1, <1>2, <1>3, <1>6, <1>9, DownstreamStays, LighterAbove

LEMMA AgentTakesOn ==
  ASSUME RelayInv, LinksInTurn, Weighed', AgentReads \/ AgentSkips
  PROVE  LinksInTurn' /\ WorkLeft' < WorkLeft
  <1>1. /\ UNCHANGED <<turn, said, agent, service, held>>
        /\ agent = "reading" /\ link[1].items # <<>>
    BY DEF AgentReads, AgentSkips
  <1>2. /\ Weighed /\ Shape(link[1]) /\ Shape(link[2]) /\ link \in [1..3 -> {link[h] : h \in 1..3}]
        /\ link[1].items \in Seq(Nat) /\ link[2].items \in Seq(Nat) /\ whole \in Seq(Nat)
        /\ Len(whole) \in Nat /\ Load(1) \in Nat /\ Load(2) \in Nat /\ turn.pieces - said \in Nat
    BY RelayIsWeighed, LinkTypes, RelayNumbers
  <1>3. PICK p \in Nat : p = Ahead(1)
    BY <1>1, <1>2, TailOf DEF Ahead
  <1>4. PICK took : took = Took(1)
    OBVIOUS
  <1>5. /\ took.end = link[1].end /\ took.reader = link[1].reader
        /\ Len(took.items) = Load(1) - 1
    <2>1. /\ Took(1).end = link[1].end /\ Took(1).reader = link[1].reader
          /\ Took(1).items = Tail(link[1].items)
      BY <1>2, Takes
    <2>2. Len(Tail(link[1].items)) = Len(link[1].items) - 1
      BY <1>1, <1>2, TailOf
    <2> QED
      BY <1>4, <2>1, <2>2 DEF Load
  <1>6. <<p>> \in Seq(Nat) /\ Len(<<p>>) = 1 /\ Len(Append(whole, p)) = Len(whole) + 1
    BY <1>2
  <1>7. /\ link'[1] = took /\ link'[3] = link[3]
        /\ link'[2].end = link[2].end /\ link'[2].reader = link[2].reader
        /\ Load(2)' \in Nat /\ Len(whole') \in Nat
        /\ Load(2)' + Len(whole') <= Load(2) + Len(whole) + 1
    <2>1. CASE AgentReads /\ turn.streaming
      <3>0. PICK put : put = Put(link[2], <<p>>)
        OBVIOUS
      <3>1. link' = [link EXCEPT ![1] = took, ![2] = put] /\ whole' = whole
        BY <1>3, <1>4, <2>1, <3>0 DEF AgentReads
      <3>5. link'[1] = took /\ link'[2] = put /\ link'[3] = link[3]
        <4>1. link \in [1..3 -> {link[h] : h \in 1..3}]
          BY <1>2
        <4> QED
          BY ONLY <3>1, <4>1
      <3>2. link'[1] = took /\ link'[2] = Put(link[2], <<p>>) /\ link'[3] = link[3]
        BY ONLY <3>0, <3>5
      <3>3. /\ Put(link[2], <<p>>).end = link[2].end /\ Put(link[2], <<p>>).reader = link[2].reader
        BY <1>2, Puts
      <3>4. Load(2)' <= Load(2) + 1 /\ Load(2)' \in Nat
        BY <1>2, <1>6, <3>2, PutLoad DEF Load
      <3> QED
        BY <1>2, <3>1, <3>2, <3>3, <3>4
    <2>2. CASE AgentReads /\ ~turn.streaming
      <3>1. link' = [link EXCEPT ![1] = took] /\ whole' = Append(whole, p)
        BY <1>3, <1>4, <2>2 DEF AgentReads
      <3>2. link'[1] = took /\ link'[2] = link[2] /\ link'[3] = link[3]
        BY <1>2, <3>1
      <3>3. Load(2)' = Load(2)
        BY <3>2 DEF Load
      <3> QED
        BY <1>2, <1>6, <3>1, <3>2, <3>3
    <2>3. CASE AgentSkips
      <3>1. link' = [link EXCEPT ![1] = took] /\ whole' = whole
        BY <1>4, <2>3 DEF AgentSkips
      <3>2. link'[1] = took /\ link'[2] = link[2] /\ link'[3] = link[3]
        BY <1>2, <3>1
      <3>3. Load(2)' = Load(2)
        BY <3>2 DEF Load
      <3> QED
        BY <1>2, <3>1, <3>2, <3>3
    <2> QED
      BY <2>1, <2>2, <2>3
  <1>8. LinksInTurn'
    BY <1>1, <1>5, <1>7 DEF LinksInTurn
  <1>9. ModelLeft' = ModelLeft - 4
    <2>1. PICK o \in Nat : o = (IF link[1].end = "open" THEN 1 ELSE 0)
      OBVIOUS
    <2>2. PICK u \in Nat, l \in Nat : u = turn.pieces - said /\ l = Load(1)
      BY <1>2
    <2>3. Load(1)' = l - 1
      BY <1>5, <1>7, <2>2 DEF Load
    <2>4. ModelLeft = 5 * u + 4 * l + o
      BY <2>1, <2>2 DEF ModelLeft
    <2>5. ModelLeft' = 5 * u + 4 * (l - 1) + o
      BY <1>1, <1>5, <1>7, <2>1, <2>2, <2>3 DEF ModelLeft
    <2>6. 5 * u + 4 * (l - 1) + o = (5 * u + 4 * l + o) - 4
      OBVIOUS
    <2> QED
      BY ONLY <2>4, <2>5, <2>6
  <1>10. AgentLeft' <= AgentLeft + 3
    <2>1. PICK l \in Nat, w \in Nat, l1 \in Nat, w1 \in Nat :
            l = Load(2) /\ w = Len(whole) /\ l1 = Load(2)' /\ w1 = Len(whole')
      BY <1>2, <1>7
    <2>2. AgentLeft = 3 * l + (3 * w + 1)
      BY <1>1, <2>1 DEF AgentLeft, AgentHolds
    <2>3. AgentLeft' = 3 * l1 + (3 * w1 + 1)
      BY <1>1, <2>1 DEF AgentLeft, AgentHolds
    <2>4. l1 + w1 <= l + w + 1
      BY <1>7, <2>1
    <2>5. 3 * l1 + (3 * w1 + 1) <= 3 * l + (3 * w + 1) + 3
      BY ONLY <2>4, l \in Nat, w \in Nat, l1 \in Nat, w1 \in Nat
    <2> QED
      BY ONLY <2>2, <2>3, <2>5
  <1>11. Upstream' < Upstream
    BY <1>2, <1>9, <1>10 DEF Weighed, Upstream
  <1> QED
    BY <1>1, <1>2, <1>7, <1>8, <1>11, DownstreamStays, LighterAbove

LEMMA AgentEndsOn ==
  ASSUME RelayInv, LinksInTurn, Weighed', AgentStarts \/ AgentEnds
  PROVE  LinksInTurn' /\ WorkLeft' < WorkLeft
  <1>1. UNCHANGED <<turn, said, service, whole, held>>
    BY DEF AgentStarts, AgentEnds
  <1>2. /\ Weighed /\ Shape(link[1]) /\ Shape(link[2]) /\ link \in [1..3 -> {link[h] : h \in 1..3}]
        /\ link[1].items \in Seq(Nat) /\ link[2].items \in Seq(Nat) /\ whole \in Seq(Nat)
    BY RelayIsWeighed, LinkTypes
  <1>3. PICK u \in Nat, l \in Nat, k \in Nat, w \in Nat, o \in {0, 1} :
          /\ u = turn.pieces - said /\ l = Load(1) /\ k = Load(2) /\ w = Len(whole)
          /\ o = (IF link[1].end = "open" THEN 1 ELSE 0)
    BY RelayNumbers
  <1>4. ModelLeft = 5 * u + 4 * l + o
    BY <1>3 DEF ModelLeft
  <1>5. ASSUME LinksInTurn', ModelLeft' + AgentLeft' < ModelLeft + AgentLeft, link'[3] = link[3]
        PROVE  LinksInTurn' /\ WorkLeft' < WorkLeft
    BY <1>1, <1>2, <1>5, DownstreamStays, LighterAbove DEF Upstream
  <1>6. CASE AgentStarts
    <2>1. agent = "called" /\ agent' = "reading" /\ link' = [link EXCEPT ![1] = Opened]
      BY <1>6 DEF AgentStarts
    <2>2. link'[1] = Opened /\ link'[2] = link[2] /\ link'[3] = link[3]
      BY <1>2, <2>1
    <2>3. link'[1].items = <<>> /\ link'[1].end = "open" /\ link'[1].reader = TRUE
      BY <2>2, Opens
    <2>4. LinksInTurn'
      BY <1>1, <2>1, <2>2, <2>3 DEF LinksInTurn
    <2>5. Load(1)' = 0 /\ Load(2)' = k
      BY <1>3, <2>2, <2>3 DEF Load
    <2>6. ModelLeft' = 5 * u + 4 * 0 + 1
      BY <1>1, <1>3, <2>3, <2>5 DEF ModelLeft
    <2>7. AgentLeft = 3 * k + (3 * w + 3)
      BY <1>3, <2>1 DEF AgentLeft, AgentHolds
    <2>8. AgentLeft' = 3 * k + (3 * w + 1)
      BY <1>1, <1>3, <2>1, <2>5 DEF AgentLeft, AgentHolds
    <2>9. (5 * u + 4 * 0 + 1) + (3 * k + (3 * w + 1)) < (5 * u + 4 * l + o) + (3 * k + (3 * w + 3))
      OBVIOUS
    <2>10. ModelLeft' + AgentLeft' < ModelLeft + AgentLeft
      BY ONLY <1>4, <2>6, <2>7, <2>8, <2>9
    <2> QED
      BY <1>5, <2>2, <2>4, <2>10
  <1>7. CASE AgentEnds
    <2>1. /\ agent = "reading" /\ agent' = "over"
          /\ link' = [link EXCEPT ![1] = Leave(@), ![2] = End(Put(@, whole), "done")]
      BY <1>7 DEF AgentEnds
    <2>2. link'[1] = Leave(link[1]) /\ link'[2] = End(Put(link[2], whole), "done") /\ link'[3] = link[3]
      BY <1>2, <2>1
    <2>3. /\ Leave(link[1]).end = link[1].end /\ Leave(link[1]).reader = FALSE
          /\ Leave(link[1]).items = <<>>
      BY <1>2, Leaves
    <2>4. PICK put : put = Put(link[2], whole)
      OBVIOUS
    <2>5. /\ Shape(put) /\ put.reader = link[2].reader
          /\ Len(put.items) <= k + w /\ Len(put.items) \in Nat
      <3>1. Shape(Put(link[2], whole)) /\ Put(link[2], whole).reader = link[2].reader
        BY <1>2, Puts
      <3>2. /\ Len(Put(link[2], whole).items) <= Len(link[2].items) + Len(whole)
            /\ Len(Put(link[2], whole).items) \in Nat
        BY <1>2, PutLoad
      <3> QED
        BY <1>3, <2>4, <3>1, <3>2 DEF Load
    <2>6. End(put, "done").end = "done" /\ End(put, "done").reader = put.reader
          /\ End(put, "done").items = put.items
      BY <2>5, Ends
    <2>7. /\ link'[1].end = link[1].end /\ link'[1].reader = FALSE /\ link'[1].items = <<>>
          /\ link'[2].end = "done" /\ link'[2].reader = link[2].reader
          /\ link'[2].items = put.items
      BY <2>2, <2>3, <2>4, <2>5, <2>6
    <2>8. LinksInTurn'
      BY <1>1, <2>1, <2>7 DEF LinksInTurn
    <2>9. PICK k1 \in Nat : k1 = Load(2)' /\ k1 <= k + w
      BY <2>5, <2>7 DEF Load
    <2>10. Load(1)' = 0
      BY <2>7 DEF Load
    <2>11. ModelLeft' = 5 * u + 4 * 0 + o
      BY <1>1, <1>3, <2>7, <2>10 DEF ModelLeft
    <2>12. AgentLeft = 3 * k + (3 * w + 1)
      BY <1>3, <2>1 DEF AgentLeft, AgentHolds
    <2>13. AgentLeft' = 3 * k1 + 0
      BY <2>1, <2>9 DEF AgentLeft, AgentHolds
    <2>14. (5 * u + 4 * 0 + o) + (3 * k1 + 0) < (5 * u + 4 * l + o) + (3 * k + (3 * w + 1))
      BY <2>9
    <2>15. ModelLeft' + AgentLeft' < ModelLeft + AgentLeft
      BY ONLY <1>4, <2>11, <2>12, <2>13, <2>14
    <2> QED
      BY <1>5, <2>2, <2>8, <2>15
  <1> QED
    BY <1>6, <1>7

(* What the API server reads from: a piece less, or none any more.         *)
LEMMA UpTakes ==
  ASSUME RelayInv, UNCHANGED <<turn, said, agent, whole>>,
         \A g \in {1, 2} : g # Up => link'[g] = link[g],
         link'[Up].end = link[Up].end,
         NEW n \in Nat, NEW l1 \in Nat, l1 = Len(link'[Up].items), l1 <= Len(link[Up].items) - n
  PROVE  Upstream' <= Upstream - 3 * n
  <1>1. PICK u \in Nat, l \in Nat, k \in Nat, w \in Nat, o \in {0, 1} :
          /\ u = turn.pieces - said /\ l = Load(1) /\ k = Load(2)
          /\ o = (IF link[1].end = "open" THEN 1 ELSE 0)
    BY RelayNumbers
  <1>2. AgentHolds \in Nat /\ AgentHolds' = AgentHolds
    BY RelayNumbers DEF AgentHolds
  <1>3. PICK a \in Nat : a = AgentHolds
    BY <1>2
  <1>4. ModelLeft = 5 * u + 4 * l + o /\ AgentLeft = 3 * k + a
    BY <1>1, <1>3 DEF ModelLeft, AgentLeft
  <1>5. CASE Up = 1
    <2>1. link'[2] = link[2] /\ link'[1].end = link[1].end /\ Load(1)' = l1 /\ l1 <= l - n
      BY <1>1, <1>5 DEF Load
    <2>2. AgentLeft' = 3 * k + a
      BY <1>4, <2>1, AgentLeftStays
    <2>3. ModelLeft' = 5 * u + 4 * l1 + o
      BY <1>1, <2>1 DEF ModelLeft
    <2>5. l1 <= l - n
      BY <2>1
    <2>4. (5 * u + 4 * l1 + o) + (3 * k + a) <= ((5 * u + 4 * l + o) + (3 * k + a)) - 3 * n
      BY ONLY <2>5, u \in Nat, l \in Nat, l1 \in Nat, k \in Nat, a \in Nat, o \in {0, 1}, n \in Nat
    <2> QED
      BY ONLY <1>4, <2>2, <2>3, <2>4 DEF Upstream
  <1>6. CASE Up = 2
    <2>1. link'[1] = link[1] /\ Load(2)' = l1 /\ l1 <= k - n
      BY <1>1, <1>6 DEF Load
    <2>2. ModelLeft' = 5 * u + 4 * l + o
      BY <1>4, <2>1, ModelLeftStays
    <2>3. AgentLeft' = 3 * l1 + a
      BY <1>2, <1>3, <2>1 DEF AgentLeft
    <2>5. l1 <= k - n
      BY <2>1
    <2>4. (5 * u + 4 * l + o) + (3 * l1 + a) <= ((5 * u + 4 * l + o) + (3 * k + a)) - 3 * n
      BY ONLY <2>5, u \in Nat, l \in Nat, l1 \in Nat, k \in Nat, a \in Nat, o \in {0, 1}, n \in Nat
    <2> QED
      BY ONLY <1>4, <2>2, <2>3, <2>4 DEF Upstream
  <1> QED
    BY <1>5, <1>6, LinkTypes

(* What the browser is sent.                                               *)
LEMMA BrowserGets ==
  ASSUME RelayInv, NEW f \in Seq(FrameSet), NEW n \in Nat, Len(f) <= n,
         link'[3].reader = link[3].reader, link'[3].items = Put(link[3], f).items
  PROVE  BrowserLeft' <= BrowserLeft + n /\ BrowserLeft' \in Nat /\ BrowserLeft \in Nat
  <1>1. Shape(link[3]) /\ link[3].items \in Seq(FrameSet)
    BY LinkTypes
  <1>2. PICK b \in Nat, b1 \in Nat, o \in {0, 1} :
          b = Load(3) /\ b1 = Load(3)' /\ b1 <= b + n /\ o = (IF link[3].reader THEN 1 ELSE 0)
    BY <1>1, PutLoad DEF Load
  <1>3. BrowserLeft = b + o /\ BrowserLeft' = b1 + o
    BY <1>2 DEF BrowserLeft
  <1>4. b1 + o <= b + o + n /\ b1 + o \in Nat /\ b + o \in Nat
    BY <1>2
  <1> QED
    BY ONLY <1>3, <1>4

LEMMA ServiceStopsOn ==
  ASSUME RelayInv, LinksInTurn, Weighed', service = "reading",
         NEW f \in Seq(FrameSet), Len(f) <= Len(held) + 1,
         NEW how \in {"done", "reset"}, ServiceStops(f, how)
  PROVE  LinksInTurn' /\ WorkLeft' < WorkLeft
  <1>1. /\ UNCHANGED <<turn, said, agent, whole, held>> /\ service' = "over"
        /\ link' = [link EXCEPT ![Up] = Leave(@), ![3] = End(Put(@, f), how)]
    BY DEF ServiceStops
  <1>2. /\ Weighed /\ Shape(link[Up]) /\ Shape(link[3]) /\ link \in [1..3 -> {link[h] : h \in 1..3}]
        /\ Up \in {1, 2} /\ (turn.direct => Up = 1) /\ (~turn.direct => Up = 2)
        /\ Len(held) \in Nat
    BY RelayIsWeighed, LinkTypes, RelayNumbers
  <1>3. PICK put : put = Put(link[3], f)
    OBVIOUS
  <1>4. Shape(put) /\ put.reader = link[3].reader
    BY <1>2, <1>3, Puts
  <1>5. End(put, how).reader = put.reader /\ End(put, how).items = put.items
    BY <1>4, Ends
  <1>6. PICK left : left = Leave(link[Up])
    OBVIOUS
  <1>7. left.end = link[Up].end /\ left.reader = FALSE /\ left.items = <<>>
    BY <1>2, <1>6, Leaves
  <1>8. PICK over : over = End(put, how)
    OBVIOUS
  <1>9. link' = [link EXCEPT ![Up] = left, ![3] = over]
    BY <1>1, <1>3, <1>6, <1>8
  <1>10. link'[Up] = left /\ link'[3] = over /\ \A g \in {1, 2} : g # Up => link'[g] = link[g]
    BY <1>2, <1>9
  <1>11. LinksInTurn'
    BY <1>1, <1>2, <1>7, <1>10 DEF LinksInTurn
  <1>12. Upstream' <= Upstream
    <2>1. Len(link'[Up].items) = 0 /\ Len(link[Up].items) \in Nat
      BY <1>2, <1>7, <1>10, LinkTypes
    <2>2. PICK n \in Nat, l1 \in Nat : n = 0 /\ l1 = Len(link'[Up].items) /\ l1 <= Len(link[Up].items) - n
      BY <2>1
    <2>3. link'[Up].end = link[Up].end
      BY <1>7, <1>10
    <2>4. Upstream' <= Upstream - 3 * n
      BY <1>1, <1>10, <2>2, <2>3, UpTakes
    <2>5. Upstream \in Int
      BY <1>2 DEF Weighed, Upstream
    <2> QED
      BY <2>2, <2>4, <2>5
  <1>13. Downstream' < Downstream
    <2>1. PICK h \in Nat : h = Len(held)
      BY <1>2
    <2>2. PICK b \in Nat, b1 \in Nat : b = BrowserLeft /\ b1 = BrowserLeft' /\ b1 <= b + (h + 1)
      BY <1>3, <1>4, <1>5, <1>8, <1>10, <2>1, BrowserGets
    <2>3. ServiceLeft = 2 + 2 * h
      BY <2>1 DEF ServiceLeft
    <2>4. ServiceLeft' = 0
      BY <1>1 DEF ServiceLeft
    <2>6. b1 <= b + (h + 1)
      BY <2>2
    <2>5. 0 + b1 < (2 + 2 * h) + b
      BY ONLY <2>6, b \in Nat, b1 \in Nat, h \in Nat
    <2> QED
      BY ONLY <2>2, <2>3, <2>4, <2>5 DEF Downstream
  <1> QED
    BY <1>2, <1>11, <1>12, <1>13, LighterBelow

LEMMA ServiceEndsOn ==
  ASSUME RelayInv, LinksInTurn, Weighed', ServiceEnds \/ ServiceFails \/ ServiceCancelled
  PROVE  LinksInTurn' /\ WorkLeft' < WorkLeft
  <1>1. service = "reading" /\ held \in Seq(Nat) /\ Len(held) \in Nat
    BY LinkTypes, RelayNumbers DEF ServiceEnds, ServiceFails, ServiceCancelled
  <1>2. CASE ServiceEnds
    <2>1. PICK v \in Parsed : ServiceStops(Flushed(v), "done")
      BY <1>2 DEF ServiceEnds
    <2>2. v \in FrameSet
      BY <1>1, ParsedIs
    <2>3. ASSUME NEW D \in Seq(FrameSet), Len(D) <= Len(held), Flushed(v) = D \o <<v>>
          PROVE  LinksInTurn' /\ WorkLeft' < WorkLeft
      <3>1. D \o <<v>> \in Seq(FrameSet) /\ Len(D \o <<v>>) = Len(D) + 1 /\ Len(D) \in Nat
        <4>1. D \o <<v>> = Append(D, v) /\ Append(D, v) \in Seq(FrameSet) /\ Len(Append(D, v)) = Len(D) + 1
          BY <2>2, Appended
        <4>2. Len(D) \in Nat
          OBVIOUS
        <4> QED
          BY <4>1, <4>2
      <3>2. PICK f \in Seq(FrameSet) : f = D \o <<v>>
        BY <3>1
      <3>3. Len(f) <= Len(held) + 1
        BY <1>1, <2>3, <3>1, <3>2
      <3>4. ServiceStops(f, "done")
        BY <2>1, <2>3, <3>2
      <3> QED
        BY <1>1, <3>3, <3>4, ServiceStopsOn
    <2>4. CASE turn.streaming
      <3>1. Deltas(held) \in Seq(FrameSet) /\ Len(Deltas(held)) = Len(held)
        BY <1>1, DeltasAre
      <3>2. PICK D \in Seq(FrameSet) : D = Deltas(held)
        BY <3>1
      <3>3. Len(D) <= Len(held)
        BY <1>1, <3>1, <3>2
      <3>4. Flushed(v) = D \o <<v>>
        BY <2>4, <3>2 DEF Flushed, Frame
      <3> QED
        BY <2>3, <3>3, <3>4
    <2>5. CASE ~turn.streaming
      <3>1. PICK D \in Seq(FrameSet) : D = <<>>
        <4>1. <<>> \in Seq(FrameSet)
          OBVIOUS
        <4> QED
          BY <4>1
      <3>2. Len(D) <= Len(held)
        BY <1>1, <3>1
      <3>3. Flushed(v) = D \o <<v>>
        BY <2>5, <3>1 DEF Flushed, Frame
      <3> QED
        BY <2>3, <3>2, <3>3
    <2> QED
      BY <2>4, <2>5
  <1>3. CASE ServiceFails
    <2>1. ServiceStops(Frame(<<"error", "upstream">>), "done")
      BY <1>3 DEF ServiceFails
    <2>2. PICK v \in FrameSet : v = <<"error", "upstream">>
      BY DEF FrameSet, Errors
    <2>3. <<v>> \in Seq(FrameSet) /\ Len(<<v>>) <= Len(held) + 1
      BY <1>1
    <2>4. ServiceStops(<<v>>, "done")
      BY <2>1, <2>2 DEF Frame
    <2> QED
      BY <1>1, <2>3, <2>4, ServiceStopsOn
  <1>4. CASE ServiceCancelled
    <2>1. ServiceStops(<<>>, "reset")
      BY <1>4 DEF ServiceCancelled
    <2>2. <<>> \in Seq(FrameSet) /\ Len(<<>>) <= Len(held) + 1
      BY <1>1
    <2> QED
      BY <1>1, <2>1, <2>2, ServiceStopsOn
  <1> QED
    BY <1>2, <1>3, <1>4

LEMMA BrowserGoesOn ==
  ASSUME RelayInv, LinksInTurn, Weighed', BrowserReads \/ BrowserLeaves
  PROVE  LinksInTurn' /\ WorkLeft' < WorkLeft
  <1>1. UNCHANGED <<turn, said, agent, service, whole, held>>
    BY DEF BrowserReads, BrowserLeaves
  <1>2. /\ Weighed /\ Shape(link[3]) /\ link \in [1..3 -> {link[h] : h \in 1..3}]
        /\ link[3].items \in Seq(FrameSet) /\ Load(3) \in Nat
    BY RelayIsWeighed, LinkTypes, RelayNumbers
  <1>3. /\ link'[1] = link[1] /\ link'[2] = link[2]
        /\ BrowserLeft' < BrowserLeft
    <2>1. CASE BrowserReads
      <3>1. PICK took : took = Took(3)
        OBVIOUS
      <3>2. link' = [link EXCEPT ![3] = took] /\ link[3].items # <<>>
        BY <2>1, <3>1 DEF BrowserReads
      <3>3. link'[3] = took /\ link'[1] = link[1] /\ link'[2] = link[2]
        BY <1>2, <3>2
      <3>4. took.reader = link[3].reader /\ took.items = Tail(link[3].items)
        BY <1>2, <3>1, Takes
      <3>5. Len(Tail(link[3].items)) = Len(link[3].items) - 1
        BY <1>2, <3>2, TailOf
      <3>6. Load(3)' = Load(3) - 1
        BY <3>3, <3>4, <3>5 DEF Load
      <3> QED
        BY <1>2, <3>3, <3>4, <3>6 DEF BrowserLeft
    <2>2. CASE BrowserLeaves
      <3>1. PICK left : left = Leave(link[3])
        OBVIOUS
      <3>2. link' = [link EXCEPT ![3] = left] /\ link[3].reader
        BY <2>2, <3>1 DEF BrowserLeaves
      <3>3. link'[3] = left /\ link'[1] = link[1] /\ link'[2] = link[2]
        BY <1>2, <3>2
      <3>4. left.reader = FALSE /\ left.items = <<>>
        BY <1>2, <3>1, Leaves
      <3>5. Load(3)' = 0
        BY <3>3, <3>4 DEF Load
      <3> QED
        BY <1>2, <3>2, <3>3, <3>4, <3>5 DEF BrowserLeft
    <2> QED
      BY <2>1, <2>2
  <1>4. LinksInTurn'
    BY <1>1, <1>3 DEF LinksInTurn
  <1>5. Upstream' = Upstream
    BY <1>1, <1>3, ModelLeftStays, AgentLeftStays DEF Upstream
  <1>6. ServiceLeft' = ServiceLeft
    BY <1>1 DEF ServiceLeft
  <1>7. Downstream' < Downstream
    BY <1>2, <1>3, <1>6 DEF Weighed, Downstream
  <1>8. Upstream' <= Upstream
    BY <1>2, <1>5 DEF Weighed, Upstream
  <1> QED
    BY <1>2, <1>4, <1>7, <1>8, LighterBelow

LEMMA ServiceReadsOn ==
  ASSUME RelayInv, LinksInTurn, Weighed', ServiceReads
  PROVE  LinksInTurn' /\ WorkLeft' < WorkLeft
  <1>1. /\ service = "reading" /\ link[Up].items # <<>>
        /\ UNCHANGED <<turn, said, agent, service, whole>>
    BY DEF ServiceReads
  <1>2. /\ Weighed /\ Shape(link[Up]) /\ Shape(link[3]) /\ link \in [1..3 -> {link[h] : h \in 1..3}]
        /\ Up \in {1, 2} /\ (turn.direct => Up = 1) /\ (~turn.direct => Up = 2)
        /\ held \in Seq(Nat) /\ Len(held) \in Nat /\ link[Up].items \in Seq(Nat)
    BY RelayIsWeighed, LinkTypes, RelayNumbers
  <1>3. PICK p \in Nat : p = Ahead(Up)
    BY <1>1, <1>2, TailOf DEF Ahead
  <1>4. PICK out : out = IF p <= turn.rationale THEN Append(held, p) ELSE held
    OBVIOUS
  <1>5. PICK n \in (IF p <= turn.rationale THEN {0, 1} ELSE {0}) :
          /\ held' = SubSeq(out, Len(out) - n + 1, Len(out))
          /\ link' = [link EXCEPT ![Up] = Took(Up),
                        ![3] = IF turn.streaming THEN Put(@, Deltas(SubSeq(out, 1, Len(out) - n))) ELSE @]
    BY <1>3, <1>4 DEF ServiceReads
  <1>6. PICK ps : ps = SubSeq(out, 1, Len(out) - n)
    OBVIOUS
  <1>7. \/ held' = <<>> /\ ps = Append(held, p)
        \/ held' = <<p>> /\ ps = held
        \/ held' = <<>> /\ ps = held
    <2>1. CASE ~(p <= turn.rationale)
      <3>1. n = 0 /\ out = held
        BY <2>1, <1>4
      <3> QED
        BY <3>1, <1>2, <1>5, <1>6, AllOf
    <2>2. CASE p <= turn.rationale /\ n = 0
      <3>1. out = Append(held, p) /\ Append(held, p) \in Seq(Nat)
        BY <2>2, <1>2, <1>4
      <3> QED
        BY <3>1, <2>2, <1>5, <1>6, AllOf
    <2>3. CASE p <= turn.rationale /\ n = 1
      <3>1. out = Append(held, p)
        BY <2>3, <1>4
      <3>2. SubSeq(out, Len(out) - 1 + 1, Len(out)) = <<p>> /\ SubSeq(out, 1, Len(out) - 1) = held
        BY <3>1, <1>2, AllButOne
      <3> QED
        BY <3>2, <2>3, <1>5, <1>6
    <2>4. n = 0 \/ n = 1
      OBVIOUS
    <2> QED
      BY <2>1, <2>2, <2>3, <2>4
  <1>8. PICK h \in Nat, h1 \in Nat, m \in Nat :
          /\ h = Len(held) /\ h1 = Len(held') /\ m = Len(ps) /\ ps \in Seq(Nat)
          /\ h1 + m <= h + 1
    <2>1. /\ Append(held, p) \in Seq(Nat) /\ Len(Append(held, p)) = Len(held) + 1
          /\ Len(<<p>>) = 1 /\ Len(<<>>) = 0
      BY <1>2
    <2>2. PICK h \in Nat : h = Len(held)
      BY <1>2
    <2>3. \/ Len(held') = 0 /\ Len(ps) = h + 1
          \/ Len(held') = 1 /\ Len(ps) = h
          \/ Len(held') = 0 /\ Len(ps) = h
      <3>1. CASE held' = <<>> /\ ps = Append(held, p)
        BY <2>1, <2>2, <3>1
      <3>2. CASE held' = <<p>> /\ ps = held
        BY <2>1, <2>2, <3>2
      <3>3. CASE held' = <<>> /\ ps = held
        BY <2>1, <2>2, <3>3
      <3> QED
        BY <1>7, <3>1, <3>2, <3>3
    <2>4. PICK h1 \in Nat, m \in Nat : h1 = Len(held') /\ m = Len(ps) /\ h1 + m <= h + 1
      <3>1. /\ Len(held') \in Nat /\ Len(ps) \in Nat /\ Len(held') + Len(ps) <= h + 1
        <4>1. CASE Len(held') = 0 /\ Len(ps) = h + 1
          BY <4>1
        <4>2. CASE Len(held') = 1 /\ Len(ps) = h
          BY <4>2
        <4>3. CASE Len(held') = 0 /\ Len(ps) = h
          BY <4>3
        <4> QED
          BY <2>3, <4>1, <4>2, <4>3
      <3> QED
        BY <3>1
    <2>5. ps \in Seq(Nat)
      BY <1>2, <1>7, <2>1
    <2> QED
      BY <2>2, <2>4, <2>5
  <1>9. PICK took : took = Took(Up)
    OBVIOUS
  <1>10. took.end = link[Up].end /\ took.reader = link[Up].reader /\ took.items = Tail(link[Up].items)
    BY <1>2, <1>9, Takes
  <1>11. PICK f \in Seq(FrameSet) : Len(f) <= m /\
           link' = [link EXCEPT ![Up] = took, ![3] = Put(link[3], f)]
    <2>1. CASE turn.streaming
      <3>1. Deltas(ps) \in Seq(FrameSet) /\ Len(Deltas(ps)) = Len(ps)
        BY <1>8, DeltasAre
      <3>2. PICK f \in Seq(FrameSet) : f = Deltas(ps) /\ Len(f) <= m
        BY <1>8, <3>1
      <3>3. link' = [link EXCEPT ![Up] = took, ![3] = Put(link[3], f)]
        BY <1>2, <1>5, <1>6, <1>9, <2>1, <3>2
      <3> QED
        BY <3>2, <3>3
    <2>2. CASE ~turn.streaming
      <3>1. PICK f \in Seq(FrameSet) : f = <<>> /\ Len(f) <= m
        <4>1. <<>> \in Seq(FrameSet) /\ Len(<<>>) = 0
          OBVIOUS
        <4>2. PICK f \in Seq(FrameSet) : f = <<>>
          BY <4>1
        <4>3. Len(f) <= m
          BY <4>1, <4>2
        <4> QED
          BY <4>2, <4>3
      <3>2. Put(link[3], f) = link[3]
        <4>1. CASE link[3].reader
          <5>1. link[3].items \in Seq(FrameSet)
            BY LinkTypes
          <5>2. \A s \in Seq(FrameSet) : s \o <<>> = s
            OBVIOUS
          <5>3. link[3].items \o f = link[3].items
            BY <3>1, <5>1, <5>2
          <5> QED
            BY <1>2, <5>3 DEF Put, Shape
        <4>2. CASE ~link[3].reader
          BY <1>2, <4>2, Puts
        <4> QED
          BY <4>1, <4>2
      <3>3. link' = [link EXCEPT ![Up] = took, ![3] = link[3]]
        BY <1>2, <1>5, <1>9, <2>2
      <3> QED
        BY <3>1, <3>2, <3>3
    <2> QED
      BY <2>1, <2>2
  <1>12. PICK put : put = Put(link[3], f)
    OBVIOUS
  <1>13. link'[Up] = took /\ link'[3] = put /\ \A g \in {1, 2} : g # Up => link'[g] = link[g]
    <2>1. link' = [link EXCEPT ![Up] = took, ![3] = put]
      BY <1>11, <1>12
    <2> QED
      BY ONLY <1>2, <2>1
  <1>14. LinksInTurn'
    BY <1>1, <1>2, <1>10, <1>13 DEF LinksInTurn
  <1>15. Upstream' <= Upstream - 3
    <2>1. /\ Len(Tail(link[Up].items)) = Len(link[Up].items) - 1
          /\ Len(link[Up].items) \in Nat \ {0}
      BY <1>1, <1>2, TailOf
    <2>2. Len(link'[Up].items) = Len(link[Up].items) - 1
      BY <1>10, <1>13, <2>1
    <2>3. PICK k \in Nat, l1 \in Nat : k = 1 /\ l1 = Len(link'[Up].items) /\ l1 <= Len(link[Up].items) - k
      <3>1. PICK l \in Nat \ {0} : l = Len(link[Up].items)
        BY <2>1
      <3>2. l - 1 \in Nat /\ l - 1 <= l - 1 /\ 1 \in Nat
        OBVIOUS
      <3> QED
        BY <2>2, <3>1, <3>2
    <2>4. link'[Up].end = link[Up].end
      BY <1>10, <1>13
    <2>5. Upstream' <= Upstream - 3 * k
      BY <1>1, <1>13, <2>3, <2>4, UpTakes
    <2> QED
      BY <2>3, <2>5
  <1>16. Downstream' <= Downstream + 2
    <2>1. Put(link[3], f).reader = link[3].reader
      BY <1>2, Puts
    <2>2. PICK b \in Nat, b1 \in Nat : b = BrowserLeft /\ b1 = BrowserLeft' /\ b1 <= b + m
      BY <1>11, <1>12, <1>13, <2>1, BrowserGets
    <2>3. ServiceLeft = 2 + 2 * h /\ ServiceLeft' = 2 + 2 * h1
      BY <1>1, <1>8 DEF ServiceLeft
    <2>4. h1 + m <= h + 1 /\ b1 <= b + m
      BY <1>8, <2>2
    <2>5. (2 + 2 * h1) + b1 <= ((2 + 2 * h) + b) + 2
      BY ONLY <2>4, b \in Nat, b1 \in Nat, h \in Nat, h1 \in Nat, m \in Nat
    <2> QED
      BY ONLY <2>2, <2>3, <2>5 DEF Downstream
  <1>17. PICK a \in Int, a1 \in Int, b \in Int, b1 \in Int :
           a = Upstream /\ a1 = Upstream' /\ b = Downstream /\ b1 = Downstream'
    <2>1. Upstream \in Int /\ Downstream \in Int
      BY <1>2 DEF Weighed, Upstream, Downstream
    <2>2. Upstream' \in Int /\ Downstream' \in Int
      BY DEF Weighed, Upstream, Downstream
    <2> QED
      BY <2>1, <2>2
  <1>18. a1 <= a - 3 /\ b1 <= b + 2
    BY <1>15, <1>16, <1>17
  <1>19. a1 + b1 < a + b
    BY ONLY <1>18, a \in Int, a1 \in Int, b \in Int, b1 \in Int
  <1> QED
    BY ONLY <1>14, <1>17, <1>19 DEF WorkLeft

LEMMA GateOn ==
  ASSUME RelayInv, LinksInTurn, Weighed', Gate
  PROVE  LinksInTurn' /\ WorkLeft' < WorkLeft
  <1>1. service = "asked" /\ UNCHANGED <<turn, said, whole, held>>
    BY DEF Gate
  <1>2. agent = "none" /\ link[1] = Closed /\ link[2] = Closed /\ held = <<>>
    BY <1>1 DEF RelayInv, Unasked
  <1>3. /\ Weighed /\ Shape(link[3]) /\ link \in [1..3 -> {link[h] : h \in 1..3}]
        /\ Up \in {1, 2} /\ (turn.direct => Up = 1) /\ (~turn.direct => Up = 2)
    BY RelayIsWeighed, LinkTypes
  <1>4. PICK gr \in Seq(FrameSet) : gr = Greeting /\ Len(gr) <= 1
    <2>1. <<<<"session">>>> \in Seq(FrameSet) /\ <<>> \in Seq(FrameSet)
      BY DEF FrameSet
    <2>2. Len(<<<<"session">>>>) = 1 /\ Len(<<>>) = 0
      OBVIOUS
    <2> QED
      <3>1. CASE turn.streaming
        <4>1. Greeting = <<<<"session">>>>
          BY <3>1 DEF Greeting, Frame
        <4> QED
          BY <2>1, <2>2, <4>1
      <3>2. CASE ~turn.streaming
        <4>1. Greeting = <<>>
          BY <3>2 DEF Greeting
        <4>2. PICK gr \in Seq(FrameSet) : gr = <<>>
          BY <2>1
        <4>3. Len(gr) <= 1
          BY <2>2, <4>2
        <4> QED
          BY <4>1, <4>2, <4>3
      <3> QED
        BY <3>1, <3>2
  <1>5. PICK b \in Nat : b = BrowserLeft
    BY <1>3 DEF Weighed
  <1>6. ServiceLeft = 7 /\ Downstream = 7 + b
    BY <1>1, <1>5 DEF ServiceLeft, Downstream
  <1>7. PICK a \in Int, a1 \in Int : a = Upstream /\ a1 = Upstream'
    BY <1>3 DEF Weighed, Upstream
  <1>8. ASSUME NEW b1 \in Nat, b1 = BrowserLeft', NEW s1 \in Nat, s1 = ServiceLeft',
               a1 + s1 + b1 < a + 7 + b
        PROVE  WorkLeft' < WorkLeft
    <2>3. a1 + s1 + b1 < a + 7 + b
      BY <1>8
    <2>1. a1 + (s1 + b1) < a + (7 + b)
      BY ONLY <2>3, a \in Int, a1 \in Int, b \in Nat, s1 \in Nat, b1 \in Nat
    <2>2. Downstream' = s1 + b1
      BY <1>8 DEF Downstream
    <2> QED
      BY ONLY <1>6, <1>7, <2>1, <2>2 DEF WorkLeft
  <1>9. CASE turn.gate = "pass"
    <2>1. PICK put : put = Put(link[3], gr)
      OBVIOUS
    <2>2. /\ service' = "reading" /\ agent' = (IF turn.direct THEN "none" ELSE "called")
          /\ link' = [link EXCEPT ![Up] = Opened, ![3] = put]
      BY <1>4, <1>9, <2>1 DEF Gate
    <2>3. link'[Up] = Opened /\ link'[3] = put /\ \A g \in {1, 2} : g # Up => link'[g] = link[g]
      BY ONLY <1>3, <2>2
    <2>4. /\ link'[Up].items = <<>> /\ link'[Up].end = "open" /\ link'[Up].reader = TRUE
          /\ link[1].items = <<>> /\ link[1].end = "none" /\ link[1].reader = FALSE
          /\ link[2].items = <<>> /\ link[2].end = "none" /\ link[2].reader = FALSE
      BY <1>2, <2>3, Opens
    <2>5. LinksInTurn'
      BY <1>1, <1>2, <1>3, <2>2, <2>3, <2>4 DEF LinksInTurn
    <2>6. a1 <= a + 3
      <3>1. PICK u \in Nat, w \in Nat : u = turn.pieces - said /\ w = Len(whole)
        BY RelayNumbers
      <3>2. Len(<<>>) = 0
        OBVIOUS
      <3>3. Load(1) = 0 /\ Load(2) = 0 /\ Load(1)' = 0 /\ Load(2)' = 0
        BY <1>3, <2>3, <2>4, <3>2 DEF Load
      <3>4. ModelLeft = 5 * u + 4 * 0 + 0 /\ AgentLeft = 3 * 0 + (3 * w + 0)
        BY <1>2, <2>4, <3>1, <3>3 DEF ModelLeft, AgentLeft, AgentHolds
      <3>5. CASE turn.direct
        <4>1. ModelLeft' = 5 * u + 4 * 0 + 1 /\ AgentLeft' = 3 * 0 + (3 * w + 0)
          BY <1>1, <1>3, <2>2, <2>4, <3>1, <3>3, <3>5 DEF ModelLeft, AgentLeft, AgentHolds
        <4>2. (5 * u + 4 * 0 + 1) + (3 * 0 + (3 * w + 0)) <= ((5 * u + 4 * 0 + 0) + (3 * 0 + (3 * w + 0))) + 3
          BY ONLY u \in Nat, w \in Nat
        <4> QED
          BY ONLY <1>7, <3>4, <4>1, <4>2 DEF Upstream
      <3>6. CASE ~turn.direct
        <4>1. link'[1].end = "none"
          BY <1>3, <2>3, <2>4, <3>6
        <4>2. ModelLeft' = 5 * u + 4 * 0 + 0 /\ AgentLeft' = 3 * 0 + (3 * w + 3)
          BY <1>1, <2>2, <3>1, <3>3, <3>6, <4>1 DEF ModelLeft, AgentLeft, AgentHolds
        <4>3. (5 * u + 4 * 0 + 0) + (3 * 0 + (3 * w + 3)) <= ((5 * u + 4 * 0 + 0) + (3 * 0 + (3 * w + 0))) + 3
          BY ONLY u \in Nat, w \in Nat
        <4> QED
          BY ONLY <1>7, <3>4, <4>2, <4>3 DEF Upstream
      <3> QED
        BY <3>5, <3>6
    <2>7. ServiceLeft' = 2
      <3>1. Len(held') = 0
        BY <1>1, <1>2
      <3> QED
        BY <2>2, <3>1 DEF ServiceLeft
    <2>8. PICK b1 \in Nat : b1 = BrowserLeft' /\ b1 <= b + 1
      <3>1. Put(link[3], gr).reader = link[3].reader
        BY <1>3, Puts
      <3>2. BrowserLeft' <= BrowserLeft + 1 /\ BrowserLeft' \in Nat
        BY <1>4, <2>1, <2>3, <3>1, BrowserGets
      <3> QED
        BY <1>5, <3>2
    <2>10. b1 <= b + 1
      BY <2>8
    <2>9. a1 + 2 + b1 < a + 7 + b
      BY ONLY <2>6, <2>10, a \in Int, a1 \in Int, b \in Nat, b1 \in Nat
    <2> QED
      BY <1>8, <2>5, <2>7, <2>8, <2>9
  <1>10. ASSUME NEW f \in Seq(FrameSet), Len(f) <= 2, NEW how \in {"done", "reset"},
                service' = "over", agent' = agent, link' = [link EXCEPT ![3] = End(Put(@, f), how)]
         PROVE  LinksInTurn' /\ WorkLeft' < WorkLeft
    <2>1. PICK put : put = Put(link[3], f)
      OBVIOUS
    <2>2. Shape(put) /\ put.reader = link[3].reader
      BY <1>3, <2>1, Puts
    <2>3. PICK over : over = End(put, how)
      OBVIOUS
    <2>4. over.reader = put.reader /\ over.items = put.items
      BY <2>2, <2>3, Ends
    <2>5. link'[3] = over /\ link'[1] = link[1] /\ link'[2] = link[2]
      <3>1. link' = [link EXCEPT ![3] = over]
        BY <1>10, <2>1, <2>3
      <3> QED
        BY ONLY <1>3, <3>1
    <2>6. LinksInTurn'
      BY <1>1, <1>2, <1>10, <2>5, Opens DEF LinksInTurn
    <2>7. Upstream' = Upstream
      BY <1>1, <1>10, <2>5, ModelLeftStays, AgentLeftStays DEF Upstream
    <2>8. ServiceLeft' = 0
      BY <1>10 DEF ServiceLeft
    <2>9. PICK b1 \in Nat : b1 = BrowserLeft' /\ b1 <= b + 2
      <3>1. BrowserLeft' <= BrowserLeft + 2 /\ BrowserLeft' \in Nat
        BY <1>10, <2>1, <2>2, <2>4, <2>5, BrowserGets
      <3> QED
        BY <1>5, <3>1
    <2>11. a1 = a /\ b1 <= b + 2
      BY <1>7, <2>7, <2>9
    <2>10. a1 + 0 + b1 < a + 7 + b
      BY ONLY <2>11, a \in Int, a1 \in Int, b \in Nat, b1 \in Nat
    <2> QED
      BY <1>8, <2>6, <2>8, <2>9, <2>10
  <1>11. CASE turn.gate \in {"disabled", "rate_limit"}
    <2>1. PICK v \in FrameSet : v = <<"error", turn.gate>>
      BY <1>11 DEF FrameSet, Errors
    <2>2. PICK f \in Seq(FrameSet) : f = gr \o <<v>> /\ Len(f) <= 2
      <3>1. gr \o <<v>> = Append(gr, v) /\ Append(gr, v) \in Seq(FrameSet) /\ Len(Append(gr, v)) = Len(gr) + 1
        BY Appended
      <3>2. Len(gr) \in Nat
        OBVIOUS
      <3>3. Len(Append(gr, v)) <= 2
        BY <1>4, <3>1, <3>2
      <3> QED
        BY <3>1, <3>3
    <2>3. /\ service' = "over" /\ agent' = agent
          /\ link' = [link EXCEPT ![3] = End(Put(@, Greeting \o Frame(<<"error", turn.gate>>)), "done")]
      BY <1>11 DEF Gate
    <2>4. f = Greeting \o Frame(<<"error", turn.gate>>)
      BY <1>4, <2>1, <2>2 DEF Frame
    <2> QED
      BY <1>10, <2>2, <2>3, <2>4
  <1>12. CASE turn.gate \notin {"pass", "disabled", "rate_limit"}
    <2>1. /\ service' = "over" /\ agent' = agent
          /\ link' = [link EXCEPT ![3] = End(Put(@, Greeting), "reset")]
      BY <1>12 DEF Gate
    <2>2. Len(gr) \in Nat
      OBVIOUS
    <2>3. Len(gr) <= 2
      BY <1>4, <2>2
    <2> QED
      BY <1>4, <1>10, <2>1, <2>3
  <1> QED
    BY <1>9, <1>11, <1>12

LEMMA TurnGoesOn ==
  ASSUME RelayInv, LinksInTurn, Weighed', RelayNext
  PROVE  LinksInTurn' /\ WorkLeft' < WorkLeft
  <1>1. CASE Generate \/ ModelFails
    BY <1>1, ModelGoesOn
  <1>2. CASE AgentRefuses \/ AgentFails \/ AgentCancelled
    <2>1. agent \in {"called", "reading"} /\ AgentStops("reset")
      BY <1>2 DEF AgentRefuses, AgentFails, AgentCancelled
    <2> QED
      BY <2>1, AgentStopsOn
  <1>3. CASE AgentReads \/ AgentSkips
    BY <1>3, AgentTakesOn
  <1>4. CASE AgentStarts \/ AgentEnds
    BY <1>4, AgentEndsOn
  <1>5. CASE Gate
    BY <1>5, GateOn
  <1>6. CASE ServiceReads
    BY <1>6, ServiceReadsOn
  <1>7. CASE ServiceEnds \/ ServiceFails \/ ServiceCancelled
    BY <1>7, ServiceEndsOn
  <1>8. CASE BrowserReads \/ BrowserLeaves
    BY <1>8, BrowserGoesOn
  <1> QED
    BY <1>1, <1>2, <1>3, <1>4, <1>5, <1>6, <1>7, <1>8 DEF RelayNext, AgentStep, ServiceStep

LEMMA TurnStarts == RelayInit => LinksInTurn /\ WorkLeft <= 5 * turn.pieces + 8
  <1> SUFFICES ASSUME RelayInit PROVE LinksInTurn /\ WorkLeft <= 5 * turn.pieces + 8
    OBVIOUS
  <1>1. /\ link[1] = Closed /\ link[2] = Closed /\ link[3] = Opened
        /\ service = "asked" /\ agent = "none" /\ said = 0 /\ whole = <<>>
    BY DEF RelayInit
  <1>2. PICK n \in Nat : n = turn.pieces
    BY RelayStarts, RelayNumbers
  <1>3. LinksInTurn
    BY <1>1, Opens DEF LinksInTurn
  <1>4. Len(<<>>) = 0
    OBVIOUS
  <1>5. Load(1) = 0 /\ Load(2) = 0 /\ Load(3) = 0 /\ link[1].end = "none" /\ link[3].reader = TRUE
    BY <1>1, <1>4, Opens DEF Load
  <1>6. ModelLeft = 5 * n
    BY <1>1, <1>2, <1>5 DEF ModelLeft
  <1>7. AgentLeft = 0
    BY <1>1, <1>4, <1>5 DEF AgentLeft, AgentHolds
  <1>8. ServiceLeft = 7 /\ BrowserLeft = 1
    BY <1>1, <1>5 DEF ServiceLeft, BrowserLeft
  <1> QED
    BY <1>2, <1>3, <1>6, <1>7, <1>8 DEF WorkLeft, Upstream, Downstream

(* Until the turn is over somebody may take a step that waits for nobody.  *)
LEMMA NobodyIsStuck ==
  ASSUME RelayInv, LinksInTurn
  PROVE  TurnOver \/ SomeoneMayStep
  <1> SUFFICES ASSUME ~SomeoneMayStep PROVE TurnOver
    OBVIOUS
  <1>1. /\ agent \in {"none", "called", "reading", "over"} /\ service \in {"asked", "reading", "over"}
        /\ (turn.direct => Up = 1) /\ (~turn.direct => Up = 2)
        /\ link[1].reader \in BOOLEAN /\ link[2].reader \in BOOLEAN
    BY LinkTypes DEF RelayInv, RelayTypes, Shape
  <1>2. agent # "called" /\ service # "asked" /\ link[3].items = <<>>
    BY DEF SomeoneMayStep
  <1>3. agent # "reading"
    <2> SUFFICES ASSUME agent = "reading" PROVE FALSE
      OBVIOUS
    <2>1. link[1].reader /\ link[1].end # "none"
      BY DEF LinksInTurn
    <2> QED
      BY <2>1 DEF SomeoneMayStep, Waiting
  <1>4. service # "reading"
    <2> SUFFICES ASSUME service = "reading" PROVE FALSE
      OBVIOUS
    <2>1. link[Up].reader /\ link[Up].end # "none"
      BY <1>1 DEF LinksInTurn
    <2> QED
      BY <2>1 DEF SomeoneMayStep, Waiting
  <1>5. ~link[1].reader /\ ~link[2].reader
    BY <1>3, <1>4 DEF LinksInTurn
  <1> QED
    BY <1>1, <1>2, <1>3, <1>4, <1>5 DEF TurnOver, LetGo

TurnInv == RelayInv /\ LinksInTurn

LEMMA TurnInvKept == TurnInv /\ [RelayNext]_relayVars => TurnInv'
  <1> SUFFICES ASSUME TurnInv, [RelayNext]_relayVars PROVE TurnInv'
    OBVIOUS
  <1>1. RelayInv'
    BY RelayStepKeeps DEF TurnInv
  <1>2. Weighed'
    BY <1>1, RelayIsWeighed, PTL
  <1>3. CASE RelayNext
    BY <1>1, <1>2, <1>3, TurnGoesOn DEF TurnInv
  <1>4. CASE UNCHANGED relayVars
    <2>1. LinksInTurn'
      BY <1>4 DEF TurnInv, LinksInTurn, relayVars
    <2> QED
      BY <1>1, <2>1 DEF TurnInv
  <1> QED
    BY <1>3, <1>4

TurnMeasured == WorkLeft \in Nat /\ (TurnOver \/ SomeoneMayStep)

LEMMA TurnIsMeasured == TurnInv => TurnMeasured
  <1> SUFFICES ASSUME TurnInv PROVE TurnMeasured
    OBVIOUS
  <1>1. Weighed
    BY RelayIsWeighed DEF TurnInv
  <1>2. WorkLeft \in Nat
    BY <1>1 DEF Weighed, WorkLeft, Upstream, Downstream
  <1> QED
    BY <1>2, NobodyIsStuck DEF TurnInv, TurnMeasured

LEMMA TurnGetsLighter == TurnInv /\ [RelayNext]_relayVars => [WorkLeft' < WorkLeft]_relayVars
  <1> SUFFICES ASSUME TurnInv, RelayNext PROVE WorkLeft' < WorkLeft
    OBVIOUS
  <1>1. RelayInv'
    BY RelayStepKeeps DEF TurnInv
  <1>2. Weighed'
    BY <1>1, RelayIsWeighed, PTL
  <1> QED
    BY <1>2, TurnGoesOn DEF TurnInv

(* A turn of the composer ends: of a reply of n pieces no run has more     *)
(* than 5 n + 8 steps, whatever breaks, is skipped or is cancelled, and    *)
(* until both processes are done, the model is left and the browser has    *)
(* read all, one of them has a step to take that waits for nobody, as      *)
(* every read has a timeout (ai_composer_service.py:530-591,               *)
(* ai_agent_client.py).  That it takes it is what RelayFairness assumes.   *)
THEOREM TurnsEnd ==
  RelaySpec =>
    /\ WorkLeft <= 5 * turn.pieces + 8
    /\ [](WorkLeft \in Nat /\ (TurnOver \/ SomeoneMayStep))
    /\ [][WorkLeft' < WorkLeft]_relayVars
  <1>1. RelayInit => TurnInv /\ WorkLeft <= 5 * turn.pieces + 8
    BY RelayStarts, TurnStarts DEF TurnInv
  <1>2. RelaySpec => /\ WorkLeft <= 5 * turn.pieces + 8
                     /\ []TurnMeasured /\ [][WorkLeft' < WorkLeft]_relayVars
    BY <1>1, TurnInvKept, TurnIsMeasured, TurnGetsLighter, PTL DEF RelaySpec
  <1> QED
    BY <1>2 DEF TurnMeasured


-----------------------------------------------------------------------------
(* The difference of two versions (WorkflowDiff), whatever they hold: lists *)
(* of any length, ids that come twice, edges from anywhere to anywhere.     *)

Listed(v) ==
  /\ DOMAIN v.nodes = 1..Len(v.nodes) /\ Len(v.nodes) \in Nat
  /\ DOMAIN v.edges = 1..Len(v.edges) /\ Len(v.edges) \in Nat

LEMMA VersionsAreListed ==
  ASSUME edit \in Edits
  PROVE  Listed(Before) /\ Listed(After)
  <1>1. ASSUME NEW v, v \in {edit.v1, edit.v2} PROVE Listed(v)
    <2>1. /\ v.nodes \in Seq({v.nodes[k] : k \in DOMAIN v.nodes})
          /\ v.edges \in Seq({v.edges[k] : k \in DOMAIN v.edges})
      BY <1>1, DiffAssumption
    <2>2. \A A : \A s \in Seq(A) : DOMAIN s = 1..Len(s) /\ Len(s) \in Nat
      OBVIOUS
    <2> QED
      BY ONLY <2>1, <2>2 DEF Listed
  <1> QED
    BY <1>1 DEF Before, After

(* A set of positions has a greatest.                                       *)
LEMMA GreatestOf ==
  ASSUME NEW n \in Nat, NEW at \in SUBSET (1..n), at # {}
  PROVE  LET g == CHOOSE k \in at : \A j \in at : j <= k
         IN  g \in at /\ \A j \in at : j <= g
  <1> DEFINE above == {k..n : k \in at}
  <1>1. above \subseteq FiniteSubsetsOf(Nat) /\ above # {}
    <2>1. ASSUME NEW k \in at PROVE k..n \in FiniteSubsetsOf(Nat)
      <3>1. k \in Int /\ n \in Int /\ k..n \in SUBSET Nat
        OBVIOUS
      <3>2. IsFiniteSet(k..n)
        BY <3>1, FS_Interval
      <3> QED
        BY <3>1, <3>2 DEF FiniteSubsetsOf
    <2> QED
      BY <2>1
  <1>2. \E x \in above : \A y \in above : <<y, x>> \notin StrictSubsetOrdering(Nat)
    <2> HIDE DEF above
    <2> QED
      BY <1>1, FS_StrictSubsetOrderingWellFounded, WFMin
  <1>3. PICK g \in at : \A y \in above : <<y, g..n>> \notin StrictSubsetOrdering(Nat)
    BY <1>2
  <1>4. ASSUME NEW j \in at PROVE j <= g
    <2>1. j..n \in SUBSET Nat /\ g..n \in SUBSET Nat
      OBVIOUS
    <2>2. ~(j..n \subseteq g..n /\ j..n # g..n)
      BY <1>3, <2>1 DEF StrictSubsetOrdering
    <2>3. ASSUME g < j PROVE FALSE
      BY <2>2, <2>3
    <2> QED
      BY <2>3
  <1> QED
    BY <1>4

(* The node of an id is in the list, and the last that has it.              *)
LEMMA NodeOfId ==
  ASSUME NEW v, Listed(v), NEW i \in IdsOf(v)
  PROVE  NodeOf(v, i).id = i /\ \E k \in DOMAIN v.nodes : NodeOf(v, i) = v.nodes[k]
  <1> DEFINE at == {k \in DOMAIN v.nodes : v.nodes[k].id = i}
             g  == CHOOSE k \in at : \A j \in at : j <= k
  <1>1. at \in SUBSET (1..Len(v.nodes)) /\ at # {}
    BY DEF IdsOf, Listed
  <1>2. NodeOf(v, i) = v.nodes[g]
    BY DEF NodeOf
  <1> HIDE DEF at, g
  <1>3. g \in at
    BY <1>1, GreatestOf DEF g, Listed
  <1> QED
    BY <1>2, <1>3 DEF at

LEMMA ListsAreFinite ==
  ASSUME NEW v, Listed(v)
  PROVE  IsFiniteSet(IdsOf(v)) /\ IsFiniteSet(EdgeSet(v))
  <1> DEFINE f == [k \in 1..Len(v.nodes) |-> v.nodes[k].id]
             g == [k \in 1..Len(v.edges) |-> <<v.edges[k].source, v.edges[k].target>>]
  <1>1. IsFiniteSet(1..Len(v.nodes)) /\ IsFiniteSet(1..Len(v.edges))
    BY FS_Interval DEF Listed
  <1>2. f \in Surjection(1..Len(v.nodes), IdsOf(v))
    BY DEF IdsOf, Surjection, Listed
  <1>3. g \in Surjection(1..Len(v.edges), EdgeSet(v))
    BY DEF EdgeSet, Surjection, Listed
  <1> HIDE DEF f, g
  <1> QED
    BY <1>1, <1>2, <1>3, FS_Surjection

(* A finite set as a list has every element in it, and nothing else.        *)
LEMMA ListOfSet ==
  ASSUME NEW S, IsFiniteSet(S)
  PROVE  /\ DOMAIN SetToSeq(S) = 1..Len(SetToSeq(S)) /\ Len(SetToSeq(S)) \in Nat
         /\ {SetToSeq(S)[k] : k \in DOMAIN SetToSeq(S)} = S
  <1>1. PICK n \in Nat : n = Cardinality(S) /\ ExistsBijection(1..n, S)
    BY FS_CardinalityType
  <1>2. \E f \in [1..n -> S] : IsInjective(f)
    BY <1>1 DEF ExistsBijection, Bijection, Injection
  <1>3. PICK f : f = SetToSeq(S)
    OBVIOUS
  <1>4. f \in [1..n -> S] /\ IsInjective(f)
    BY <1>1, <1>2, <1>3 DEF SetToSeq
  <1>5. f \in Injection(1..n, S)
    BY <1>4 DEF Injection
  <1>6. Cardinality(1..n) = n
    BY FS_Interval
  <1>7. f \in Surjection(1..n, S)
    BY <1>1, <1>5, <1>6, FS_Injection
  <1>8. f \in Seq(S) /\ Len(f) = n
    BY <1>4
  <1>9. {f[k] : k \in DOMAIN f} = S
    BY <1>4, <1>7 DEF Surjection
  <1> QED
    BY <1>3, <1>4, <1>8, <1>9

LEMMA SameKeys ==
  ASSUME NEW b, NEW a
  PROVE  /\ ChangedKeys(b, a) = {} <=> ChangedKeys(a, b) = {}
         /\ ChangedKeys(b, a) = {} <=>
              b.type = a.type /\ \A key \in ConfigKeys : Get(b, key) = Get(a, key)
  BY DEF ChangedKeys

(* What a version means, one part at a time.                                *)
SameNode(n, m) == n.type = m.type /\ \A key \in ConfigKeys : Get(n, key) = Get(m, key)

SameParts(v, w) ==
  /\ IdsOf(v) = IdsOf(w) /\ EdgeSet(v) = EdgeSet(w)
  /\ \A i \in IdsOf(w) : SameNode(NodeOf(v, i), NodeOf(w, i))

LEMMA MeaningByParts ==
  ASSUME NEW v, NEW w
  PROVE  Meaning(v) = Meaning(w) <=> SameParts(v, w)
  <1> DEFINE Values(n) == [key \in ConfigKeys |-> Get(n, key)]
             Node(n)   == [type |-> n.type, config |-> Values(n)]
             Nodes(x)  == [i \in IdsOf(x) |-> Node(NodeOf(x, i))]
  <1>1. \A n, m : Values(n) = Values(m) <=> \A key \in ConfigKeys : Get(n, key) = Get(m, key)
    <2> SUFFICES ASSUME NEW n, NEW m
                 PROVE  Values(n) = Values(m) <=> \A key \in ConfigKeys : Get(n, key) = Get(m, key)
      OBVIOUS
    <2>1. ASSUME Values(n) = Values(m), NEW key \in ConfigKeys PROVE Get(n, key) = Get(m, key)
      <3>1. Values(n)[key] = Get(n, key) /\ Values(m)[key] = Get(m, key)
        OBVIOUS
      <3> QED
        BY ONLY <2>1, <3>1
    <2>2. ASSUME \A key \in ConfigKeys : Get(n, key) = Get(m, key) PROVE Values(n) = Values(m)
      BY <2>2
    <2> QED
      BY <2>1, <2>2
  <1> HIDE DEF Values
  <1>2. \A n, m : Node(n) = Node(m) <=> n.type = m.type /\ Values(n) = Values(m)
    OBVIOUS
  <1>3. \A n, m : Node(n) = Node(m) <=> SameNode(n, m)
    BY <1>1, <1>2 DEF SameNode
  <1> HIDE DEF Node
  <1>4. Nodes(v) = Nodes(w) <=>
          IdsOf(v) = IdsOf(w) /\ \A i \in IdsOf(w) : Node(NodeOf(v, i)) = Node(NodeOf(w, i))
    <2>1. ASSUME Nodes(v) = Nodes(w)
          PROVE  IdsOf(v) = IdsOf(w) /\ \A i \in IdsOf(w) : Node(NodeOf(v, i)) = Node(NodeOf(w, i))
      <3>1. IdsOf(v) = DOMAIN Nodes(v) /\ IdsOf(w) = DOMAIN Nodes(w)
        OBVIOUS
      <3>2. IdsOf(v) = IdsOf(w)
        BY ONLY <2>1, <3>1
      <3>3. \A i \in IdsOf(w) : Nodes(w)[i] = Node(NodeOf(w, i)) /\ Nodes(v)[i] = Node(NodeOf(v, i))
        BY <3>2
      <3> QED
        BY ONLY <2>1, <3>2, <3>3
    <2>2. ASSUME IdsOf(v) = IdsOf(w), \A i \in IdsOf(w) : Node(NodeOf(v, i)) = Node(NodeOf(w, i))
          PROVE  Nodes(v) = Nodes(w)
      BY <2>2
    <2> QED
      BY <2>1, <2>2
  <1>5. /\ Meaning(v) = [nodes |-> Nodes(v), edges |-> EdgeSet(v)]
        /\ Meaning(w) = [nodes |-> Nodes(w), edges |-> EdgeSet(w)]
    BY DEF Meaning, Node, Values
  <1> HIDE DEF Nodes
  <1>6. Meaning(v) = Meaning(w) <=> Nodes(v) = Nodes(w) /\ EdgeSet(v) = EdgeSet(w)
    BY <1>5
  <1> QED
    BY <1>3, <1>4, <1>6 DEF SameParts

LEMMA KeysTell ==
  ASSUME NEW b, NEW a
  PROVE  ChangedKeys(b, a) = {} <=> SameNode(b, a)
  BY SameKeys DEF SameNode

LEMMA EmptyByParts ==
  ASSUME NEW v, NEW w
  PROVE  IsEmpty(Diff(v, w)) <=>
           SameParts(v, w) /\ Order(v, IdsOf(v) \cap IdsOf(w)) = Order(w, IdsOf(v) \cap IdsOf(w))
  <1> DEFINE common == IdsOf(v) \cap IdsOf(w)
             d == Diff(v, w)
  <1>1. /\ d.added = {NodeOf(w, i) : i \in IdsOf(w) \ IdsOf(v)}
        /\ d.removed = {NodeOf(v, i) : i \in IdsOf(v) \ IdsOf(w)}
        /\ d.modified = {[id |-> i, before |-> NodeOf(v, i), after |-> NodeOf(w, i),
                          keys |-> ChangedKeys(NodeOf(v, i), NodeOf(w, i))] :
                           i \in {j \in common : ChangedKeys(NodeOf(v, j), NodeOf(w, j)) # {}}}
        /\ d.edgesAdded = EdgeSet(w) \ EdgeSet(v) /\ d.edgesRemoved = EdgeSet(v) \ EdgeSet(w)
        /\ d.reordered = (Order(v, common) # Order(w, common))
    BY DEF Diff
  <1> HIDE DEF d
  <1>2. d.added = {} <=> IdsOf(w) \subseteq IdsOf(v)
    BY <1>1
  <1>3. d.removed = {} <=> IdsOf(v) \subseteq IdsOf(w)
    BY <1>1
  <1>4. d.modified = {} <=> \A j \in common : SameNode(NodeOf(v, j), NodeOf(w, j))
    <2>1. d.modified = {} <=> \A j \in common : ChangedKeys(NodeOf(v, j), NodeOf(w, j)) = {}
      <3> DEFINE K == {j \in common : ChangedKeys(NodeOf(v, j), NodeOf(w, j)) # {}}
      <3>1. d.modified = {} <=> K = {}
        <4> HIDE DEF common
        <4>1. d.modified = {[id |-> i, before |-> NodeOf(v, i), after |-> NodeOf(w, i),
                             keys |-> ChangedKeys(NodeOf(v, i), NodeOf(w, i))] : i \in K}
          BY <1>1
        <4> HIDE DEF K
        <4> QED
          BY ONLY <4>1
      <3> QED
        BY <3>1
    <2> QED
      BY <2>1, KeysTell
  <1>5. d.edgesAdded = {} /\ d.edgesRemoved = {} <=> EdgeSet(v) = EdgeSet(w)
    BY <1>1
  <1>6. ~d.reordered <=> Order(v, common) = Order(w, common)
    BY <1>1
  <1>7. IsEmpty(d) <=> /\ IdsOf(v) = IdsOf(w) /\ EdgeSet(v) = EdgeSet(w)
                       /\ \A j \in common : SameNode(NodeOf(v, j), NodeOf(w, j))
                       /\ Order(v, common) = Order(w, common)
    BY <1>2, <1>3, <1>4, <1>5, <1>6 DEF IsEmpty
  <1>8. IdsOf(v) = IdsOf(w) => common = IdsOf(w)
    OBVIOUS
  <1> QED
    BY <1>7, <1>8 DEF SameParts, d

LEMMA PatchedMeans ==
  ASSUME NEW v, NEW w, Listed(v), Listed(w)
  PROVE  Meaning(Patched(v, Diff(v, w))) = Meaning(w)
  <1> DEFINE d == Diff(v, w)
             M == {i \in IdsOf(v) \cap IdsOf(w) : ChangedKeys(NodeOf(v, i), NodeOf(w, i)) # {}}
             N == (IdsOf(w) \ IdsOf(v)) \union M
             P == [i \in IdsOf(w) |-> IF i \in N THEN NodeOf(w, i) ELSE NodeOf(v, i)]
             new == d.added \union {m.after : m \in d.modified}
             old == {NodeOf(v, i) : i \in (IdsOf(v) \ {n.id : n \in new}) \ {n.id : n \in d.removed}}
             S == {P[i] : i \in IdsOf(w)}
             E == {[source |-> e[1], target |-> e[2]] : e \in (EdgeSet(v) \ d.edgesRemoved) \union d.edgesAdded}
             q == Patched(v, d)
  <1>1. /\ \A i \in IdsOf(v) : NodeOf(v, i).id = i
        /\ \A i \in IdsOf(w) : NodeOf(w, i).id = i
    BY NodeOfId
  <1>2. /\ d.added = {NodeOf(w, i) : i \in IdsOf(w) \ IdsOf(v)}
        /\ d.removed = {NodeOf(v, i) : i \in IdsOf(v) \ IdsOf(w)}
        /\ d.modified = {[id |-> i, before |-> NodeOf(v, i), after |-> NodeOf(w, i),
                          keys |-> ChangedKeys(NodeOf(v, i), NodeOf(w, i))] : i \in M}
        /\ d.edgesAdded = EdgeSet(w) \ EdgeSet(v) /\ d.edgesRemoved = EdgeSet(v) \ EdgeSet(w)
    BY DEF Diff
  <1>3. q.nodes = SetToSeq(old \union new) /\ q.edges = SetToSeq(E)
    BY DEF Patched
  <1> HIDE DEF d, q
  <1>4. new = {NodeOf(w, i) : i \in N}
    <2>1. {m.after : m \in d.modified} = {NodeOf(w, i) : i \in M}
      <3> DEFINE R(i) == [id |-> i, before |-> NodeOf(v, i), after |-> NodeOf(w, i),
                          keys |-> ChangedKeys(NodeOf(v, i), NodeOf(w, i))]
      <3>1. \A i \in M : R(i).after = NodeOf(w, i)
        OBVIOUS
      <3>2. d.modified = {R(i) : i \in M}
        BY <1>2
      <3> HIDE DEF M, R
      <3> QED
        BY ONLY <3>1, <3>2
    <2> QED
      BY <1>2, <2>1
  <1> HIDE DEF new
  <1>5. {n.id : n \in new} = N /\ {n.id : n \in d.removed} = IdsOf(v) \ IdsOf(w)
    <2>1. N \subseteq IdsOf(w)
      OBVIOUS
    <2> HIDE DEF N
    <2> QED
      BY <1>1, <1>2, <1>4, <2>1
  <1>6. old = {NodeOf(v, i) : i \in IdsOf(w) \ N}
    <2>1. (IdsOf(v) \ N) \ (IdsOf(v) \ IdsOf(w)) = IdsOf(w) \ N
      OBVIOUS
    <2> QED
      BY <1>5, <2>1
  <1> HIDE DEF old
  <1>7. old \union new = S
    <2>1. N \subseteq IdsOf(w)
      OBVIOUS
    <2> HIDE DEF N
    <2> QED
      BY <1>4, <1>6, <2>1
  <1>8. \A i \in IdsOf(w) : P[i].id = i
    BY <1>1
  <1>9. \A i \in IdsOf(w) : SameNode(P[i], NodeOf(w, i))
    <2> SUFFICES ASSUME NEW i \in IdsOf(w) PROVE SameNode(P[i], NodeOf(w, i))
      OBVIOUS
    <2>1. CASE i \in N
      BY <2>1 DEF SameNode
    <2>2. CASE i \notin N
      <3>1. ChangedKeys(NodeOf(v, i), NodeOf(w, i)) = {}
        BY <2>2
      <3> QED
        BY <2>2, <3>1, KeysTell
    <2> QED
      BY <2>1, <2>2
  <1>10. IsFiniteSet(S)
    <2>1. P \in Surjection(IdsOf(w), S)
      <3> HIDE DEF N
      <3> QED
        BY DEF Surjection
    <2> HIDE DEF P, S
    <2> QED
      BY <2>1, ListsAreFinite, FS_Surjection
  <1> HIDE DEF P, N, M
  <1>11. /\ DOMAIN q.nodes = 1..Len(q.nodes) /\ Len(q.nodes) \in Nat
         /\ {q.nodes[k] : k \in DOMAIN q.nodes} = S
    <2> HIDE DEF S
    <2>1. q.nodes = SetToSeq(S)
      BY ONLY <1>3, <1>7
    <2>2. /\ DOMAIN SetToSeq(S) = 1..Len(SetToSeq(S)) /\ Len(SetToSeq(S)) \in Nat
          /\ {SetToSeq(S)[k] : k \in DOMAIN SetToSeq(S)} = S
      BY ONLY <1>10, ListOfSet
    <2> QED
      BY ONLY <2>1, <2>2
  <1>12. /\ DOMAIN q.edges = 1..Len(q.edges) /\ Len(q.edges) \in Nat
         /\ {q.edges[k] : k \in DOMAIN q.edges} = E
    <2>1. (EdgeSet(v) \ d.edgesRemoved) \union d.edgesAdded = EdgeSet(w)
      BY <1>2
    <2>2. IsFiniteSet(E)
      <3> DEFINE f == [e \in EdgeSet(w) |-> [source |-> e[1], target |-> e[2]]]
      <3>1. f \in Surjection(EdgeSet(w), E)
        BY <2>1 DEF Surjection
      <3> HIDE DEF f, E
      <3> QED
        BY <3>1, ListsAreFinite, FS_Surjection
    <2> HIDE DEF E
    <2> QED
      BY <1>3, <2>2, ListOfSet
  <1>13. Listed(q)
    BY <1>11, <1>12 DEF Listed
  <1>14. IdsOf(q) = IdsOf(w)
    <2>1. IdsOf(q) = {n.id : n \in {q.nodes[k] : k \in DOMAIN q.nodes}}
      BY DEF IdsOf
    <2>2. {n.id : n \in S} = IdsOf(w)
      BY <1>8
    <2> HIDE DEF S
    <2> QED
      BY <1>11, <2>1, <2>2
  <1>15. \A i \in IdsOf(w) : NodeOf(q, i) = P[i]
    <2> SUFFICES ASSUME NEW i \in IdsOf(w) PROVE NodeOf(q, i) = P[i]
      OBVIOUS
    <2>1. NodeOf(q, i).id = i /\ NodeOf(q, i) \in {q.nodes[k] : k \in DOMAIN q.nodes}
      BY <1>13, <1>14, NodeOfId
    <2>2. PICK j \in IdsOf(w) : NodeOf(q, i) = P[j]
      BY <1>11, <2>1
    <2> QED
      BY <1>8, <2>1, <2>2
  <1>16. EdgeSet(q) = EdgeSet(w)
    <2>1. (EdgeSet(v) \ d.edgesRemoved) \union d.edgesAdded = EdgeSet(w)
      BY <1>2
    <2>2. EdgeSet(q) = {<<f.source, f.target>> : f \in {q.edges[k] : k \in DOMAIN q.edges}}
      BY DEF EdgeSet
    <2>3. EdgeSet(q) = {<<f.source, f.target>> : f \in E}
      BY ONLY <1>12, <2>2
    <2> DEFINE R(e) == [source |-> e[1], target |-> e[2]]
    <2>4. E = {R(e) : e \in EdgeSet(w)}
      BY <2>1
    <2>5. \A e \in EdgeSet(w) : e = <<e[1], e[2]>>
      BY DEF EdgeSet
    <2>6. \A e \in EdgeSet(w) : <<R(e).source, R(e).target>> = e
      <3>1. \A e \in EdgeSet(w) : R(e).source = e[1] /\ R(e).target = e[2]
        OBVIOUS
      <3> HIDE DEF R
      <3> QED
        BY ONLY <2>5, <3>1
    <2> HIDE DEF E, R
    <2>7. {<<f.source, f.target>> : f \in {R(e) : e \in EdgeSet(w)}} = {<<R(e).source, R(e).target>> : e \in EdgeSet(w)}
      OBVIOUS
    <2>8. {<<R(e).source, R(e).target>> : e \in EdgeSet(w)} = {e : e \in EdgeSet(w)}
      BY ONLY <2>6
    <2> QED
      BY ONLY <2>3, <2>4, <2>7, <2>8
  <1>17. SameParts(q, w)
    BY <1>9, <1>14, <1>15, <1>16 DEF SameParts
  <1> QED
    BY <1>17, MeaningByParts DEF q, d

DiffInv ==
  /\ edit \in Edits
  /\ stage \in {"diffed", "proposed"} => ~candidate.accepted
  /\ stage = "proposed" => ~IsEmpty(Diff(Before, After))
  /\ candidate.accepted => candidate.hash \notin rejected /\ ~IsEmpty(Diff(Before, After))

LEMMA CandidateHas ==
  ASSUME NEW a \in BOOLEAN, NEW r, NEW h
  PROVE  Candidate(a, r, h).accepted = a /\ Candidate(a, r, h).hash = h
  BY DEF Candidate

LEMMA DiffInvHolds == DiffSpec => []DiffInv
  <1>1. DiffInit => DiffInv
    <2>1. Pending.accepted = FALSE
      BY CandidateHas DEF Pending
    <2>2. ASSUME DiffInit PROVE ~candidate.accepted
      BY <2>1, <2>2 DEF DiffInit
    <2>3. DiffInit => edit \in Edits /\ stage = "diffed"
      BY DEF DiffInit
    <2> QED
      BY <2>2, <2>3 DEF DiffInv
  <1>2. DiffInv /\ [DiffNext]_diffVars => DiffInv'
    <2> SUFFICES ASSUME DiffInv, [DiffNext]_diffVars PROVE DiffInv'
      OBVIOUS
    <2>1. edit' = edit => (IsEmpty(Diff(Before, After)) <=> IsEmpty(Diff(Before, After)'))
      BY DEF Before, After
    <2>2. CASE ProposeHint
      <3>1. edit' = edit /\ rejected' = rejected /\ stage = "diffed"
        BY <2>2 DEF ProposeHint
      <3>2. CASE stage' = "over" /\ ~candidate'.accepted
        BY <3>1, <3>2 DEF DiffInv
      <3>3. CASE stage' = "proposed" /\ candidate' = candidate /\ ~IsEmpty(Diff(Before, After))
        BY <2>1, <3>1, <3>3 DEF DiffInv
      <3>4. \A r : ~Candidate(FALSE, r, <<>>).accepted
        BY CandidateHas
      <3>5. \/ \E r : stage' = "over" /\ candidate' = Candidate(FALSE, r, <<>>)
            \/ stage' = "proposed" /\ candidate' = candidate /\ ~IsEmpty(Diff(Before, After))
        BY <2>2 DEF ProposeHint, Return
      <3> QED
        BY <3>2, <3>3, <3>4, <3>5
    <2>3. CASE JudgeProposal
      <3>1. edit' = edit /\ stage = "proposed" /\ stage' = "over"
        BY <2>3 DEF JudgeProposal, Return
      <3>2. candidate'.accepted => candidate'.hash \notin rejected'
        <4>1. PICK h : h = SuggestionHash(hint, Diff(Before, After))
          OBVIOUS
        <4>2. CASE h \in rejected' /\ candidate' = Candidate(FALSE, "hash_previously_rejected", h)
          BY <4>2, CandidateHas
        <4>3. ASSUME NEW a \in BOOLEAN, h \notin rejected',
                     candidate' = Candidate(a, IF a THEN "" ELSE "judge_reject", h)
              PROVE  candidate'.hash \notin rejected'
          <5>1. PICK r : candidate' = Candidate(a, r, h)
            BY ONLY <4>3
          <5>2. Candidate(a, r, h).hash = h
            BY DEF Candidate
          <5> QED
            BY ONLY <4>3, <5>1, <5>2
        <4> QED
          BY <2>3, <4>1, <4>2, <4>3 DEF JudgeProposal, Return
      <3> QED
        BY <2>1, <3>1, <3>2 DEF DiffInv
    <2>4. CASE UNCHANGED diffVars
      BY <2>1, <2>4 DEF diffVars, DiffInv, Before, After
    <2> QED
      BY <2>2, <2>3, <2>4 DEF DiffNext
  <1> QED
    BY <1>1, <1>2, PTL DEF DiffSpec

(* The difference of two versions loses nothing and finds nothing that is   *)
(* not there (diff_workflows); a candidate that is accepted has a           *)
(* difference and a hash nobody has rejected (propose_candidate).           *)
THEOREM NothingIsLostInADiff == DiffSpec => []DiffExact
  <1>1. DiffInv => DiffExact
    <2> SUFFICES ASSUME DiffInv PROVE DiffExact
      OBVIOUS
    <2> DEFINE d    == Diff(Before, After)
               back == Diff(After, Before)
               both == IdsOf(Before) \cap IdsOf(After)
    <2>1. Listed(Before) /\ Listed(After)
      BY VersionsAreListed DEF DiffInv
    <2>2. Meaning(Patched(Before, d)) = Meaning(After)
      BY <2>1, PatchedMeans
    <2>3. back.added = d.removed /\ back.removed = d.added
      BY DEF Diff
    <2>4. IsEmpty(d) <=> SameParts(Before, After) /\ Order(Before, both) = Order(After, both)
      BY EmptyByParts
    <2>5. IsEmpty(back) <=> SameParts(After, Before) /\ Order(After, both) = Order(Before, both)
      <3>1. IdsOf(After) \cap IdsOf(Before) = both
        OBVIOUS
      <3>2. IsEmpty(back) <=> SameParts(After, Before) /\ Order(After, IdsOf(After) \cap IdsOf(Before)) = Order(Before, IdsOf(After) \cap IdsOf(Before))
        BY EmptyByParts
      <3> HIDE DEF both, back
      <3> QED
        BY ONLY <3>1, <3>2
    <2>6. SameParts(Before, After) <=> Meaning(Before) = Meaning(After)
      BY MeaningByParts
    <2>7. SameParts(After, Before) <=> Meaning(After) = Meaning(Before)
      BY MeaningByParts
    <2>8. SameParts(Before, After) => both = IdsOf(Before) /\ both = IdsOf(After)
      BY DEF SameParts
    <2>9. candidate.accepted => candidate.hash \notin rejected /\ ~IsEmpty(d)
      BY DEF DiffInv
    <2>10. DiffExact <=>
             /\ stage = "diffed" =>
                  /\ Meaning(Patched(Before, d)) = Meaning(After)
                  /\ back.added = d.removed /\ back.removed = d.added
                  /\ IsEmpty(d) <=> IsEmpty(back)
                  /\ IsEmpty(d) => Meaning(Before) = Meaning(After)
                  /\ Meaning(Before) = Meaning(After) /\ Unrepeated(Before) /\ Unrepeated(After) =>
                       (IsEmpty(d) <=> Order(Before, IdsOf(Before)) = Order(After, IdsOf(After)))
             /\ candidate.accepted => candidate.hash \notin rejected /\ ~IsEmpty(d)
      BY DEF DiffExact
    <2> HIDE DEF d, back, both
    <2>11. IsEmpty(d) <=> IsEmpty(back)
      BY ONLY <2>4, <2>5, <2>6, <2>7
    <2>12. Meaning(Before) = Meaning(After) =>
             (IsEmpty(d) <=> Order(Before, IdsOf(Before)) = Order(After, IdsOf(After)))
      BY ONLY <2>4, <2>6, <2>8
    <2> QED
      BY ONLY <2>2, <2>3, <2>4, <2>6, <2>9, <2>10, <2>11, <2>12
  <1> QED
    BY <1>1, DiffInvHolds, PTL

-----------------------------------------------------------------------------
(* A document in pieces.                                                   *)
LEMMA MaxMinOf ==
  ASSUME NEW n \in Nat, NEW S \in SUBSET (1..n), S # {}
  PROVE  /\ Max(S) \in S /\ \A x \in S : x <= Max(S)
         /\ Min(S) \in S /\ \A x \in S : Min(S) <= x
  <1>1. PICK g \in S : \A j \in S : j <= g
    BY GreatestOf
  <1>2. Max(S) \in S /\ \A x \in S : Max(S) >= x
    <2>1. \A j \in S : g >= j
      BY <1>1
    <2> QED
      BY <2>1 DEF Max
  <1> DEFINE T == {n + 1 - x : x \in S}
  <1>3. T \in SUBSET (1..n) /\ T # {}
    OBVIOUS
  <1>4. PICK h \in T : \A j \in T : j <= h
    <2> HIDE DEF T
    <2> QED
      BY <1>3, GreatestOf
  <1>5. PICK m \in S : h = n + 1 - m
    BY <1>4
  <1>6. \A x \in S : m <= x
    <2> SUFFICES ASSUME NEW x \in S PROVE m <= x
      OBVIOUS
    <2>1. n + 1 - x <= h
      BY <1>4
    <2> QED
      BY <2>1, <1>5
  <1>7. Min(S) \in S /\ \A x \in S : Min(S) <= x
    BY <1>6 DEF Min
  <1>8. \A x \in S : x <= Max(S)
    <2> SUFFICES ASSUME NEW x \in S PROVE x <= Max(S)
      OBVIOUS
    <2>1. PICK y \in 1..n : y = Max(S)
      BY <1>2
    <2>2. x \in 1..n /\ y >= x
      BY <1>2, <2>1
    <2>3. x <= y
      BY <2>2
    <2> QED
      BY <2>1, <2>3
  <1> QED
    BY <1>2, <1>7, <1>8

LEMMA CharactersOf ==
  ASSUME NEW t \in Seq(STRING)
  PROVE  /\ Len(t) \in Nat /\ DOMAIN t = 1..Len(t)
         /\ Solid(t) \in SUBSET (1..Len(t)) /\ \A k \in Solid(t) : k \in Int
  BY DEF Solid

LEMMA StripTypes ==
  ASSUME NEW text \in Seq(STRING)
  PROVE  Strip(text) \in Seq(STRING)
  <1>1. CASE Solid(text) = {}
    BY <1>1 DEF Strip
  <1>2. CASE Solid(text) # {}
    <2>1. Min(Solid(text)) \in 1..Len(text) /\ Max(Solid(text)) \in 1..Len(text)
      BY <1>2, CharactersOf, MaxMinOf
    <2>2. SubSeq(text, Min(Solid(text)), Max(Solid(text))) \in Seq(STRING)
      BY <2>1
    <2> QED
      BY <1>2, <2>2 DEF Strip
  <1> QED
    BY <1>1, <1>2

(* A window is not empty, and no longer than asked for.                    *)
LEMMA WindowEnds ==
  ASSUME NEW t \in Seq(STRING), NEW size \in Nat, size > 0, NEW start \in 0..Len(t)
  PROVE  /\ WindowEnd(t, size, start) \in Int
         /\ start < WindowEnd(t, size, start) /\ WindowEnd(t, size, start) <= start + size
  <1> DEFINE end == start + size
             low == start + (size * 3) \div 4
             blanks == {p \in low..(end - 2) : p > start /\ t[p + 1] = "n" /\ t[p + 2] = "n"}
  <1>1. Len(t) \in Nat /\ end \in Int /\ low \in Int /\ start < end /\ start \in Nat
    <2>1. (size * 3) \div 4 \in Int
      OBVIOUS
    <2> QED
      BY <2>1
  <1>2. WindowEnd(t, size, start) = (IF end < Len(t) /\ blanks # {} THEN Max(blanks) ELSE end)
    BY DEF WindowEnd
  <1> HIDE DEF low
  <1>3. CASE end < Len(t) /\ blanks # {}
    <2>1. ASSUME NEW p \in blanks
          PROVE  p \in Int /\ p > start /\ p <= end - 2
      BY <1>1
    <2> HIDE DEF blanks
    <2>2. blanks \in SUBSET (1..Len(t))
      <3> SUFFICES ASSUME NEW p \in blanks PROVE p \in 1..Len(t)
        OBVIOUS
      <3>1. p \in Int /\ p > start /\ p <= end - 2
        BY <2>1
      <3> HIDE DEF end
      <3> QED
        BY <3>1, <1>1, <1>3
    <2>3. Max(blanks) \in blanks
      BY <2>2, <1>1, <1>3, MaxMinOf
    <2>4. Max(blanks) \in Int /\ Max(blanks) > start /\ Max(blanks) <= end - 2
      BY <2>1, <2>3
    <2> QED
      BY <1>1, <1>2, <1>3, <2>4
  <1>4. CASE ~(end < Len(t) /\ blanks # {})
    BY <1>1, <1>2, <1>4
  <1> QED
    BY <1>3, <1>4

(* The next window begins after this one began, and not after it ended.    *)
LEMMA NextStarts ==
  ASSUME NEW start \in Int, NEW end \in Int, NEW overlap \in Nat, start < end
  PROVE  /\ NextStart(start, end, overlap) \in Int
         /\ start < NextStart(start, end, overlap) /\ NextStart(start, end, overlap) <= end
  <1> DEFINE a == end - overlap
             b == start + 1
  <1>1. a \in Int /\ b \in Int /\ a <= end /\ start < b /\ b <= end
    OBVIOUS
  <1>2. NextStart(start, end, overlap) = Max({a, b})
    BY DEF NextStart
  <1> HIDE DEF a, b
  <1>3. \E x \in {a, b} : \A y \in {a, b} : x >= y
    BY <1>1
  <1>4. Max({a, b}) \in {a, b} /\ \A y \in {a, b} : Max({a, b}) >= y
    BY <1>3 DEF Max
  <1>5. PICK x : x = Max({a, b})
    OBVIOUS
  <1>6. (x = a \/ x = b) /\ x >= b
    BY <1>4, <1>5
  <1> QED
    BY <1>1, <1>2, <1>5, <1>6

(* The pieces of what comes after a characters: they cover it, in order.   *)
PiecesOf(ps, t, a, size) ==
  /\ ps \in Seq([from : Solid(t), to : Solid(t)])
  /\ \A c \in DOMAIN ps : ps[c].from > a /\ ps[c].to - ps[c].from < size
  /\ \A c, d \in DOMAIN ps : c <= d => ps[c].from <= ps[d].from
Covers(ps, t, a, b) ==
  \A k \in Solid(t) : k > a /\ k <= b => \E c \in DOMAIN ps : k \in ps[c].from..ps[c].to

LEMMA PieceExact ==
  ASSUME NEW t \in Seq(STRING), NEW start \in Nat, NEW end \in Int, NEW size \in Nat,
         end <= start + size
  PROVE  PiecesOf(Piece(t, start, end), t, start, size) /\ Covers(Piece(t, start, end), t, start, end)
  <1> DEFINE solid == {k \in Solid(t) : k > start /\ k <= end}
             p == Piece(t, start, end)
             r == [from |-> Min(solid), to |-> Max(solid)]
  <1>1. CASE solid = {}
    <2>1. p = <<>>
      BY <1>1 DEF Piece
    <2>2. PiecesOf(<<>>, t, start, size)
      BY DEF PiecesOf
    <2>3. Covers(<<>>, t, start, end)
      BY <1>1 DEF Covers
    <2> QED
      BY <2>1, <2>2, <2>3
  <1>2. CASE solid # {}
    <2>1. p = <<r>>
      BY <1>2 DEF Piece
    <2>2. solid \in SUBSET (1..Len(t)) /\ Len(t) \in Nat
      BY CharactersOf
    <2>3. /\ Min(solid) \in solid /\ Max(solid) \in solid
          /\ \A k \in solid : Min(solid) <= k /\ k <= Max(solid)
      <3> HIDE DEF solid
      <3> QED
        BY <2>2, <1>2, MaxMinOf
    <2>4. PICK i, j : i = Min(solid) /\ j = Max(solid)
      OBVIOUS
    <2>5. i \in Solid(t) /\ j \in Solid(t) /\ i \in Int /\ j \in Int /\ i > start /\ j <= end
      BY <2>2, <2>3, <2>4
    <2>6. j - i < size
      BY <2>5
    <2>7. \A k \in solid : k \in i..j
      <3> SUFFICES ASSUME NEW k \in solid PROVE k \in i..j
        OBVIOUS
      <3>1. i <= k /\ k <= j /\ k \in Int
        BY <2>2, <2>3, <2>4
      <3> QED
        BY <3>1, <2>5
    <2> HIDE DEF solid
    <2>8. p = <<[from |-> i, to |-> j]>>
      BY <2>1, <2>4
    <2> HIDE DEF p
    <2>9. DOMAIN p = {1} /\ p[1].from = i /\ p[1].to = j /\ p \in Seq([from : Solid(t), to : Solid(t)])
      BY <2>5, <2>8
    <2>10. PiecesOf(p, t, start, size)
      BY <2>5, <2>6, <2>9 DEF PiecesOf
    <2>11. Covers(p, t, start, end)
      BY <2>7, <2>9 DEF Covers, solid
    <2> QED
      BY <2>10, <2>11 DEF p
  <1> QED
    BY <1>1, <1>2

(* One more window's piece in front of the pieces of what comes after mid. *)
LEMMA PiecesJoin ==
  ASSUME NEW t \in Seq(STRING), NEW start \in Nat, NEW mid \in Int, NEW end \in Int,
         NEW size \in Nat, NEW qs, start < mid, mid <= end, end <= start + size,
         PiecesOf(qs, t, mid, size), Covers(qs, t, mid, Len(t))
  PROVE  LET ps == Piece(t, start, end) \o qs
         IN  PiecesOf(ps, t, start, size) /\ Covers(ps, t, start, Len(t))
  <1> DEFINE S == [from : Solid(t), to : Solid(t)]
             solid == {k \in Solid(t) : k > start /\ k <= end}
             hd == Piece(t, start, end)
             ps == hd \o qs
  <1>1. /\ qs \in Seq(S) /\ Len(qs) \in Nat /\ DOMAIN qs = 1..Len(qs)
        /\ \A c \in 1..Len(qs) : qs[c] \in S
    <2>1. qs \in Seq(S)
      BY DEF PiecesOf
    <2> HIDE DEF S
    <2> QED
      BY <2>1
  <1>2. PiecesOf(hd, t, start, size) /\ Covers(hd, t, start, end)
    BY PieceExact
  <1>3. \A k \in Solid(t) : k \in Int
    BY CharactersOf
  <1>4. \A c \in 1..Len(qs) : qs[c].from \in Int /\ qs[c].from > start /\ qs[c].to - qs[c].from < size
    <2> SUFFICES ASSUME NEW c \in 1..Len(qs)
                 PROVE  qs[c].from \in Int /\ qs[c].from > start /\ qs[c].to - qs[c].from < size
      OBVIOUS
    <2>1. qs[c].from \in Int /\ qs[c].from > mid /\ qs[c].to - qs[c].from < size
      BY <1>1, <1>3 DEF PiecesOf
    <2> QED
      BY <2>1
  <1>5. CASE hd = <<>>
    <2>1. ps = qs
      BY <1>1, <1>5
    <2>2. PiecesOf(qs, t, start, size)
      BY <1>1, <1>4 DEF PiecesOf
    <2>3. ASSUME NEW k \in Solid(t), k > start, k <= Len(t)
          PROVE  \E c \in DOMAIN qs : k \in qs[c].from..qs[c].to
      <3>1. ~(k <= end)
        BY <1>2, <1>5, <2>3 DEF Covers
      <3>2. k > mid
        BY <3>1, <1>3
      <3> QED
        BY <3>2, <2>3 DEF Covers
    <2> QED
      BY <2>1, <2>2, <2>3 DEF Covers
  <1>6. CASE hd # <<>>
    <2>1. PICK r : hd = <<r>>
      BY <1>6 DEF Piece
    <2>2. r \in S /\ r.from \in Int /\ r.to \in Int /\ r.from > start /\ r.to - r.from < size
      BY <1>2, <1>3, <2>1 DEF PiecesOf
    <2>3. \A k \in Solid(t) : k > start /\ k <= end => k \in r.from..r.to
      BY <1>2, <2>1 DEF Covers
    <2>4. \A k \in Solid(t) : k > start => r.from <= k
      <3>1. solid # {} /\ r.from = Min(solid)
        <4>1. solid # {}
          BY <1>6 DEF Piece
        <4>2. hd = <<[from |-> Min(solid), to |-> Max(solid)]>>
          BY <4>1 DEF Piece
        <4> HIDE DEF hd, solid
        <4>3. r = [from |-> Min(solid), to |-> Max(solid)]
          BY <4>2, <2>1
        <4> QED
          BY <4>1, <4>3
      <3>2. solid \in SUBSET (1..Len(t)) /\ Len(t) \in Nat
        BY CharactersOf
      <3>3. r.from \in solid /\ \A k \in solid : r.from <= k
        BY <3>1, <3>2, MaxMinOf
      <3> SUFFICES ASSUME NEW k \in Solid(t), k > start PROVE r.from <= k
        OBVIOUS
      <3>4. CASE k <= end
        BY <3>3, <3>4
      <3>5. CASE ~(k <= end)
        <4>1. r.from <= end /\ k \in Int
          BY <3>3, <1>3
        <4> QED
          BY <4>1, <3>5, <2>2
      <3> QED
        BY <3>4, <3>5
    <2> HIDE DEF hd, S
    <2>5. /\ ps \in Seq(S) /\ Len(ps) = Len(qs) + 1 /\ DOMAIN ps = 1..(Len(qs) + 1) /\ ps[1] = r
          /\ \A c \in 1..Len(qs) : ps[c + 1] = qs[c]
      <3>1. <<r>> \in Seq(S) /\ Len(<<r>>) = 1 /\ <<r>>[1] = r
        BY <2>2
      <3>2. ps = <<r>> \o qs
        BY <2>1
      <3> QED
        BY <3>1, <3>2, <1>1
    <2> HIDE DEF ps
    <2>6. \A c \in 1..(Len(qs) + 1) : c = 1 \/ (c - 1 \in 1..Len(qs) /\ (c - 1) + 1 = c)
      BY <1>1
    <2>7. \A c \in 1..(Len(qs) + 1) : ps[c] = r \/ \E d \in 1..Len(qs) : ps[c] = qs[d]
      BY <2>5, <2>6
    <2>8. \A c \in DOMAIN ps : ps[c].from > start /\ ps[c].to - ps[c].from < size
      BY <2>2, <2>5, <2>7, <1>4
    <2>9. ASSUME NEW c \in DOMAIN ps, NEW d \in DOMAIN ps, c <= d PROVE ps[c].from <= ps[d].from
      <3>1. CASE c = 1 /\ d = 1
        BY <3>1, <2>5, <2>2
      <3>2. CASE c = 1 /\ d # 1
        <4>1. d - 1 \in 1..Len(qs) /\ (d - 1) + 1 = d
          BY <3>2, <2>5, <2>6
        <4>2. ps[d] = qs[d - 1] /\ qs[d - 1] \in S
          BY <4>1, <2>5, <1>1
        <4>3. ps[d].from \in Solid(t) /\ ps[d].from > start
          BY <4>1, <4>2, <1>4 DEF S
        <4> QED
          BY <4>3, <3>2, <2>5, <2>4
      <3>3. CASE c # 1
        <4>1. c - 1 \in 1..Len(qs) /\ (c - 1) + 1 = c
          BY <3>3, <2>5, <2>6
        <4>2. c \in 1..(Len(qs) + 1) /\ d \in 1..(Len(qs) + 1)
          BY <2>5
        <4>3. d # 1
          BY <3>3, <4>2, <2>9, <1>1
        <4>4. d - 1 \in 1..Len(qs) /\ (d - 1) + 1 = d /\ c - 1 <= d - 1
          BY <4>2, <4>3, <2>6, <2>9, <1>1
        <4>5. qs[c - 1].from <= qs[d - 1].from
          BY <4>1, <4>4, <1>1 DEF PiecesOf
        <4> QED
          BY <4>1, <4>4, <4>5, <2>5
      <3> QED
        BY <3>1, <3>2, <3>3
    <2>10. PiecesOf(ps, t, start, size)
      BY <2>5, <2>8, <2>9 DEF PiecesOf, S
    <2>11. ASSUME NEW k \in Solid(t), k > start, k <= Len(t)
           PROVE  \E c \in DOMAIN ps : k \in ps[c].from..ps[c].to
      <3>1. CASE k <= end
        <4>1. k \in r.from..r.to /\ 1 \in DOMAIN ps
          BY <2>3, <2>5, <2>11, <3>1, <1>1
        <4> QED
          BY <4>1, <2>5
      <3>2. CASE ~(k <= end)
        <4>1. k > mid
          BY <3>2, <1>3
        <4>2. PICK c \in DOMAIN qs : k \in qs[c].from..qs[c].to
          BY <4>1, <2>11 DEF Covers
        <4>3. c + 1 \in DOMAIN ps /\ ps[c + 1] = qs[c]
          BY <2>5, <1>1
        <4> QED
          BY <4>2, <4>3
      <3> QED
        BY <3>1, <3>2
    <2> QED
      BY <2>10, <2>11 DEF Covers, ps, hd
  <1> QED
    BY <1>5, <1>6

(* Along the numbers up to N: what holds of 0 and of the successor of      *)
(* every number it holds of holds of all.                                  *)
LEMMA AlongNumbers ==
  ASSUME NEW N \in Nat, NEW G \in SUBSET (0..N), 0 \in G,
         \A k \in 0..N : k \in G /\ k < N => k + 1 \in G
  PROVE  \A k \in 0..N : k \in G
  <1> DEFINE rest == {k + 1 : k \in (0..N) \ G}
  <1> SUFFICES ASSUME rest # {} PROVE FALSE
    OBVIOUS
  <1>1. rest \in SUBSET (1..(N + 1))
    OBVIOUS
  <1>2. Min(rest) \in rest /\ \A y \in rest : Min(rest) <= y
    <2>1. N + 1 \in Nat
      OBVIOUS
    <2> HIDE DEF rest
    <2> QED
      BY <1>1, <2>1, MaxMinOf
  <1>3. PICK x \in (0..N) \ G : Min(rest) = x + 1
    BY <1>2
  <1>4. x \in Nat /\ x # 0 /\ x <= N
    BY <1>3
  <1>5. x - 1 \in 0..N /\ x - 1 < N /\ (x - 1) + 1 = x /\ ~(x + 1 <= (x - 1) + 1)
    BY <1>4
  <1>6. x - 1 \in G
    <2> SUFFICES ASSUME x - 1 \notin G PROVE FALSE
      OBVIOUS
    <2>1. (x - 1) + 1 \in rest
      BY <1>5
    <2> HIDE DEF rest
    <2> QED
      BY <1>2, <1>3, <1>5, <2>1
  <1> QED
    BY <1>3, <1>5, <1>6

(* The windows that begin after a characters or later, those from start on *)
(* among them: f gives the pieces of every window after the first.         *)
PiecesFrom(f, t, size, overlap, start) ==
  IF start >= Len(t) THEN <<>>
  ELSE LET end == WindowEnd(t, size, start)
       IN  Piece(t, start, end) \o
           (IF end >= Len(t) \/ NextStart(start, end, overlap) >= Len(t) THEN <<>>
            ELSE f[NextStart(start, end, overlap)])
Windows(f, t, size, overlap, a) == [start \in a..Len(t) |-> PiecesFrom(f, t, size, overlap, start)]

(* Where the next window begins lies within the text, further on.          *)
LEMMA WindowAdvances ==
  ASSUME NEW t \in Seq(STRING), NEW size \in Nat, size > 0, NEW overlap \in Nat,
         NEW start \in 0..Len(t)
  PROVE  LET end  == WindowEnd(t, size, start)
             next == NextStart(start, end, overlap)
         IN  /\ end \in Int /\ next \in Int
             /\ start < next /\ next <= end /\ end <= start + size
  <1> DEFINE end == WindowEnd(t, size, start)
  <1>1. end \in Int /\ start < end /\ end <= start + size
    BY WindowEnds
  <1>2. start \in Int
    OBVIOUS
  <1> HIDE DEF end
  <1>3. /\ NextStart(start, end, overlap) \in Int
        /\ start < NextStart(start, end, overlap) /\ NextStart(start, end, overlap) <= end
    BY <1>1, <1>2, NextStarts
  <1> QED
    BY <1>1, <1>3 DEF end

(* The pieces from start on depend only on those of later windows.         *)
LEMMA PiecesFromLater ==
  ASSUME NEW t \in Seq(STRING), NEW size \in Nat, size > 0, NEW overlap \in Nat,
         NEW start \in 0..Len(t), NEW f, NEW g,
         \A s \in 0..Len(t) : s > start => f[s] = g[s]
  PROVE  PiecesFrom(f, t, size, overlap, start) = PiecesFrom(g, t, size, overlap, start)
  <1> DEFINE end  == WindowEnd(t, size, start)
             next == NextStart(start, end, overlap)
  <1>1. end \in Int /\ next \in Int /\ start < next
    BY WindowAdvances
  <1>2. start \in Int /\ 0 <= start /\ Len(t) \in Int
    BY CharactersOf
  <1> HIDE DEF end, next
  <1>3. next >= Len(t) \/ next \in 0..Len(t)
    BY <1>1, <1>2
  <1>4. next >= Len(t) \/ f[next] = g[next]
    BY <1>1, <1>3
  <1> QED
    BY <1>4 DEF PiecesFrom, end, next

LEMMA WindowsExist ==
  ASSUME NEW t \in Seq(STRING), NEW size \in Nat, size > 0, NEW overlap \in Nat
  PROVE  \E f : f = Windows(f, t, size, overlap, 0)
  <1> DEFINE N == Len(t)
             G == {k \in 0..N : \E f : f = Windows(f, t, size, overlap, N - k)}
  <1>1. N \in Nat
    BY CharactersOf
  <1> HIDE DEF N
  <1>2. 0 \in G
    <2> DEFINE f == [s \in N..N |-> <<>>]
    <2>1. N - 0 = N /\ 0 \in 0..N /\ \A s \in N..N : s >= N
      BY <1>1
    <2>2. \A s \in N..N : PiecesFrom(f, t, size, overlap, s) = <<>>
      BY <2>1 DEF PiecesFrom, N
    <2>3. f = Windows(f, t, size, overlap, N)
      BY <2>2 DEF Windows, N
    <2> HIDE DEF f
    <2> QED
      BY <2>1, <2>3
  <1>3. ASSUME NEW k \in 0..N, k \in G, k < N
        PROVE  k + 1 \in G
    <2> DEFINE a == N - (k + 1)
    <2>1. PICK f : f = Windows(f, t, size, overlap, N - k)
      BY <1>3
    <2>2. a \in 0..N /\ k + 1 \in 0..N /\ N - k = a + 1
      BY <1>1, <1>3
    <2> DEFINE h == [s \in a..N |-> IF s = a THEN PiecesFrom(f, t, size, overlap, a) ELSE f[s]]
    <2> HIDE DEF a
    <2>3. \A s \in 0..N : s > a => h[s] = f[s]
      BY <1>1, <2>2
    <2>4. ASSUME NEW s \in a..N PROVE h[s] = PiecesFrom(h, t, size, overlap, s)
      <3>1. s \in 0..N /\ \A r \in 0..N : r > s => r > a
        BY <1>1, <2>2
      <3>2. PiecesFrom(h, t, size, overlap, s) = PiecesFrom(f, t, size, overlap, s)
        <4>1. \A r \in 0..Len(t) : r > s => h[r] = f[r]
          BY <2>3, <3>1 DEF N
        <4> HIDE DEF h
        <4> QED
          BY <3>1, <4>1, PiecesFromLater DEF N
      <3>3. CASE s = a
        BY <3>2, <3>3
      <3>4. CASE s # a
        <4>1. s \in (a + 1)..N /\ s > a
          BY <3>4, <1>1, <2>2
        <4>2. f[s] = PiecesFrom(f, t, size, overlap, s)
          BY <2>1, <2>2, <4>1 DEF Windows, N
        <4> QED
          BY <3>1, <3>2, <4>1, <4>2, <2>3
      <3> QED
        BY <3>3, <3>4
    <2>5. h = [s \in a..N |-> PiecesFrom(h, t, size, overlap, s)]
      <3>1. h = [s \in a..N |-> h[s]]
        OBVIOUS
      <3> HIDE DEF h
      <3> QED
        BY <2>4, <3>1
    <2>6. h = Windows(h, t, size, overlap, a)
      BY <2>5 DEF Windows, N
    <2> HIDE DEF h
    <2>7. \E g : g = Windows(g, t, size, overlap, a)
      BY <2>6
    <2> QED
      BY <2>2, <2>7 DEF a
  <1>4. N \in G
    <2>1. G \in SUBSET (0..N) /\ N \in 0..N
      BY <1>1
    <2> HIDE DEF G
    <2> QED
      BY <1>1, <1>2, <1>3, <2>1, AlongNumbers
  <1> QED
    BY <1>1, <1>4

(* The pieces from any window on cover what is left, whatever the overlap. *)
LEMMA WindowsCover ==
  ASSUME NEW t \in Seq(STRING), NEW size \in Nat, size > 0, NEW overlap \in Nat,
         NEW f, f = Windows(f, t, size, overlap, 0)
  PROVE  PiecesOf(f[0], t, 0, size) /\ Covers(f[0], t, 0, Len(t))
  <1> DEFINE N == Len(t)
             Right(s) == PiecesOf(f[s], t, s, size) /\ Covers(f[s], t, s, N)
             G == {k \in 0..N : \A s \in (N - k)..N : Right(s)}
  <1>1. N \in Nat
    BY CharactersOf
  <1>2. \A s \in 0..N : f[s] = PiecesFrom(f, t, size, overlap, s)
    BY DEF Windows
  <1>3. ASSUME NEW s \in Int
        PROVE  PiecesOf(<<>>, t, s, size) /\ (s >= N => Covers(<<>>, t, s, N))
    <2>1. PiecesOf(<<>>, t, s, size)
      BY DEF PiecesOf
    <2>2. ASSUME s >= N PROVE Covers(<<>>, t, s, N)
      <3>1. \A k \in Solid(t) : k \in Int
        BY CharactersOf
      <3> HIDE DEF N
      <3>2. \A k \in Solid(t) : ~(k > s /\ k <= N)
        BY <3>1, <1>1, <2>2
      <3> QED
        BY <3>2 DEF Covers
    <2> QED
      BY <2>1, <2>2
  <1> HIDE DEF N
  <1>4. 0 \in G
    <2>1. \A s \in (N - 0)..N : s \in 0..N /\ s >= N /\ s \in Int
      BY <1>1
    <2>2. \A s \in (N - 0)..N : f[s] = <<>>
      BY <2>1, <1>2 DEF PiecesFrom, N
    <2> QED
      BY <2>1, <2>2, <1>1, <1>3
  <1>5. ASSUME NEW k \in 0..N, k \in G, k < N
        PROVE  k + 1 \in G
    <2> DEFINE a == N - (k + 1)
    <2>1. a \in 0..N /\ a \in Nat /\ a < N /\ k + 1 \in 0..N /\ N - k = a + 1
      BY <1>1, <1>5
    <2>2. \A s \in (a + 1)..N : Right(s)
      BY <1>5, <2>1
    <2> HIDE DEF a
    <2> DEFINE end  == WindowEnd(t, size, a)
               next == NextStart(a, end, overlap)
    <2>3. end \in Int /\ next \in Int /\ a < next /\ next <= end /\ end <= a + size
      BY <2>1, WindowAdvances DEF N
    <2>4. f[a] = Piece(t, a, end) \o (IF end >= N \/ next >= N THEN <<>> ELSE f[next])
      <3>1. f[a] = PiecesFrom(f, t, size, overlap, a) /\ ~(a >= Len(t))
        BY <2>1, <1>1, <1>2 DEF N
      <3> QED
        BY <3>1 DEF PiecesFrom, N
    <2> HIDE DEF end, next
    <2>5. Right(a)
      <3>1. CASE end >= N \/ next >= N
        <4>1. end >= N
          BY <3>1, <2>3, <1>1
        <4>2. f[a] = Piece(t, a, end) \o <<>>
          BY <2>4, <3>1
        <4>3. PiecesOf(<<>>, t, end, size) /\ Covers(<<>>, t, end, N)
          BY <2>3, <4>1, <1>3
        <4>4. a < end /\ end <= end
          BY <2>1, <2>3
        <4> QED
          BY <2>1, <2>3, <4>2, <4>3, <4>4, PiecesJoin DEF N
      <3>2. CASE ~(end >= N \/ next >= N)
        <4>1. next \in (a + 1)..N
          BY <3>2, <2>1, <2>3, <1>1
        <4>2. PiecesOf(f[next], t, next, size) /\ Covers(f[next], t, next, N)
          BY <2>2, <4>1
        <4>3. f[a] = Piece(t, a, end) \o f[next]
          BY <2>4, <3>2
        <4> QED
          BY <2>1, <2>3, <4>2, <4>3, PiecesJoin DEF N
      <3> QED
        BY <3>1, <3>2
    <2>6. \A s \in a..N : s = a \/ s \in (a + 1)..N
      BY <2>1, <1>1
    <2> HIDE DEF Right
    <2>7. \A s \in a..N : Right(s)
      BY <2>2, <2>5, <2>6
    <2> QED
      BY <2>1, <2>7 DEF a
  <1>6. Right(0)
    <2>1. G \in SUBSET (0..N) /\ N \in 0..N /\ N - N = 0 /\ 0 \in 0..N
      BY <1>1
    <2> HIDE DEF G
    <2>2. N \in G
      BY <1>1, <1>4, <1>5, <2>1, AlongNumbers
    <2> HIDE DEF Right
    <2> QED
      BY <2>1, <2>2 DEF G
  <1> QED
    BY <1>6 DEF N

LEMMA ChunksCover ==
  ASSUME NEW text \in Seq(STRING), NEW size \in Nat, size > 0, NEW overlap \in Nat
  PROVE  LET t  == Strip(text)
             ps == ChunkText(text, size, overlap)
         IN  PiecesOf(ps, t, 0, size) /\ Covers(ps, t, 0, Len(t))
  <1> DEFINE t == Strip(text)
             step(f) == Windows(f, t, size, overlap, 0)
             from == CHOOSE f : f = step(f)
  <1>1. t \in Seq(STRING)
    BY StripTypes
  <1>2. ChunkText(text, size, overlap) = (IF Len(t) <= size THEN Piece(t, 0, Len(t)) ELSE from[0])
    BY DEF ChunkText, Windows, PiecesFrom
  <1> HIDE DEF t, step
  <1>3. CASE Len(t) <= size
    <2>1. Len(t) \in Int /\ 0 \in Nat /\ Len(t) <= 0 + size
      BY <1>1, <1>3, CharactersOf
    <2>2. PiecesOf(Piece(t, 0, Len(t)), t, 0, size) /\ Covers(Piece(t, 0, Len(t)), t, 0, Len(t))
      BY <1>1, <2>1, PieceExact
    <2> QED
      BY <1>2, <1>3, <2>2 DEF t
  <1>4. CASE ~(Len(t) <= size)
    <2>1. \E f : f = step(f)
      BY <1>1, WindowsExist DEF step
    <2>2. from = step(from)
      BY <2>1
    <2> HIDE DEF from
    <2>3. PiecesOf(from[0], t, 0, size) /\ Covers(from[0], t, 0, Len(t))
      BY <1>1, <2>2, WindowsCover DEF step
    <2> QED
      BY <1>2, <1>4, <2>3 DEF t
  <1> QED
    BY <1>3, <1>4

(* The pieces of the first n pages: every character of theirs is in one.   *)
Numbered(s, ps, n) ==
  s \o [k \in DOMAIN ps |-> [index |-> Len(s) + k - 1, page |-> n, from |-> ps[k].from, to |-> ps[k].to]]

InOrder(c, b) == b.page > c.page \/ (b.page = c.page /\ b.from >= c.from)

PagesUpTo(s, pages, size, n) ==
  /\ s \in Seq([index : Int, page : 1..n, from : Int, to : Int])
  /\ \A k \in 1..n : \A i \in Solid(Strip(pages[k])) :
       \E c \in DOMAIN s : s[c].page = k /\ i \in s[c].from..s[c].to
  /\ \A c \in DOMAIN s :
       /\ s[c].index = c - 1
       /\ s[c].to - s[c].from < size
       /\ {s[c].from, s[c].to} \subseteq Solid(Strip(pages[s[c].page]))
  /\ \A c, d \in DOMAIN s : c < d => InOrder(s[c], s[d])

LEMMA NextPage ==
  ASSUME NEW pages \in Seq(Seq(STRING)), NEW n \in Nat, n + 1 <= Len(pages),
         NEW size \in Nat, NEW s, PagesUpTo(s, pages, size, n), NEW ps,
         PiecesOf(ps, Strip(pages[n + 1]), 0, size),
         Covers(ps, Strip(pages[n + 1]), 0, Len(Strip(pages[n + 1])))
  PROVE  PagesUpTo(Numbered(s, ps, n + 1), pages, size, n + 1)
  <1> DEFINE t == Strip(pages[n + 1])
             m == n + 1
             L == Len(s)
             M == Len(ps)
             R == [index : Int, page : 1..m, from : Int, to : Int]
             S == [index : Int, page : 1..n, from : Int, to : Int]
             at(k) == [index |-> L + k - 1, page |-> m, from |-> ps[k].from, to |-> ps[k].to]
             b == [k \in DOMAIN ps |-> at(k)]
             z == s \o b
  <1>1. m \in 1..Len(pages) /\ t \in Seq(STRING)
    <2>1. m \in 1..Len(pages) /\ pages[m] \in Seq(STRING)
      OBVIOUS
    <2> QED
      BY <2>1, StripTypes
  <1>2. Solid(t) \in SUBSET (1..Len(t)) /\ \A i \in Solid(t) : i \in Int /\ i > 0 /\ i <= Len(t)
    BY <1>1, CharactersOf
  <1> HIDE DEF t
  <1>3. /\ M \in Nat /\ DOMAIN ps = 1..M
        /\ \A k \in 1..M : /\ ps[k].from \in Solid(t) /\ ps[k].to \in Solid(t)
                           /\ ps[k].to - ps[k].from < size
    <2> DEFINE P == [from : Solid(t), to : Solid(t)]
    <2>1. ps \in Seq(P)
      BY DEF PiecesOf, t
    <2>2. M \in Nat /\ DOMAIN ps = 1..M /\ \A k \in 1..M : ps[k] \in P
      <3> HIDE DEF P
      <3> QED
        BY <2>1
    <2>3. \A k \in 1..M : ps[k].to - ps[k].from < size
      BY <2>2 DEF PiecesOf
    <2> QED
      BY <2>2, <2>3
  <1>4. s \in Seq(S) /\ L \in Nat /\ DOMAIN s = 1..L /\ \A c \in 1..L : s[c] \in S
    <2>1. s \in Seq(S)
      BY DEF PagesUpTo
    <2> HIDE DEF S
    <2> QED
      BY <2>1
  <1>5. \A k \in 1..M : /\ at(k) \in R /\ at(k).index = L + k - 1 /\ at(k).page = m
                        /\ at(k).from = ps[k].from /\ at(k).to = ps[k].to
    <2> SUFFICES ASSUME NEW k \in 1..M
                 PROVE  /\ at(k) \in R /\ at(k).index = L + k - 1 /\ at(k).page = m
                        /\ at(k).from = ps[k].from /\ at(k).to = ps[k].to
      OBVIOUS
    <2>1. ps[k].from \in Int /\ ps[k].to \in Int
      BY <1>2, <1>3
    <2>2. L + k - 1 \in Int /\ m \in 1..m
      BY <1>3, <1>4
    <2> QED
      BY <2>1, <2>2
  <1> HIDE DEF at
  <1>6. b = [k \in 1..M |-> at(k)] /\ b \in Seq(R) /\ Len(b) = M
    BY <1>3, <1>5
  <1>7. s \in Seq(R)
    <2>1. S \subseteq R
      BY <1>4
    <2> HIDE DEF S, R
    <2> QED
      BY <1>4, <2>1
  <1> HIDE DEF b, R
  <1>8. /\ z \in Seq(R) /\ DOMAIN z = 1..(L + M)
        /\ \A c \in 1..L : z[c] = s[c]
        /\ \A k \in 1..M : z[L + k] = at(k)
    <2>1. z \in Seq(R) /\ Len(z) = L + M
      BY <1>4, <1>6, <1>7
    <2>2. \A c \in 1..L : z[c] = s[c]
      BY <1>3, <1>4, <1>6, <1>7
    <2>3. ASSUME NEW k \in 1..M PROVE z[L + k] = at(k)
      <3>1. L + k \in 1..(L + M) /\ L + k > L /\ (L + k) - L = k
        BY <1>3, <1>4
      <3>2. z[L + k] = b[(L + k) - L]
        BY <3>1, <1>4, <1>6, <1>7
      <3> QED
        BY <3>1, <3>2, <1>6
    <2>4. DOMAIN z = 1..(L + M)
      BY <2>1, <1>3, <1>4
    <2> QED
      BY <2>1, <2>2, <2>3, <2>4
  <1>9. z = Numbered(s, ps, m)
    BY DEF Numbered, b, at
  <1> HIDE DEF z, m
  <1>10. m \in Nat /\ m = n + 1
    BY DEF m
  <1>11. \A c \in 1..(L + M) : c \in 1..L \/ (c - L \in 1..M /\ L + (c - L) = c)
    BY <1>3, <1>4
  <1>12. /\ 1..L \subseteq 1..(L + M)
         /\ \A k \in 1..M : L + k \in 1..(L + M)
    BY <1>3, <1>4
  <1>13. ASSUME NEW k \in 1..m, NEW i \in Solid(Strip(pages[k]))
         PROVE  \E c \in DOMAIN z : z[c].page = k /\ i \in z[c].from..z[c].to
    <2>1. CASE k \in 1..n
      <3>1. PICK c \in 1..L : s[c].page = k /\ i \in s[c].from..s[c].to
        BY <2>1, <1>4 DEF PagesUpTo
      <3> QED
        BY <3>1, <1>8, <1>12
    <2>2. CASE k = m
      <3>1. i \in Solid(t)
        BY <2>2 DEF t, m
      <3>2. \E c \in 1..M : i \in ps[c].from..ps[c].to
        BY <3>1, <1>2, <1>3 DEF Covers, t
      <3>3. PICK c \in 1..M : i \in ps[c].from..ps[c].to
        BY <3>2
      <3>4. z[L + c].page = k /\ i \in z[L + c].from..z[L + c].to
        BY <3>3, <2>2, <1>5, <1>8
      <3> QED
        BY <3>4, <1>8, <1>12
    <2> QED
      BY <2>1, <2>2, <1>10
  <1>14. ASSUME NEW c \in DOMAIN z
         PROVE  /\ z[c].index = c - 1
                /\ z[c].to - z[c].from < size
                /\ {z[c].from, z[c].to} \subseteq Solid(Strip(pages[z[c].page]))
    <2>1. CASE c \in 1..L
      <3>1. z[c] = s[c] /\ c \in DOMAIN s
        BY <2>1, <1>4, <1>8
      <3>2. /\ s[c].index = c - 1 /\ s[c].to - s[c].from < size
            /\ {s[c].from, s[c].to} \subseteq Solid(Strip(pages[s[c].page]))
        BY <3>1 DEF PagesUpTo
      <3> QED
        BY <3>1, <3>2
    <2>2. CASE c - L \in 1..M /\ L + (c - L) = c
      <3>1. PICK k \in 1..M : c = L + k
        BY <2>2
      <3>2. z[c] = at(k)
        BY <3>1, <1>8
      <3>3. z[c].index = c - 1 /\ z[c].page = m /\ z[c].from = ps[k].from /\ z[c].to = ps[k].to
        <4>1. L + k - 1 = c - 1
          BY <3>1, <1>3, <1>4
        <4> QED
          BY <3>2, <4>1, <1>5
      <3> QED
        BY <3>3, <1>3 DEF t, m
    <2> QED
      BY <2>1, <2>2, <1>8, <1>11
  <1>15. ASSUME NEW c \in DOMAIN z, NEW d \in DOMAIN z, c < d
         PROVE  InOrder(z[c], z[d])
    <2>1. CASE c \in 1..L /\ d \in 1..L
      BY <2>1, <1>15, <1>4, <1>8 DEF PagesUpTo
    <2>2. CASE c \in 1..L /\ d \notin 1..L
      <3>1. PICK k \in 1..M : d = L + k
        BY <2>2, <1>8, <1>11
      <3>2. z[d].page = m
        BY <3>1, <1>5, <1>8
      <3>3. z[c].page \in 1..n
        BY <2>2, <1>4, <1>8
      <3>4. z[d].page > z[c].page
        BY <3>2, <3>3, <1>10
      <3> QED
        BY <3>4 DEF InOrder
    <2>3. CASE c \notin 1..L
      <3>1. PICK k \in 1..M : c = L + k
        BY <2>3, <1>8, <1>11
      <3>2. d \notin 1..L
        BY <3>1, <1>15, <1>3, <1>4
      <3>3. PICK j \in 1..M : d = L + j
        BY <3>2, <1>8, <1>11
      <3>4. k <= j
        BY <3>1, <3>3, <1>15, <1>3, <1>4
      <3>5. ps[k].from <= ps[j].from
        BY <3>4, <1>3 DEF PiecesOf
      <3>6. ps[k].from \in Int /\ ps[j].from \in Int
        BY <1>2, <1>3
      <3>7. z[c].page = m /\ z[d].page = m /\ z[c].from = ps[k].from /\ z[d].from = ps[j].from
        BY <3>1, <3>3, <1>5, <1>8
      <3> QED
        BY <3>5, <3>6, <3>7 DEF InOrder
    <2> QED
      BY <2>1, <2>2, <2>3
  <1>16. PagesUpTo(z, pages, size, m)
    BY <1>8, <1>13, <1>14, <1>15 DEF PagesUpTo, R
  <1> QED
    BY <1>9, <1>16 DEF m

PageByPage(f, pages, size, overlap, N) ==
  [n \in 0..N |-> IF n = 0 THEN <<>> ELSE Numbered(f[n - 1], ChunkText(pages[n], size, overlap), n)]

LEMMA PagesExist ==
  ASSUME NEW pages, NEW size, NEW overlap, NEW N \in Nat
  PROVE  \E f : f = PageByPage(f, pages, size, overlap, N)
  <1> DEFINE step(s, n) == Numbered(s, ChunkText(pages[n], size, overlap), n)
             body(f, k) == [n \in 0..k |-> IF n = 0 THEN <<>> ELSE step(f[n - 1], n)]
             G == {k \in 0..N : \E f : f = body(f, k)}
  <1> HIDE DEF step
  <1>1. 0 \in G
    <2> DEFINE e == [n \in 0..0 |-> <<>>]
    <2>1. e = body(e, 0) /\ 0 \in 0..N
      OBVIOUS
    <2> HIDE DEF e, body
    <2> QED
      BY <2>1
  <1>2. ASSUME NEW k \in 0..N, k \in G, k < N
        PROVE  k + 1 \in G
    <2>1. PICK f : f = body(f, k)
      BY <1>2
    <2> DEFINE h == [n \in 0..(k + 1) |-> IF n = k + 1 THEN step(f[k], k + 1) ELSE f[n]]
    <2>2. ASSUME NEW n \in 0..(k + 1) PROVE h[n] = body(h, k + 1)[n]
      <3>1. CASE n = 0
        <4>1. h[n] = f[0] /\ f[0] = body(f, k)[0] /\ body(f, k)[0] = <<>>
          BY <3>1, <2>1
        <4> QED
          BY <3>1, <4>1
      <3>2. CASE n \in 1..k
        <4>1. n - 1 \in 0..k /\ n - 1 # k + 1 /\ n # k + 1 /\ n \in 0..k /\ n # 0
          BY <3>2
        <4>2. h[n] = f[n] /\ h[n - 1] = f[n - 1]
          BY <4>1
        <4>3. f[n] = body(f, k)[n] /\ body(f, k)[n] = step(f[n - 1], n)
          BY <2>1, <4>1
        <4>4. body(h, k + 1)[n] = step(h[n - 1], n)
          BY <4>1
        <4> QED
          BY <4>2, <4>3, <4>4
      <3>3. CASE n = k + 1
        <4>1. n - 1 = k /\ k \in 0..(k + 1) /\ k # k + 1 /\ n # 0
          BY <3>3
        <4>2. h[k] = f[k] /\ h[n] = step(f[k], k + 1)
          BY <4>1, <3>3
        <4>3. body(h, k + 1)[n] = step(h[n - 1], n)
          BY <4>1
        <4> QED
          BY <4>1, <4>2, <4>3, <3>3
      <3> QED
        BY <3>1, <3>2, <3>3
    <2>3. h = body(h, k + 1)
      BY <2>2
    <2>4. k + 1 \in 0..N
      BY <1>2
    <2> HIDE DEF h, body
    <2> QED
      BY <2>3, <2>4
  <1>3. N \in G
    <2>1. G \in SUBSET (0..N) /\ N \in 0..N
      OBVIOUS
    <2> HIDE DEF G
    <2> QED
      BY <1>1, <1>2, <2>1, AlongNumbers
  <1> QED
    BY <1>3 DEF PageByPage, step

LEMMA PagesParsed ==
  ASSUME NEW pages \in Seq(Seq(STRING)), NEW size \in Nat, size > 0, NEW overlap \in Nat,
         NEW f, f = PageByPage(f, pages, size, overlap, Len(pages))
  PROVE  PagesUpTo(f[Len(pages)], pages, size, Len(pages))
  <1> DEFINE N == Len(pages)
             H == {k \in 0..N : PagesUpTo(f[k], pages, size, k)}
  <1>1. N \in Nat
    OBVIOUS
  <1>2. /\ f[0] = <<>>
        /\ \A n \in 1..N : f[n] = Numbered(f[n - 1], ChunkText(pages[n], size, overlap), n)
    <2>1. 0 \in 0..N /\ \A n \in 1..N : n \in 0..N /\ n # 0
      BY <1>1
    <2> QED
      BY <2>1 DEF PageByPage
  <1>3. 0 \in H
    <2>1. PagesUpTo(<<>>, pages, size, 0)
      BY DEF PagesUpTo
    <2> QED
      BY <2>1, <1>1, <1>2
  <1>4. ASSUME NEW k \in 0..N, k \in H, k < N
        PROVE  k + 1 \in H
    <2> DEFINE ps == ChunkText(pages[k + 1], size, overlap)
               t  == Strip(pages[k + 1])
    <2>1. k + 1 \in 1..N /\ k + 1 \in 0..N /\ (k + 1) - 1 = k /\ k + 1 <= Len(pages) /\ k \in Nat
      BY <1>1, <1>4
    <2>2. pages[k + 1] \in Seq(STRING)
      BY <2>1
    <2>3. PiecesOf(ps, t, 0, size) /\ Covers(ps, t, 0, Len(t))
      BY <2>2, ChunksCover
    <2>4. f[k + 1] = Numbered(f[k], ps, k + 1)
      BY <1>2, <2>1
    <2>5. PagesUpTo(f[k], pages, size, k)
      BY <1>4
    <2> HIDE DEF ps
    <2>6. PagesUpTo(Numbered(f[k], ps, k + 1), pages, size, k + 1)
      BY <2>1, <2>3, <2>5, NextPage
    <2> QED
      BY <2>1, <2>4, <2>6
  <1>5. N \in H
    <2>1. H \in SUBSET (0..N) /\ N \in 0..N
      BY <1>1
    <2> HIDE DEF H, N
    <2> QED
      BY <1>1, <1>3, <1>4, <2>1, AlongNumbers
  <1> QED
    BY <1>5

LEMMA DocumentParsed ==
  ASSUME NEW pages \in Seq(Seq(STRING)), NEW size \in Nat, size > 0, NEW overlap \in Nat
  PROVE  PagesUpTo(ParsePages(pages, size, overlap), pages, size, Len(pages))
  <1> DEFINE N == Len(pages)
             body(f) == PageByPage(f, pages, size, overlap, N)
             upTo == CHOOSE f : f = body(f)
  <1>1. ParsePages(pages, size, overlap) = upTo[N]
    BY DEF ParsePages, PageByPage, Numbered
  <1>2. N \in Nat
    OBVIOUS
  <1>3. \E f : f = body(f)
    BY <1>2, PagesExist
  <1> HIDE DEF body
  <1>4. upTo = body(upTo)
    BY <1>3
  <1> HIDE DEF upTo
  <1>5. PagesUpTo(upTo[N], pages, size, N)
    BY <1>4, PagesParsed DEF body
  <1> QED
    BY <1>1, <1>5

(* Parsing a document loses nothing of it.                                 *)
LEMMA ParsingExact ==
  ASSUME doc \in Documents, ParseDocument
  PROVE  ChunksExact'
  <1> DEFINE pages == doc.pages
             size == doc.size
             cs == ParsePages(doc.pages, doc.size, doc.overlap)
  <1>1. doc' = doc
    BY DEF ParseDocument
  <1>2. CASE parsed'.at # "done"
    BY <1>2 DEF ChunksExact
  <1>3. CASE parsed'.at = "done"
    <2>1. parsed' = [at |-> "done", chunks |-> cs] /\ ~(doc.size <= 0 \/ doc.overlap < 0)
      BY <1>3 DEF ParseDocument
    <2>2. /\ pages \in Seq(Seq(STRING)) /\ size \in Nat /\ size > 0 /\ doc.overlap \in Nat
      BY <2>1, DocumentsAssumption
    <2>3. PagesUpTo(cs, pages, size, Len(pages))
      BY <2>2, DocumentParsed
    <2>4. DOMAIN pages = 1..Len(pages)
      BY <2>2
    <2> DEFINE R == [index : Int, page : 1..Len(pages), from : Int, to : Int]
    <2>5. cs \in Seq(R)
      BY <2>3 DEF PagesUpTo
    <2>6. Len(cs) \in Nat /\ DOMAIN cs = 1..Len(cs)
      <3> HIDE DEF R, cs
      <3> QED
        BY <2>5
    <2> HIDE DEF cs, R
    <2>7. parsed'.chunks = cs
      BY <2>1
    <2>8. \A n \in DOMAIN pages : \A k \in Solid(Strip(pages[n])) :
            \E c \in DOMAIN cs : cs[c].page = n /\ k \in cs[c].from..cs[c].to
      BY <2>3, <2>4 DEF PagesUpTo
    <2>9. \A c \in DOMAIN cs :
            /\ cs[c].index = c - 1
            /\ cs[c].to - cs[c].from < size
            /\ {cs[c].from, cs[c].to} \subseteq Solid(Strip(pages[cs[c].page]))
      BY <2>3 DEF PagesUpTo
    <2>10. \A c \in 2..Len(cs) :
             \/ cs[c].page > cs[c - 1].page
             \/ cs[c].page = cs[c - 1].page /\ cs[c].from >= cs[c - 1].from
      <3> SUFFICES ASSUME NEW c \in 2..Len(cs) PROVE InOrder(cs[c - 1], cs[c])
        BY DEF InOrder
      <3>1. c - 1 \in DOMAIN cs /\ c \in DOMAIN cs /\ c - 1 < c
        BY <2>6
      <3> QED
        BY <3>1, <2>3 DEF PagesUpTo
    <2> HIDE DEF pages, size
    <2>11. doc'.pages = pages /\ doc'.size = size
      BY <1>1 DEF pages, size
    <2> QED
      BY <2>7, <2>8, <2>9, <2>10, <2>11 DEF ChunksExact
  <1> QED
    BY <1>2, <1>3

(* Every character that is not blank is in a piece of its own page, and no *)
(* piece is too long, blank at an end or out of order, for any document,   *)
(* any size and any overlap below it (document_parser.py:106-206).         *)
THEOREM ChunksCorrect == ChunksSpec => []ChunksExact
  <1> DEFINE Inv == doc \in Documents /\ ChunksExact
  <1>1. ChunksInit => Inv
    BY DEF ChunksInit, ChunksExact
  <1>2. Inv /\ [ParseDocument]_chunkVars => Inv'
    <2> SUFFICES ASSUME Inv, [ParseDocument]_chunkVars PROVE Inv'
      OBVIOUS
    <2>1. CASE ParseDocument
      BY <2>1, ParsingExact DEF ParseDocument
    <2>2. CASE UNCHANGED chunkVars
      BY <2>2 DEF chunkVars, ChunksExact
    <2> QED
      BY <2>1, <2>2
  <1> QED
    BY <1>1, <1>2, PTL DEF ChunksSpec
=============================================================================
