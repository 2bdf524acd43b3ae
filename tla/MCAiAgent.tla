------------------------------- MODULE MCAiAgent -------------------------------
(***************************************************************************)
(* What AI_Agent does, one thing at a time: the loop that extracts         *)
(* policies, a composer turn it relays, the user's memory file, a skill    *)
(* from an edit, a document in pieces.  What is not in focus stays still.  *)
(***************************************************************************)
EXTENDS PolicyGoal, ComposerRelay, AgentMemory, WorkflowDiff, DocumentChunks

VARIABLE focus
mcVars == <<vars, goalVars, relayVars, memoryFileVars, diffVars, chunkVars, focus>>

-----------------------------------------------------------------------------
UpTo(S, n) == UNION {[1..k -> S] : k \in 0..n}

MCRows == {[active |-> TRUE, dim |-> "own"], [active |-> FALSE, dim |-> "own"],
           [active |-> TRUE, dim |-> "other"]}

(* Two versions that differ in their nodes, or in their edges. *)
MCNodes == [id : {"a", "b"}, type : {"t", "u"}, config : [{"k"} -> {"absent", "null", "x"}]]
MCDrawn == [nodes : UpTo(MCNodes, 2), edges : {<<>>}]
MCWired == [nodes : {<<>>}, edges : UpTo([source : {"a", "b"}, target : {"a", "b"}], 2)]
MCEdits == [v1 : MCDrawn, v2 : MCDrawn] \union [v1 : MCWired, v2 : MCWired]

(* Texts a little longer than a window of eight, which is the smallest     *)
(* whose last quarter holds a blank line; PDFs of two pages.               *)
Document(m, ps, w) == [mime |-> m, pages |-> ps, size |-> w[1], overlap |-> w[2]]
MCDocuments ==
  {Document("text/markdown", <<t>>, w) :
     t \in UpTo({"x", "n"}, 10), w \in {<<8, 0>>, <<8, 2>>, <<8, 7>>, <<3, 1>>, <<1, 0>>, <<3, 3>>}}
  \union {Document("application/pdf", ps, <<3, 1>>) : ps \in UpTo(UpTo({"x", "n"}, 4), 2)}
  \union {Document("image/png", <<>>, <<3, 1>>)}

AnyTurn == CHOOSE t \in Turns : TRUE
AnyEdit == CHOOSE e \in [v1 : MCWired, v2 : MCWired] : TRUE
AnyDocument == Document("image/png", <<>>, <<3, 1>>)

-----------------------------------------------------------------------------
(* A model that follows its goal is tried on every request; one that       *)
(* answers anything, on the requests that leave it the most to do.         *)
Hardest == maxIter = 2 /\ pools = {"personal"} /\ chunk = "imperative"

MCInit ==
  /\ focus \in {"policy", "relay", "memory", "edit", "document"}
  /\ GoalInit
  /\ ~obedient \/ focus # "policy" => Hardest
  /\ focus # "policy" => ~obedient
  /\ RelayInit
  /\ focus # "relay" => turn = AnyTurn
  /\ MemoryInit
  /\ IF focus = "edit" THEN DiffInit
     ELSE edit = AnyEdit /\ stage = "over" /\ hint = "" /\ rejected = {} /\ candidate = Pending
  /\ IF focus = "document" THEN ChunksInit
     ELSE doc = AnyDocument /\ parsed = [at |-> "unsupported"]

MCNext ==
  /\ UNCHANGED focus
  /\ \/ /\ focus = "policy" /\ GoalNext
        /\ UNCHANGED <<relayVars, memoryFileVars, diffVars, chunkVars>>
     \/ /\ focus = "relay" /\ RelayNext
        /\ UNCHANGED <<vars, goalVars, memoryFileVars, diffVars, chunkVars>>
     \/ /\ focus = "memory" /\ MemoryNext
        /\ UNCHANGED <<vars, goalVars, relayVars, diffVars, chunkVars>>
     \/ /\ focus = "edit" /\ DiffNext
        /\ UNCHANGED <<vars, goalVars, relayVars, memoryFileVars, chunkVars>>
     \/ /\ focus = "document" /\ ParseDocument
        /\ UNCHANGED <<vars, goalVars, relayVars, memoryFileVars, diffVars>>

MCSpec ==
  /\ MCInit /\ [][MCNext]_mcVars
  /\ WF_mcVars(focus = "policy" /\ MCNext)
  /\ WF_mcVars(focus = "relay" /\ MCNext /\ AgentStep)
  /\ WF_mcVars(focus = "relay" /\ MCNext /\ ServiceStep)
  /\ WF_mcVars(focus = "relay" /\ MCNext /\ BrowserReads)

-----------------------------------------------------------------------------
(* Whatever the model answers, a request for policies is answered; however *)
(* the composer's reply breaks off, every process gets done with it and    *)
(* the model is left.                                                      *)
AnswersEnd == (focus = "policy" => AgentTerminates) /\ (focus = "relay" => RelayEnds)
=============================================================================
