----------------------------- MODULE WorkflowDiff ------------------------------
(***************************************************************************)
(* A candidate skill from one edit (AI_Agent): the difference of two       *)
(* versions of a workflow (services/workflow_diff.py), a hint the model    *)
(* proposes for it and its judgement (agents/personalization_agent.py).    *)
(*                                                                         *)
(* A workflow is what the revisions table holds: lists of nodes and of     *)
(* edges.  A configuration has one value per key, "absent" for a key that  *)
(* is not there and "null" for one that is.                                *)
(***************************************************************************)
EXTENDS Integers, Sequences, SequencesExt, FiniteSets

CONSTANTS Edits,          \* pairs of versions
          ConfigKeys,
          Hints           \* hints of the model's; "" is none

(* A version holds lists, as the JSON column does. *)
ASSUME DiffAssumption ==
  \A e \in Edits : \A v \in {e.v1, e.v2} :
    /\ v.nodes \in Seq({v.nodes[k] : k \in DOMAIN v.nodes})
    /\ v.edges \in Seq({v.edges[k] : k \in DOMAIN v.edges})

VARIABLES edit, stage, hint, rejected, candidate
diffVars == <<edit, stage, hint, rejected, candidate>>

Before == edit.v1
After  == edit.v2

-----------------------------------------------------------------------------
(* _index_by_id: the last node of an id. *)
IdsOf(v) == {v.nodes[k].id : k \in DOMAIN v.nodes}
NodeOf(v, i) ==
  LET at == {k \in DOMAIN v.nodes : v.nodes[k].id = i}
  IN  v.nodes[CHOOSE k \in at : \A j \in at : j <= k]

(* dict.get: a key that is absent reads as null. *)
Get(n, key) == IF n.config[key] = "absent" THEN "null" ELSE n.config[key]

(* Mutant: only the keys there were before. *)
ChangedKeys_Before(b, a) ==
  (IF b.type # a.type THEN {"type"} ELSE {})
  \union {key \in ConfigKeys : b.config[key] # "absent" /\ Get(b, key) # Get(a, key)}

ChangedKeys(b, a) ==
  (IF b.type # a.type THEN {"type"} ELSE {})
  \union {key \in ConfigKeys : Get(b, key) # Get(a, key)}

EdgeSet(v) == {<<v.edges[k].source, v.edges[k].target>> : k \in DOMAIN v.edges}

Order(v, ids) == SelectSeq([k \in DOMAIN v.nodes |-> v.nodes[k].id], LAMBDA i : i \in ids)

Diff(v1, v2) ==
  LET common == IdsOf(v1) \cap IdsOf(v2)
  IN  [added    |-> {NodeOf(v2, i) : i \in IdsOf(v2) \ IdsOf(v1)},
       removed  |-> {NodeOf(v1, i) : i \in IdsOf(v1) \ IdsOf(v2)},
       modified |-> {[id |-> i, before |-> NodeOf(v1, i), after |-> NodeOf(v2, i),
                      keys |-> ChangedKeys(NodeOf(v1, i), NodeOf(v2, i))] :
                       i \in {j \in common : ChangedKeys(NodeOf(v1, j), NodeOf(v2, j)) # {}}},
       edgesAdded   |-> EdgeSet(v2) \ EdgeSet(v1),
       edgesRemoved |-> EdgeSet(v1) \ EdgeSet(v2),
       reordered    |-> Order(v1, common) # Order(v2, common)]

IsEmpty(d) ==
  /\ d.added = {} /\ d.removed = {} /\ d.modified = {}
  /\ d.edgesAdded = {} /\ d.edgesRemoved = {} /\ ~d.reordered

(* The types of the nodes added and removed, sorted: how many of each. *)
TypesOf(ns) == {<<t, Cardinality({n \in ns : n.type = t})>> : t \in {n.type : n \in ns}}
Signature(d) == [added |-> TypesOf(d.added), removed |-> TypesOf(d.removed)]

(* The hint in lower case and single spaces, and the signature. *)
Plain == [h \in {"", "h", " H "} |-> IF h = "" THEN "" ELSE "h"]
SuggestionHash(h, d) == <<Plain[h], Signature(d)>>

-----------------------------------------------------------------------------
Candidate(accepted, reason, hash) == [accepted |-> accepted, drop |-> reason, hash |-> hash]
Pending == Candidate(FALSE, "pending", <<>>)

DiffInit ==
  /\ edit \in Edits
  /\ stage = "diffed" /\ hint = "" /\ rejected = {} /\ candidate = Pending

Return(o) ==
  /\ stage' = "over" /\ candidate' = o

(* The model proposes a hint.  A reply that is no JSON or has no text for  *)
(* a hint is noise, one that is called noise is dropped as well.           *)
ProposeHint ==
  /\ stage = "diffed"
  /\ IF IsEmpty(Diff(Before, After))
     THEN Return(Candidate(FALSE, "empty_diff", <<>>)) /\ UNCHANGED hint
     ELSE \E h \in Hints, noise \in BOOLEAN :
            IF noise \/ Plain[h] = ""
            THEN Return(Candidate(FALSE, "empty_proposal", <<>>)) /\ UNCHANGED hint
            ELSE hint' = h /\ stage' = "proposed" /\ UNCHANGED candidate
  /\ UNCHANGED <<edit, rejected>>

(* The hashes the request carries: those of rejections on record. *)
JudgeProposal ==
  LET hash == SuggestionHash(hint, Diff(Before, After))
  IN  /\ stage = "proposed"
      /\ rejected' \in {{}, {SuggestionHash("h", Diff(Before, After))}}
      /\ IF hash \in rejected'
         THEN Return(Candidate(FALSE, "hash_previously_rejected", hash))
         ELSE \E accept \in BOOLEAN :
                Return(Candidate(accept, IF accept THEN "" ELSE "judge_reject", hash))
      /\ UNCHANGED <<edit, hint>>

DiffNext == ProposeHint \/ JudgeProposal
DiffSpec == DiffInit /\ [][DiffNext]_diffVars

-----------------------------------------------------------------------------
(* What a version means: its nodes by id, and its edges. *)
Meaning(v) ==
  [nodes |-> [i \in IdsOf(v) |-> [type |-> NodeOf(v, i).type,
                                  config |-> [key \in ConfigKeys |-> Get(NodeOf(v, i), key)]]],
   edges |-> EdgeSet(v)]

(* A version with the difference applied to it. *)
Patched(v, d) ==
  LET new == d.added \union {m.after : m \in d.modified}
      ids == {n.id : n \in new}
      old == {NodeOf(v, i) : i \in (IdsOf(v) \ ids) \ {n.id : n \in d.removed}}
  IN  [nodes |-> SetToSeq(old \union new),
       edges |-> SetToSeq({[source |-> e[1], target |-> e[2]] :
                             e \in (EdgeSet(v) \ d.edgesRemoved) \union d.edgesAdded})]

Unrepeated(v) == Cardinality(IdsOf(v)) = Len(v.nodes)

(* The difference loses nothing: applied to the one version it gives what  *)
(* the other means, in both directions; it is empty only when the two mean *)
(* the same, and always when their lists are equal in order too.  What is  *)
(* accepted has a hash that is on no record of rejections, however the     *)
(* hint was spelled (workflow_diff.py:109-155).                            *)
DiffExact ==
  LET d    == Diff(Before, After)
      back == Diff(After, Before)
  IN  /\ stage = "diffed" =>
           /\ Meaning(Patched(Before, d)) = Meaning(After)
           /\ back.added = d.removed /\ back.removed = d.added
           /\ IsEmpty(d) <=> IsEmpty(back)
           /\ IsEmpty(d) => Meaning(Before) = Meaning(After)
           /\ Meaning(Before) = Meaning(After) /\ Unrepeated(Before) /\ Unrepeated(After) =>
                (IsEmpty(d) <=> Order(Before, IdsOf(Before)) = Order(After, IdsOf(After)))
      /\ candidate.accepted => candidate.hash \notin rejected /\ ~IsEmpty(d)
=============================================================================
