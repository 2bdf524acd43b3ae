------------------------------ MODULE SkillWizard ------------------------------
(***************************************************************************)
(* The wizard that turns a team's policies into skills: the page           *)
(* (skill-wizard.tsx, skill-card.tsx) with its store                       *)
(* (skill-wizard-store.ts), and the services behind its four calls         *)
(* (skill_bootstrap_service.py, the agent's skill_bootstrap.py).           *)
(*                                                                         *)
(* The user picks a domain, may have skills extracted from a document, is  *)
(* asked about the policies that are missing, one at a time, and decides   *)
(* on the drafts.  A call goes on when the user starts over, and its       *)
(* answer is applied to whatever the store holds by then; the browser may  *)
(* also give up on a call the server goes on with.                         *)
(*                                                                         *)
(* A turn is a policy of a domain, or a follow-up on it.  What is answered *)
(* and what the model writes are left out.                                 *)
(***************************************************************************)
EXTENDS Integers, Sequences, FiniteSets

CONSTANTS Domains,        \* the domains with policies of their own
          MaxPolicies,    \* policies of a domain
          MaxSessions,    \* bound on sessions
          MaxCalls,       \* bound on calls
          MaxMishaps      \* bound on the kinds of mishaps of one behaviour

ASSUME WizardAssumption == MaxPolicies \in Nat

Other == "other"          \* the domain without policies
NoSession == 0

VARIABLES phase, session, domain, queue, index, drafts, selected,   \* the store
          calls,          \* what is on its way, or being served
          asked,          \* calls so far
          sessions,       \* sessions so far
          skills,         \* rows, in the order of their creation
          mishaps         \* history: late, abandoned

wizardVars == <<phase, session, domain, queue, index, drafts, selected,
                calls, asked, sessions, skills, mishaps>>
store == <<phase, session, domain, queue, index, drafts, selected>>

Turn(d, p, f) == [domain |-> d, policy |-> p, followUp |-> f]
SeedPolicies(d) ==
  IF d = Other THEN <<>> ELSE [p \in 1..MaxPolicies |-> Turn(d, p, FALSE)]

WizardInit ==
  /\ phase = "domain" /\ session = NoSession /\ domain = Other
  /\ queue = <<>> /\ index = 1 /\ drafts = <<>> /\ selected = FALSE
  /\ calls = {} /\ asked = 0 /\ sessions = 0
  /\ skills = <<>> /\ mishaps = {}

NoTurn == Turn(Other, 0, FALSE)
Call(kind, turn, skill) ==
  [n |-> asked + 1, kind |-> kind, st |-> "sent", heard |-> TRUE, ok |-> TRUE,
   session |-> session, domain |-> domain, some |-> selected,
   turn |-> turn, skill |-> skill, gaps |-> <<>>, unclear |-> FALSE]
Post(c) == asked < MaxCalls /\ asked' = asked + 1 /\ calls' = calls \union {c}
Becomes(c, d) == calls' = (calls \ {c}) \union {d}

-----------------------------------------------------------------------------
(* The page: what it offers in each phase, by the components it shows, and *)
(* what a card offers.                                                     *)
DocChoice == {"extract", "skip"}
ExtractReview == {"toggle", "continue", "back"}
Shows ==
  CASE phase = "domain"         -> {"pick"}
    [] phase = "doc-choice"     -> DocChoice
    [] phase = "extract-review" -> ExtractReview
    [] phase = "asking"         -> IF index <= Len(queue) THEN {"submit"} ELSE {}
    [] phase = "done"           -> IF drafts # <<>> THEN {"cards"} ELSE {}
    [] OTHER                    -> {}              \* loading, extracting, error
Offers(button) == button \in Shows

Settled(d) == d.status \in {"active", "rejected"}
CardOffers(d) ==
  (IF d.status \in {"pending", "failed"} THEN {"approve", "reject"} ELSE {})
    \union (IF d.unclear /\ ~d.followUpAsked /\ ~Settled(d) THEN {"follow-up"} ELSE {})

PickDomain ==
  /\ Offers("pick") /\ sessions < MaxSessions
  /\ sessions' = sessions + 1
  /\ session' = sessions + 1
  /\ domain' \in Domains \union {Other}
  /\ phase' = "doc-choice"
  /\ UNCHANGED <<queue, index, drafts, selected, calls, asked, skills, mishaps>>

Extract ==
  /\ Offers("extract")
  /\ Post(Call("extract", NoTurn, 0))
  /\ phase' = "extracting"
  /\ UNCHANGED <<session, domain, queue, index, drafts, selected, sessions, skills, mishaps>>

(* Skip declares no skills, Continue those that are still checked. *)
Bootstrap ==
  /\ Offers("skip") \/ Offers("continue")
  /\ Post([Call("bootstrap", NoTurn, 0) EXCEPT
             !.some = (Offers("continue") /\ selected)])
  /\ phase' = "loading"
  /\ UNCHANGED <<session, domain, queue, index, drafts, selected, sessions, skills, mishaps>>

ToggleCandidate ==
  /\ Offers("toggle") /\ selected
  /\ selected' = FALSE
  /\ UNCHANGED <<phase, session, domain, queue, index, drafts, calls, asked, sessions,
                 skills, mishaps>>

BackToDocChoice ==
  /\ Offers("back")
  /\ phase' = "doc-choice" /\ selected' = FALSE
  /\ UNCHANGED <<session, domain, queue, index, drafts, calls, asked, sessions, skills, mishaps>>

SubmitPolicyAnswers ==
  /\ Offers("submit")
  /\ Post(Call("answers", queue[index], 0))
  /\ phase' = "loading"
  /\ UNCHANGED <<session, domain, queue, index, drafts, selected, sessions, skills, mishaps>>

WithStatus(k, st) ==
  [i \in DOMAIN drafts |-> IF drafts[i].skill = k THEN [drafts[i] EXCEPT !.status = st]
                                                  ELSE drafts[i]]

(* Approve and Reject on a card. *)
Decide ==
  /\ Offers("cards")
  /\ \E i \in DOMAIN drafts : \E kind \in CardOffers(drafts[i]) \ {"follow-up"} :
       /\ Post(Call(kind, NoTurn, drafts[i].skill))
       /\ drafts' = WithStatus(drafts[i].skill, "deciding")
  /\ UNCHANGED <<phase, session, domain, queue, index, selected, sessions, skills, mishaps>>

PushFollowUpQuestion ==
  /\ Offers("cards")
  /\ \E i \in DOMAIN drafts :
       /\ "follow-up" \in CardOffers(drafts[i])
       /\ queue' = Append(queue, [drafts[i].turn EXCEPT !.followUp = TRUE])
       /\ drafts' = [drafts EXCEPT ![i].followUpAsked = TRUE]
  /\ index' = Len(queue) + 1
  /\ phase' = "asking"
  /\ UNCHANGED <<session, domain, selected, calls, asked, sessions, skills, mishaps>>

(* Start over, in any phase, whatever is on its way. *)
Reset ==
  /\ phase # "domain"
  /\ phase' = "domain" /\ session' = NoSession /\ domain' = Other
  /\ queue' = <<>> /\ index' = 1 /\ drafts' = <<>> /\ selected' = FALSE
  /\ mishaps' = mishaps \union
       IF \E c \in calls : c.heard /\ c.kind \in {"extract", "bootstrap", "answers"}
       THEN {"late"} ELSE {}
  /\ Cardinality(mishaps') <= MaxMishaps
  /\ UNCHANGED <<calls, asked, sessions, skills>>

-----------------------------------------------------------------------------
(* The services.  A reply that does not parse, a policy of another domain, *)
(* the agent out of reach: the call is answered by an error.               *)
Serving(c, kinds) == c \in calls /\ c.kind \in kinds /\ c.st = "sent"
Fail(c) ==
  /\ c \in calls /\ c.st \in {"sent", "checked"}
  /\ Becomes(c, [c EXCEPT !.st = "done", !.ok = FALSE])
  /\ UNCHANGED <<store, asked, sessions, skills, mishaps>>

ServeExtract(c) ==
  /\ Serving(c, {"extract"})
  /\ \E some \in BOOLEAN : Becomes(c, [c EXCEPT !.st = "done", !.some = some])
  /\ UNCHANGED <<store, asked, sessions, skills, mishaps>>

(* analyze_gaps: all that the domain has when no skill is declared, else   *)
(* what the model lists, in its order and perhaps twice.                   *)
Gaps(c) ==
  IF ~c.some \/ c.domain = Other THEN {SeedPolicies(c.domain)}
  ELSE UNION {[1..n -> {SeedPolicies(c.domain)[p] : p \in 1..MaxPolicies}] : n \in 0..MaxPolicies}

ServeBootstrap(c) ==
  /\ Serving(c, {"bootstrap"})
  /\ \E gaps \in Gaps(c) : Becomes(c, [c EXCEPT !.st = "done", !.gaps = gaps])
  /\ UNCHANGED <<store, asked, sessions, skills, mishaps>>

(* answers_to_skill knows the policies of the domain it is told. *)
Known(c) == c.turn.domain = c.domain /\ c.turn.policy \in DOMAIN SeedPolicies(c.domain)

(* _parse_skill_response: a draft may say that it needs a clarification.    *)
Parsed(c, unclear) == [c EXCEPT !.st = "done", !.skill = Len(skills) + 1, !.unclear = unclear]

ServeAnswers(c) ==
  /\ Serving(c, {"answers"}) /\ Known(c)
  /\ skills' = Append(skills, [session |-> c.session, turn |-> c.turn, status |-> "pending_review"])
  /\ \E unclear \in BOOLEAN : Becomes(c, Parsed(c, unclear))
  /\ UNCHANGED <<store, asked, sessions, mishaps>>

(* _transition: the status is read in one transaction and written in the   *)
(* next.                                                                   *)
Transition_Unchecked(c) ==
  /\ Serving(c, {"approve", "reject"})
  /\ Becomes(c, [c EXCEPT !.st = "checked"])
  /\ UNCHANGED <<store, asked, sessions, skills, mishaps>>

Transition(c) ==
  /\ Serving(c, {"approve", "reject"})
  /\ Becomes(c, IF skills[c.skill].status = "pending_review" THEN [c EXCEPT !.st = "checked"]
                ELSE [c EXCEPT !.st = "done", !.ok = FALSE])
  /\ UNCHANGED <<store, asked, sessions, skills, mishaps>>

UpdateStatus(c) ==
  /\ c \in calls /\ c.st = "checked"
  /\ skills' = [skills EXCEPT ![c.skill].status =
                  IF c.kind = "approve" THEN "active" ELSE "rejected"]
  /\ Becomes(c, [c EXCEPT !.st = "done"])
  /\ UNCHANGED <<store, asked, sessions, mishaps>>

Serves == \E c \in calls :
  Fail(c) \/ ServeExtract(c) \/ ServeBootstrap(c) \/ ServeAnswers(c)
  \/ Transition(c) \/ UpdateStatus(c)

-----------------------------------------------------------------------------
(* The answers, as they reach the store. *)
Over(c) == c \in calls /\ c.st = "done" /\ c.heard /\ calls' = calls \ {c}

(* The error is all that is left to show: the way on is to start over. *)
ShowError(c) ==
  IF c.kind \in {"approve", "reject"}
  THEN /\ drafts' = WithStatus(c.skill, "failed")
       /\ UNCHANGED <<phase, session, domain, queue, index, selected>>
  ELSE /\ phase' = "error"
       /\ UNCHANGED <<session, domain, queue, index, drafts, selected>>

SetError(c) ==
  /\ Over(c) /\ ~c.ok
  /\ ShowError(c)
  /\ UNCHANGED <<asked, sessions, skills, mishaps>>

(* The connection goes while the server works, or with its answer. *)
Abandon(c) ==
  /\ c \in calls /\ c.heard
  /\ calls' = (calls \ {c}) \union
       IF c.st = "done" THEN {} ELSE {[c EXCEPT !.heard = FALSE]}
  /\ ShowError(c)
  /\ mishaps' = mishaps \union IF c.st = "done" THEN {} ELSE {"abandoned"}
  /\ Cardinality(mishaps') <= MaxMishaps
  /\ UNCHANGED <<asked, sessions, skills>>

Forgotten(c) ==                           \* done, and nobody is waiting
  /\ c \in calls /\ c.st = "done" /\ ~c.heard
  /\ calls' = calls \ {c}
  /\ UNCHANGED <<store, asked, sessions, skills, mishaps>>

AcceptExtract(c) ==
  /\ Over(c) /\ c.ok /\ c.kind = "extract"
  /\ phase' = "extract-review" /\ selected' = c.some
  /\ UNCHANGED <<session, domain, queue, index, drafts, asked, sessions, skills, mishaps>>

AcceptBootstrap(c) ==
  /\ Over(c) /\ c.ok /\ c.kind = "bootstrap"
  /\ session' = c.session /\ domain' = c.domain
  /\ queue' = c.gaps /\ index' = 1 /\ drafts' = <<>>
  /\ phase' = IF c.gaps = <<>> THEN "done" ELSE "asking"
  /\ UNCHANGED <<selected, asked, sessions, skills, mishaps>>

AcceptAnswers_Stays(c) ==
  /\ Over(c) /\ c.ok /\ c.kind = "answers"
  /\ drafts' = Append(drafts, [skill |-> c.skill, turn |-> c.turn, status |-> "pending",
                               unclear |-> c.unclear, followUpAsked |-> FALSE])
  /\ index' = Len(drafts')
  /\ session' = c.session
  /\ phase' = IF index' < Len(queue) THEN "asking" ELSE "done"
  /\ UNCHANGED <<domain, queue, selected, asked, sessions, skills, mishaps>>

AcceptAnswers(c) ==
  /\ Over(c) /\ c.ok /\ c.kind = "answers"
  /\ drafts' = Append(drafts, [skill |-> c.skill, turn |-> c.turn, status |-> "pending",
                               unclear |-> c.unclear, followUpAsked |-> FALSE])
  /\ index' = index + 1
  /\ session' = c.session
  /\ phase' = IF index' <= Len(queue) THEN "asking" ELSE "done"
  /\ UNCHANGED <<domain, queue, selected, asked, sessions, skills, mishaps>>

ApplyServerStatus(c) ==
  /\ Over(c) /\ c.ok /\ c.kind \in {"approve", "reject"}
  /\ drafts' = WithStatus(c.skill, IF c.kind = "approve" THEN "active" ELSE "rejected")
  /\ UNCHANGED <<phase, session, domain, queue, index, selected, asked, sessions, skills, mishaps>>

Arrives == \E c \in calls :
  SetError(c) \/ Abandon(c) \/ Forgotten(c) \/ AcceptExtract(c) \/ AcceptBootstrap(c)
  \/ AcceptAnswers(c) \/ ApplyServerStatus(c)

WizardNext ==
  \/ PickDomain \/ Extract \/ Bootstrap \/ ToggleCandidate \/ BackToDocChoice
  \/ SubmitPolicyAnswers \/ Decide \/ PushFollowUpQuestion \/ Reset
  \/ Serves \/ Arrives

WizardSpec == WizardInit /\ [][WizardNext]_wizardVars

-----------------------------------------------------------------------------
(* When the review is shown, every policy that was missing and every       *)
(* follow-up has been answered, in order and once, each by a card whose    *)
(* skill is the row this session stored for it; unless the user started    *)
(* over while a call was on its way (skill-wizard-store.ts:196-311).       *)
ReviewComplete ==
  (phase = "done" /\ "late" \notin mishaps) =>
    /\ [i \in DOMAIN drafts |-> drafts[i].turn] = queue
    /\ \A i \in DOMAIN drafts :
         /\ skills[drafts[i].skill].session = session
         /\ skills[drafts[i].skill].turn = drafts[i].turn

(* A decision on a skill, once stored, is never changed by a later one,    *)
(* whatever answers were lost, unless the browser gave up on a call while  *)
(* the server was at it (skill_bootstrap_service.py:197-219).              *)
DecisionStands ==
  [][\A k \in DOMAIN skills :
       skills[k].status # "pending_review" /\ "abandoned" \notin mishaps' =>
         skills'[k].status = skills[k].status]_wizardVars
=============================================================================
