------------------------------ MODULE SkillLibrary ------------------------------
(***************************************************************************)
(* The skills page: the team's marketplace, the user's own patterns in two *)
(* lanes (pending and active) and a disclosure that lists one status at a  *)
(* time (skills-library.tsx, suggested-from-edits.tsx), against the rows   *)
(* the API server serves.                                                  *)
(*                                                                         *)
(* Each list is a query of the page's cache.  A decision is a call of its  *)
(* own; when its answer comes the page invalidates some of the queries,    *)
(* which asks for those on display again.  An answer to a list that was    *)
(* asked for before is dropped, unless it is the first the query gets.     *)
(***************************************************************************)
EXTENDS Integers

CONSTANTS Candidates,     \* ids of the user's skills
          Tabs,           \* statuses the disclosure is opened on
          MaxExtras,      \* bound: calls that fail, lists asked for again for their age
          MaxPresses      \* bound: decisions sent

Lanes   == {"pending", "active"}
Skills  == {"market"} \union Tabs          \* the queries under the key "skills"
Queries == Lanes \union Skills
Ops     == {"activate", "reject", "share"}

VARIABLES skills,            \* per candidate: status and scope, in the table
          data,           \* per query: the answers kept, none before the first
          stale,          \* queries invalidated while not on display
          asking,          \* per query: where its call is, and what it carries
          shownTab,       \* the status the disclosure is open on, "" when closed
          call,           \* per decision and candidate: where the call is
          form,           \* candidates whose reject form is open
          missed,         \* history: queries that were not asked again as they should have been
          extras,         \* counts towards MaxExtras
          presses         \* counts towards MaxPresses

libraryVars == <<skills, data, stale, asking, shownTab, call, form, missed, extras, presses>>

NoData == {<<"no", "data">>}
NoTab  == ""
Idle   == [at |-> "idle", rows |-> {}]
Asked  == [at |-> "asked", rows |-> {}]

Private(i) == skills[i].scope = "user"

(* list_owned: all rows of one status, or those of user scope only. *)
Owned(status, scopes) ==
  {<<i, skills[i].scope>> : i \in {j \in Candidates : skills[j].status = status /\ skills[j].scope \in scopes}}

Truth(q) ==
  CASE q = "pending" -> Owned("pending_review", {"user"})
    [] q = "active"  -> Owned("active", {"user"})
    [] q = "market"  -> Owned("active", {"user", "workspace"})
    [] OTHER         -> Owned(q, {"user", "workspace"})

Listed(q) == IF data[q] = NoData THEN {} ELSE {p[1] : p \in data[q]}
OnDisplay == Lanes \union {"market"} \union ({shownTab} \ {NoTab})

LibraryInit ==
  /\ skills \in [Candidates -> [status : {"pending_review", "active"}, scope : {"user"}]]
  /\ shownTab = NoTab
  /\ data = [q \in Queries |-> NoData]
  /\ stale = {}
  /\ asking = [q \in Queries |-> IF q \in OnDisplay THEN Asked ELSE Idle]
  /\ call = [o \in Ops |-> [i \in Candidates |-> "idle"]]
  /\ form = {}
  /\ missed = {}
  /\ extras = 0 /\ presses = 0

-----------------------------------------------------------------------------
(* A list: asked for, read from the table, shown. *)
ServeList(q) ==
  /\ asking[q].at = "asked"
  /\ asking' = [asking EXCEPT ![q] = [at |-> "read", rows |-> Truth(q)]]
  /\ UNCHANGED <<skills, data, stale, shownTab, call, form, missed, extras, presses>>

ListArrives(q) ==
  /\ asking[q].at = "read"
  /\ data' = [data EXCEPT ![q] = asking[q].rows]
  /\ stale' = stale \ {q}
  /\ asking' = [asking EXCEPT ![q] = Idle]
  /\ UNCHANGED <<skills, shownTab, call, form, missed, extras, presses>>

ListFails(q) ==
  /\ extras < MaxExtras /\ asking[q].at # "idle"
  /\ asking' = [asking EXCEPT ![q] = Idle]
  /\ extras' = extras + 1
  /\ missed' = missed \union {q}
  /\ UNCHANGED <<skills, data, stale, shownTab, call, form, presses>>

(* The window has the focus again, or the data is a minute old. *)
Refetch(q) ==
  /\ extras < MaxExtras /\ q \in OnDisplay /\ asking[q].at = "idle"
  /\ extras' = extras + 1
  /\ asking' = [asking EXCEPT ![q] = Asked]
  /\ missed' = missed \ {q}
  /\ UNCHANGED <<skills, data, stale, shownTab, call, form, presses>>

(* The disclosure is opened, closed or turned to another status: a list    *)
(* that is missing or invalidated is asked for.                            *)
Disclose(t) ==
  /\ t # shownTab
  /\ shownTab' = t
  /\ IF t \in Tabs /\ asking[t].at = "idle" /\ (data[t] = NoData \/ t \in stale)
     THEN /\ asking' = [asking EXCEPT ![t] = Asked]
          /\ missed' = missed \ {t}
     ELSE UNCHANGED <<asking, missed>>
  /\ UNCHANGED <<skills, data, stale, call, form, extras, presses>>

(* invalidateQueries: those on display are asked for again at once.  A     *)
(* call under way is given up for it, except the query's first one.  The    *)
(* "unasked" ones should have been invalidated as well.                    *)
Restarts(q) == q \in OnDisplay /\ (asking[q].at = "idle" \/ data[q] # NoData)

Invalidate(qs, unasked) ==
  LET again == {q \in qs : Restarts(q)}
  IN  /\ asking' = [q \in Queries |-> IF q \in again THEN Asked ELSE asking[q]]
      /\ stale' = stale \union qs
      /\ missed' = (missed \ again) \union {q \in qs \ again : asking[q].at # "idle"}
                     \union unasked

-----------------------------------------------------------------------------
(* A row of the pending lane: its buttons are off while one of its calls   *)
(* is under way, the one that confirms a rejection only while that one is. *)
Busy(i) == call["activate"][i] # "idle" \/ call["reject"][i] # "idle"

RejectForm(i) ==
  /\ i \in Listed("pending")
  /\ \/ ~Busy(i) /\ form' = IF i \in form THEN form \ {i} ELSE form \union {i}
     \/ i \in form /\ form' = form \ {i}
  /\ UNCHANGED <<skills, data, stale, asking, shownTab, call, missed, extras, presses>>

Offered(o, i) ==
  CASE o = "activate" -> i \in Listed("pending") /\ ~Busy(i)
    [] o = "reject"   -> i \in Listed("pending") \cap form /\ call["reject"][i] = "idle"
    [] o = "share"    -> i \in Listed("active") /\ call["share"][i] = "idle"

Press(o, i) ==
  /\ Offered(o, i)
  /\ presses < MaxPresses /\ presses' = presses + 1
  /\ call' = [call EXCEPT ![o][i] = "sent"]
  /\ UNCHANGED <<skills, data, stale, asking, shownTab, form, missed, extras>>

Due == [activate |-> "pending_review", reject |-> "pending_review", share |-> "active"]

(* _require_candidate, or the check of share_candidate. *)
Check(o, i) ==
  /\ call[o][i] = "sent"
  /\ call' = [call EXCEPT ![o][i] =
       IF Private(i) /\ skills[i].status = Due[o] THEN "checked" ELSE "refused"]
  /\ UNCHANGED <<skills, data, stale, asking, shownTab, form, missed, extras, presses>>

(* update_status, whatever the row has become since; share_to_workspace,   *)
(* unless the row is the workspace's by now.  A row that was shared after   *)
(* the check is changed all the same, but it has no user to put in the     *)
(* answer (_to_candidate_response): an error goes out instead, and the page *)
(* asks for no list again.                                                 *)
Carry(o, i) ==
  /\ call[o][i] = "checked"
  /\ call' = [call EXCEPT ![o][i] = IF Private(i) THEN "done" ELSE "refused"]
  /\ skills' = [skills EXCEPT ![i] =
       CASE o = "activate" -> [@ EXCEPT !.status = "active"]
         [] o = "reject"   -> [@ EXCEPT !.status = "archived"]
         [] o = "share"    -> [@ EXCEPT !.scope = "workspace"]]
  /\ missed' = IF Private(i) \/ o = "share" THEN missed ELSE Queries
  /\ UNCHANGED <<data, stale, asking, shownTab, form, extras, presses>>

(* Mutant: the lane a row leaves is refreshed, not the one it enters. *)
Refreshed_OneLane(o) ==
  CASE o = "activate" -> {"pending"} \union Skills
    [] o = "reject"   -> Lanes
    [] o = "share"    -> Lanes \union Skills

(* The queries that are invalidated by the answer to a decision. *)
Refreshed(o) ==
  CASE o = "activate" -> Lanes \union Skills
    [] o = "reject"   -> Lanes
    [] o = "share"    -> Lanes \union Skills

Decided(o, i) ==
  /\ call[o][i] = "done"
  /\ call' = [call EXCEPT ![o][i] = "idle"]
  /\ form' = IF o = "reject" THEN form \ {i} ELSE form
  /\ UNCHANGED <<skills, data, shownTab, extras, presses>>
  /\ Invalidate(Refreshed(o), IF o = "reject" THEN Skills ELSE {})

(* 404, 409 or 500: the row shows the error, no query is asked again. *)
Refused(o, i) ==
  /\ call[o][i] = "refused"
  /\ call' = [call EXCEPT ![o][i] = "idle"]
  /\ UNCHANGED <<skills, data, stale, asking, shownTab, form, missed, extras, presses>>

(* The request or its answer is lost: an error as well. *)
DecisionLost(o, i) ==
  /\ extras < MaxExtras /\ call[o][i] \in {"sent", "done", "refused"}
  /\ call' = [call EXCEPT ![o][i] = "idle"]
  /\ extras' = extras + 1
  /\ missed' = missed \union (IF call[o][i] = "done" THEN Queries ELSE {})
  /\ UNCHANGED <<skills, data, stale, asking, shownTab, form, presses>>

LibraryNext ==
  \/ \E q \in Queries : ServeList(q) \/ ListArrives(q) \/ ListFails(q) \/ Refetch(q)
  \/ \E t \in Tabs \union {NoTab} : Disclose(t)
  \/ \E i \in Candidates : RejectForm(i)
  \/ \E o \in Ops, i \in Candidates :
       Press(o, i) \/ Check(o, i) \/ Carry(o, i) \/ Decided(o, i) \/ Refused(o, i) \/ DecisionLost(o, i)

LibrarySpec == LibraryInit /\ [][LibraryNext]_libraryVars

-----------------------------------------------------------------------------
AtRest ==
  /\ \A q \in Queries : asking[q].at = "idle"
  /\ \A o \in Ops, i \in Candidates : call[o][i] = "idle"

(* Once nothing is under way, every list on display is the table's, after  *)
(* any overlapping decisions; except one a call of which failed, or whose  *)
(* first answer was still on the way when a decision was answered, or that *)
(* a rejection is not meant to refresh, and except after a decision that   *)
(* was carried out and answered with an error, unless it was asked for     *)
(* again since (suggested-from-edits.tsx:206-231).                         *)
PanelMatches == AtRest => \A q \in OnDisplay \ missed : data[q] = Truth(q)
-----------------------------------------------------------------------------
(* Why: the inductive invariant.  A list that should be right is so, or    *)
(* has a call under way that will make it so, or is not on display and     *)
(* will be asked for when it is; unless a decision's answer is on its way, *)
(* which then sees to that.                                                *)
Stages == {"idle", "sent", "checked", "done", "refused"}

LibraryTypeOK ==
  /\ skills \in [Candidates -> [status : {"pending_review", "active", "archived"},
                                scope : {"user", "workspace"}]]
  /\ asking \in [Queries -> [at : {"idle", "asked", "read"},
                             rows : SUBSET (Candidates \X {"user", "workspace"})]]
  /\ data = [q \in Queries |-> data[q]]
  /\ call \in [Ops -> [Candidates -> Stages]]
  /\ shownTab \in Tabs \union {NoTab}

AnswerOnItsWay == \E o \in Ops, i \in Candidates : call[o][i] = "done"

ListFollows(q) ==
  \/ q \in missed
  \/ asking[q].at = "asked"
  \/ asking[q].at = "read" /\ asking[q].rows = Truth(q)
  \/ asking[q].at = "idle" /\ data[q] = Truth(q)
  \/ asking[q].at = "idle" /\ q \notin OnDisplay /\ (data[q] = NoData \/ q \in stale)

LibraryInv == LibraryTypeOK /\ (AnswerOnItsWay \/ \A q \in Queries : ListFollows(q))

=============================================================================
