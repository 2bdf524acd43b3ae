----------------------------- MODULE MCApiServices -----------------------------
(* The API server's accounts, its streamed replies, its in-memory tables,   *)
(* the Google credential and the page over the skills it serves, each on    *)
(* its own: what is not in focus stays still.                               *)
EXTENDS RationaleStream, RequestGuards, OAuthTokens, SkillLibrary, Accounts

VARIABLE focus
mcVars == <<streamVars, guardVars, tokenVars, libraryVars, accountVars, focus>>

(* The skills page is looked at twice: with the disclosure and two decisions *)
(* or extras, and without it and with all of them.                          *)

(* Every reply of up to four of these pieces. *)
Pieces == {OPEN, CLOSE, <<"<">>, <<"x">>, <<"_">>, <<"{", "}">>}
MCReplies == {FlattenSeq(p) : p \in UNION {[1..n -> Pieces] : n \in 1..4}}

MCInit ==
  /\ focus \in {"stream", "limiter", "states", "tokens", "library", "decisions", "accounts"}
  /\ (IF focus = "stream" THEN StreamInit
      ELSE reply = <<"x">> /\ fed = 0 /\ st = "PRE" /\ buf = <<>> /\ shown = <<>> /\ tail = <<>>)
  /\ GuardInit
  /\ (IF focus = "tokens" THEN TokensInit
      ELSE TokensInit /\ proc = [n \in Nodes |-> CHOOSE p \in Processes : TRUE])
  /\ LibraryInit /\ AccountsInit
  /\ focus = "decisions" => \A i \in Candidates : skills[i].status = "pending_review"
  /\ focus \in {"library", "decisions"} \/ \A i \in Candidates : skills[i].status = "active"

MCNext ==
  /\ UNCHANGED focus
  /\ \/ /\ focus = "accounts" /\ AccountsNext
        /\ UNCHANGED <<streamVars, guardVars, tokenVars, libraryVars>>
     \/ /\ focus # "accounts" /\ UNCHANGED accountVars
        /\ \/ focus = "stream" /\ StreamNext /\ UNCHANGED <<guardVars, tokenVars, libraryVars>>
           \/ focus = "limiter" /\ (Tick \/ Acquire) /\ UNCHANGED <<streamVars, tokenVars, libraryVars>>
           \/ /\ focus = "states"
              /\ Tick \/ \E s \in States : Issue(s) \/ Verify(s)
              /\ UNCHANGED <<streamVars, tokenVars, libraryVars>>
           \/ focus = "tokens" /\ TokensNext /\ UNCHANGED <<streamVars, guardVars, libraryVars>>
           \/ /\ focus \in {"library", "decisions"} /\ LibraryNext
              /\ IF focus = "library" THEN presses' + extras' <= 2 ELSE shownTab' = NoTab
              /\ UNCHANGED <<streamVars, guardVars, tokenVars>>

MCSpec == MCInit /\ [][MCNext]_mcVars
=============================================================================
