------------------------------ MODULE OAuthTokens ------------------------------
(***************************************************************************)
(* One Google credential from consent to use: the row the database keeps   *)
(* (FernetCredentialStore), the nodes that need an access token and        *)
(* refresh it when it is about to expire (GoogleWorkspaceNode.             *)
(* _ensure_fresh_token), the consent flow that creates the row or renews   *)
(* it (routers/oauth_google.py callback), and Google itself, which may     *)
(* rotate the refresh token at any refresh and whose owner may revoke it.  *)
(*                                                                         *)
(* Tokens are numbers in the order Google gives them out.  The metadata    *)
(* column is read and written as a whole by each writer, in two steps.     *)
(***************************************************************************)
EXTENDS Integers, FiniteSets

CONSTANTS Nodes,          \* node executions that need the credential
          Processes,      \* worker processes
          MaxTokens       \* bound on the tokens Google gives out

(* The callback and a free lock are no nodes. *)
ASSUME TokensAssumption ==
  IsFiniteSet(Processes) /\ Nodes \cap {"api", "free"} = {} /\ MaxTokens \in Nat

NoToken == 0

VARIABLES proc,           \* the process each node runs in
          row,            \* the credential's row
          valid,          \* external: the refresh token Google accepts, or NoToken
          given,          \* external: tokens given out so far
          pc,             \* where each node's call stands
          sent,           \* the refresh token a node called Google with
          answer,         \* what Google answered, not written yet
          copy,           \* the metadata a writer has read
          lock,           \* per process: the node that holds the lock
          consent,        \* the callback: idle, first, renewed, write
          overlapped,     \* history: a consent ran while a node was refreshing
          lost            \* history: an answer of Google never arrived

tokenVars == <<proc, row, valid, given, pc, sent, answer, copy, lock, consent,
               overlapped, lost>>

Free == "free"

(* access is an oauth_metadata's access_token and whether it expires later *)
(* than a minute from now (_is_fresh); flag is needs_reauth.               *)
Metadata == [access : 0..MaxTokens, fresh : BOOLEAN, flag : BOOLEAN]

Live == row.state = "live"

NoAnswer == [access |-> NoToken, refresh |-> NoToken]

TokensTypeOK ==
  /\ proc \in [Nodes -> Processes]
  /\ row \in [state : {"none", "live", "deleted"}, refresh : 0..MaxTokens, md : Metadata]
  /\ valid \in 0..MaxTokens /\ given \in 0..MaxTokens
  /\ pc \in [Nodes -> {"idle", "wait", "locked", "call", "called", "refused",
                       "answered", "write", "flag", "done", "failed"}]
  /\ sent \in [Nodes -> 0..MaxTokens]
  /\ answer \in [Nodes \union {"api"} -> [access : 0..MaxTokens, refresh : 0..MaxTokens]]
  /\ copy \in [Nodes \union {"api"} -> Metadata]
  /\ lock \in [Processes -> Nodes \union {Free}]
  /\ consent \in {"idle", "first", "renewed", "write"}
  /\ overlapped \in BOOLEAN /\ lost \in BOOLEAN

Blank == [access |-> NoToken, fresh |-> FALSE, flag |-> FALSE]

TokensInit ==
  /\ proc \in [Nodes -> Processes]
  /\ row = [state |-> "none", refresh |-> NoToken, md |-> Blank]
  /\ valid = NoToken /\ given = 0
  /\ pc = [n \in Nodes |-> "idle"]
  /\ sent = [n \in Nodes |-> NoToken]
  /\ answer = [w \in Nodes \union {"api"} |-> NoAnswer]
  /\ copy = [w \in Nodes \union {"api"} |-> Blank]
  /\ lock = [p \in Processes |-> Free]
  /\ consent = "idle"
  /\ overlapped = FALSE /\ lost = FALSE

At(n, l) == pc' = [pc EXCEPT ![n] = l]
Release(n) == lock' = [lock EXCEPT ![proc[n]] = Free]

(* What a call had read and received goes with it. *)
Forget(w) ==
  /\ sent' = [n \in Nodes |-> IF n = w THEN NoToken ELSE sent[n]]
  /\ answer' = [answer EXCEPT ![w] = NoAnswer]
  /\ copy' = [copy EXCEPT ![w] = Blank]
Refreshing == \E n \in Nodes : pc[n] \in {"call", "called", "refused", "answered", "write", "flag"}

-----------------------------------------------------------------------------
(* The fast path: read the row, and return its token if it is fresh. *)
Need(n) ==
  /\ pc[n] \in {"idle", "done", "failed"}
  /\ At(n, IF ~Live THEN "failed" ELSE IF row.md.fresh THEN "done" ELSE "wait")
  /\ UNCHANGED <<proc, row, valid, given, sent, answer, copy, lock, consent, overlapped, lost>>

TakeLock(n) ==
  /\ pc[n] = "wait" /\ lock[proc[n]] = Free
  /\ lock' = [lock EXCEPT ![proc[n]] = n]
  /\ At(n, "locked")
  /\ UNCHANGED <<proc, row, valid, given, sent, answer, copy, consent, overlapped, lost>>

Reread_Once(n) ==
  /\ pc[n] = "locked"
  /\ sent' = [sent EXCEPT ![n] = row.refresh]
  /\ overlapped' = (overlapped \/ consent # "idle")
  /\ At(n, "call")
  /\ UNCHANGED <<proc, row, valid, given, answer, copy, lock, consent, lost>>

(* Under the lock the row is read again: another node may have refreshed   *)
(* it while this one waited.                                               *)
Reread(n) ==
  /\ pc[n] = "locked"
  /\ IF ~Live \/ row.md.fresh
     THEN /\ At(n, IF Live THEN "done" ELSE "failed")
          /\ Release(n)
          /\ UNCHANGED <<sent, overlapped>>
     ELSE /\ sent' = [sent EXCEPT ![n] = row.refresh]
          /\ overlapped' = (overlapped \/ consent # "idle")
          /\ At(n, "call")
          /\ UNCHANGED lock
  /\ UNCHANGED <<proc, row, valid, given, answer, copy, consent, lost>>

CallGoogle(n) ==
  /\ pc[n] = "call"
  /\ At(n, "called")
  /\ UNCHANGED <<proc, row, valid, given, sent, answer, copy, lock, consent, overlapped, lost>>

(* External: a new access token, and a new refresh token in place of the   *)
(* one sent when Google chooses to rotate; or invalid_grant.               *)
GoogleRefreshes(n) ==
  /\ pc[n] = "called"
  /\ IF sent[n] = valid /\ valid # NoToken
     THEN \E rotate \in BOOLEAN :
            LET new == IF rotate THEN given + 2 ELSE NoToken IN
            /\ given + 2 <= MaxTokens
            /\ answer' = [answer EXCEPT ![n] = [access |-> given + 1, refresh |-> new]]
            /\ given' = given + (IF rotate THEN 2 ELSE 1)
            /\ valid' = IF rotate THEN new ELSE valid
            /\ At(n, "answered")
     ELSE At(n, "refused") /\ UNCHANGED <<answer, given, valid>>
  /\ UNCHANGED <<proc, row, sent, copy, lock, consent, overlapped, lost>>

(* The call fails, before or after Google acted on it: the node fails. *)
CallFails(n) ==
  /\ pc[n] \in {"called", "answered"}
  /\ lost' = (lost \/ pc[n] = "answered")
  /\ At(n, "failed") /\ Release(n) /\ Forget(n)
  /\ UNCHANGED <<proc, row, valid, given, consent, overlapped>>

(* update_oauth_tokens and mark_needs_reauth first read the row ... *)
ReadRow(n) ==
  /\ pc[n] \in {"answered", "refused"}
  /\ IF Live
     THEN /\ copy' = [copy EXCEPT ![n] = row.md]
          /\ At(n, IF pc[n] = "answered" THEN "write" ELSE "flag")
          /\ UNCHANGED lock
          /\ UNCHANGED <<sent, answer>>
     ELSE At(n, "failed") /\ Release(n) /\ Forget(n)
  /\ UNCHANGED <<proc, row, valid, given, consent, overlapped, lost>>

KeptRefresh(w) == IF answer[w].refresh = NoToken THEN row.refresh ELSE answer[w].refresh
Updated_NoRotate(w) ==
  [state |-> row.state, refresh |-> row.refresh,
   md |-> [copy[w] EXCEPT !.access = answer[w].access, !.fresh = TRUE, !.flag = FALSE]]
(* ... then write it back: new access token and expiry, no flag, and the   *)
(* refresh token only if Google sent one.                                  *)
Updated(w) ==
  [state |-> row.state, refresh |-> KeptRefresh(w),
   md |-> [copy[w] EXCEPT !.access = answer[w].access, !.fresh = TRUE, !.flag = FALSE]]

WriteRow(n) ==
  /\ pc[n] \in {"write", "flag"}
  /\ IF ~Live THEN UNCHANGED row
     ELSE IF pc[n] = "write" THEN row' = Updated(n)
     ELSE row' = [row EXCEPT !.md = [copy[n] EXCEPT !.flag = TRUE]]
  /\ At(n, IF pc[n] = "write" /\ Live THEN "done" ELSE "failed")
  /\ Release(n) /\ Forget(n)
  /\ UNCHANGED <<proc, valid, given, consent, overlapped, lost>>

-----------------------------------------------------------------------------
(* The user goes through Google's consent: for the first time, to renew a  *)
(* revoked grant or to add scopes.  Scopes added to a live grant leave its *)
(* refresh token as it is; otherwise Google gives a new one.  A deleted    *)
(* credential is not found by authorize() and reauth_credential().         *)
MayConsent == consent = "idle" /\ row.state # "deleted"
Consent ==
  /\ MayConsent
  /\ given + 2 <= MaxTokens
  /\ \E merged \in IF Live /\ valid # NoToken THEN BOOLEAN ELSE {FALSE} :
       LET new == IF merged THEN NoToken ELSE given + 2 IN
       /\ answer' = [answer EXCEPT !["api"] = [access |-> given + 1, refresh |-> new]]
       /\ valid' = IF merged THEN valid ELSE new
  /\ given' = given + 2
  /\ consent' = IF Live THEN "renewed" ELSE "first"
  /\ overlapped' = (overlapped \/ Refreshing)
  /\ UNCHANGED <<proc, row, pc, sent, copy, lock, lost>>

(* callback(): a first consent stores a row with both tokens. *)
CallbackStores ==
  /\ consent = "first"
  /\ row' = [state |-> "live", refresh |-> answer["api"].refresh,
             md |-> [access |-> answer["api"].access, fresh |-> TRUE, flag |-> FALSE]]
  /\ consent' = "idle" /\ Forget("api")
  /\ UNCHANGED <<proc, valid, given, pc, lock, overlapped, lost>>

(* A later one reads the row it is to update; it may be gone by then. *)
CallbackReads ==
  /\ consent = "renewed"
  /\ consent' = IF Live THEN "write" ELSE "idle"
  /\ copy' = IF Live THEN [copy EXCEPT !["api"] = row.md] ELSE copy
  /\ UNCHANGED <<proc, row, valid, given, pc, sent, answer, lock, overlapped, lost>>

(* The browser never comes back, the state is refused, the code cannot be  *)
(* exchanged, the name is taken: nothing is stored.                        *)
CallbackFails ==
  /\ consent \in {"first", "renewed"}
  /\ consent' = "idle" /\ Forget("api")
  /\ lost' = TRUE
  /\ UNCHANGED <<proc, row, valid, given, pc, lock, overlapped>>

CallbackWrites ==
  /\ consent = "write"
  /\ row' = IF Live THEN Updated("api") ELSE row
  /\ consent' = "idle" /\ Forget("api")
  /\ UNCHANGED <<proc, valid, given, pc, lock, overlapped, lost>>

-----------------------------------------------------------------------------
(* External: an hour passes; the owner removes the app at Google. *)
Expire ==
  /\ row.md.fresh
  /\ row' = [row EXCEPT !.md.fresh = FALSE]
  /\ UNCHANGED <<proc, valid, given, pc, sent, answer, copy, lock, consent, overlapped, lost>>

Revoke ==
  /\ valid # NoToken
  /\ valid' = NoToken
  /\ UNCHANGED <<proc, row, given, pc, sent, answer, copy, lock, consent, overlapped, lost>>

(* DELETE /credentials/{id}, with no look at who is using it. *)
Delete ==
  /\ Live
  /\ row' = [row EXCEPT !.state = "deleted"]
  /\ UNCHANGED <<proc, valid, given, pc, sent, answer, copy, lock, consent, overlapped, lost>>

TokensNext ==
  \/ \E n \in Nodes :
       \/ Need(n) \/ TakeLock(n) \/ Reread(n) \/ CallGoogle(n) \/ GoogleRefreshes(n)
       \/ CallFails(n) \/ ReadRow(n) \/ WriteRow(n)
  \/ Consent \/ CallbackStores \/ CallbackReads \/ CallbackFails \/ CallbackWrites
  \/ Expire \/ Revoke \/ Delete

TokensSpec == TokensInit /\ [][TokensNext]_tokenVars

-----------------------------------------------------------------------------
(* What the lock is there for: all users of the row in one process, no     *)
(* consent given while a refresh is under way, every answer received.      *)
Undisturbed == Cardinality({proc[n] : n \in Nodes}) = 1 /\ ~overlapped /\ ~lost

Settled == consent = "idle" /\ ~Refreshing

(* Undisturbed, the row at rest holds the refresh token Google accepts,    *)
(* unless the owner withdrew it, and is flagged for a new consent only     *)
(* when Google would refuse it (google_workspace.py:110-149,               *)
(* credential_store.py:157-190).                                           *)
TokenRowHonest ==
  (Undisturbed /\ Settled /\ Live) =>
    /\ valid # NoToken => row.refresh = valid
    /\ row.md.flag => row.refresh # valid

(* Undisturbed, Google is asked only for a token that has run out: a node  *)
(* that waited for the lock uses what the node before it stored            *)
(* (google_workspace.py:94-119).                                           *)
RefreshesAreNeeded ==
  [][\A n \in Nodes : (CallGoogle(n) /\ Undisturbed) => ~row.md.fresh]_tokenVars
-----------------------------------------------------------------------------
(* The inductive invariant behind TokenRowHonest and RefreshesAreNeeded.   *)

(* The node is past the lock. *)
Holds(n) == pc[n] \in {"locked", "call", "called", "refused", "answered", "write", "flag"}

(* A row that is there has a refresh token, and a first consent brings one. *)
RowInv ==
  /\ Live => row.refresh # NoToken
  /\ consent = "first" => row.state = "none" /\ answer["api"].refresh # NoToken

(* The row and Google agree, and the flag says that they cannot. *)
InStep ==
  /\ valid # NoToken => row.refresh = valid
  /\ row.md.flag => row.refresh # valid

(* What a refresh under way has sent, received and not yet stored. *)
RefreshInv(n) ==
  /\ pc[n] = "call" => ~row.md.fresh
  /\ Live /\ pc[n] \in {"call", "called"} => sent[n] = row.refresh /\ InStep
  /\ Live /\ pc[n] \in {"refused", "flag"} => valid = NoToken
  /\ Live /\ pc[n] \in {"answered", "write"} => valid \in {NoToken, KeptRefresh(n)}

(* One at a time the writers take the row from Google's state to the next. *)
TurnsInv ==
  /\ consent # "idle" => ~Refreshing
  /\ consent = "first" => valid \in {NoToken, answer["api"].refresh}
  /\ Live /\ consent \in {"renewed", "write"} => valid \in {NoToken, KeptRefresh("api")}
  /\ Live /\ Settled => InStep
  /\ \A n \in Nodes : RefreshInv(n)

TokensInv ==
  /\ TokensTypeOK /\ RowInv
  /\ \A n \in Nodes : Holds(n) => lock[proc[n]] = n
  /\ Undisturbed => TurnsInv
=============================================================================
