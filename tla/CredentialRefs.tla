---------------------------- MODULE CredentialRefs -----------------------------
(***************************************************************************)
(* Credentials, and the nodes of one workflow that refer to them.  The API *)
(* server keeps the rows (credential_service.py, credential_store.py) and  *)
(* checks the references of an execution it accepts; a worker              *)
(* (runtime/credentials.py) or an agent (agent/credential_client.py) puts  *)
(* the secrets in their place, later, when rows and graph may have         *)
(* changed.                                                                *)
(***************************************************************************)
EXTENDS FiniteSets, Integers, TLC

CONSTANTS Users, Owner,   \* Owner, one of them, has the workflow
          Creds,          \* ids of credentials, each used once
          RefNodes,       \* nodes of the workflow
          RefGraphs,      \* what they may say: each no reference, or one
          Runs,           \* slots for executions
          MaxVersion, MaxEdits  \* bounds: tokens of a row, edits of the graph

ASSUME CredentialAssumption == Owner \in Users /\ "nobody" \notin Users

VARIABLES rows,           \* the credentials table
          deleting,       \* deletions between their two transactions
          saved, edits,   \* the workflow's references
          run,            \* per slot: an execution, from request to its nodes
          ownerOf,        \* history: who made a credential
          deleted         \* history: ids that were deleted

credVars == <<rows, deleting, saved, edits, run, ownerOf, deleted>>

NoRow == [owner |-> "nobody"]
There == {c \in Creds : rows[c] # NoRow}
Idle  == [at |-> "idle"]

(* A reference may lack its id; nothing checks what the request sends. *)
HasId(ref) == ref.cred \in Creds
IdsOf(g)   == {g[n].cred : n \in {m \in RefNodes : HasId(g[m])}}
HasRefs(g) == \E n \in RefNodes : g[n].cred # "none"

CredInit ==
  /\ rows = [c \in Creds |-> NoRow] /\ deleting = {}
  /\ saved \in RefGraphs /\ edits = 0
  /\ run = [r \in Runs |-> Idle]
  /\ ownerOf = [c \in Creds |-> "nobody"] /\ deleted = {}

Moves(r, s) == run' = [run EXCEPT ![r] = s]
RowsStay == UNCHANGED <<rows, deleting, ownerOf, deleted>>
RunStays == UNCHANGED <<saved, edits, run>>

-----------------------------------------------------------------------------
(* create, and store_google_oauth at the end of a consent; a name its      *)
(* owner has used changes nothing.                                         *)
Create(u, c, kind) ==
  /\ ownerOf[c] = "nobody"
  /\ rows' = [rows EXCEPT ![c] = [owner |-> u, kind |-> kind, version |-> 1]]
  /\ ownerOf' = [ownerOf EXCEPT ![c] = u]
  /\ UNCHANGED <<deleting, deleted>> /\ RunStays

(* update_oauth_tokens, from a refresh or a consent. *)
Update(c) ==
  /\ c \in There /\ rows[c].kind = "google" /\ rows[c].version < MaxVersion
  /\ rows' = [rows EXCEPT ![c].version = @ + 1]
  /\ UNCHANGED <<deleting, ownerOf, deleted>> /\ RunStays

(* Mutant: the owner is not part of the query. *)
Retrieved_Anyones(cs, u) == cs \subseteq There

(* bulk_retrieve: all of them, or none. *)
Retrieved(cs, u) == \A c \in cs : c \in There /\ rows[c].owner = u

DeleteProbes(u, c) ==
  /\ Retrieved({c}, u) /\ c \notin deleting
  /\ deleting' = deleting \union {c}
  /\ UNCHANGED <<rows, ownerOf, deleted>> /\ RunStays

DeleteRow(c) ==
  /\ c \in deleting /\ deleting' = deleting \ {c}
  /\ rows' = [rows EXCEPT ![c] = NoRow]
  /\ deleted' = deleted \union {c}
  /\ UNCHANGED ownerOf /\ RunStays

(* The owner saves the workflow; references are not looked at. *)
Edit(g) ==
  /\ edits < MaxEdits /\ edits' = edits + 1
  /\ saved' = g
  /\ UNCHANGED run /\ RowsStay

-----------------------------------------------------------------------------
(* execute_workflow: the ids of the graph that was read, checked in one    *)
(* query; no ids, no query.                                                *)
RequestRun(r, mode) ==
  /\ run[r] = Idle
  /\ Moves(r, [at |-> "validating", mode |-> mode, graph |-> saved, gone |-> deleted])
  /\ UNCHANGED <<saved, edits>> /\ RowsStay

Validate(r) ==
  /\ run[r].at = "validating"
  /\ LET ok == Retrieved(IdsOf(run[r].graph), Owner)
         to == IF ~ok THEN "refused" ELSE IF run[r].mode = "agent" THEN "wrapping" ELSE "queued"
     IN  Moves(r, [at |-> to, mode |-> run[r].mode, graph |-> run[r].graph, gone |-> run[r].gone,
                   read |-> {}, payload |-> [c \in {} |-> 0]])
  /\ UNCHANGED <<saved, edits>> /\ RowsStay

(* retrieve_for_agent: one reference after the other, each credential as   *)
(* it is now.  The owner was checked.  One that has gone since is an       *)
(* exception: the row of the execution stays queued.                       *)
Wrap(r, n) ==
  /\ run[r].at = "wrapping" /\ n \notin run[r].read /\ HasId(run[r].graph[n])
  /\ LET c == run[r].graph[n].cred
     IN  IF c \in There
         THEN Moves(r, [run[r] EXCEPT !.read = @ \union {n},
                          !.payload = (c :> rows[c].version) @@ @])
         ELSE Moves(r, [run[r] EXCEPT !.at = "stranded"])
  /\ UNCHANGED <<saved, edits>> /\ RowsStay

Sent(r) ==
  /\ run[r].at = "wrapping" /\ run[r].read = {n \in RefNodes : HasId(run[r].graph[n])}
  /\ Moves(r, [run[r] EXCEPT !.at = "picked"])
  /\ UNCHANGED <<saved, edits>> /\ RowsStay

(* _execute reads the workflow again: it may have been edited. *)
PickUp(r) ==
  /\ run[r].at = "queued"
  /\ Moves(r, [run[r] EXCEPT !.at = "picked", !.graph = saved])
  /\ UNCHANGED <<saved, edits>> /\ RowsStay

-----------------------------------------------------------------------------
(* resolve_credential_refs, given the version of each credential: a graph  *)
(* without ids stays as it is; a reference without one, or to a field the  *)
(* secret does not have, is an exception.                                  *)
Fields == {"secret", "credential_id"}
Resolvable(g) ==
  IdsOf(g) = {} \/ \A n \in RefNodes :
    g[n].cred # "none" => HasId(g[n]) /\ g[n].inject \subseteq Fields
Injected(g, version) ==
  [n \in RefNodes |->
     IF IdsOf(g) = {} \/ g[n].cred = "none" THEN {}
     ELSE {<<f, g[n].cred, IF f = "credential_id" THEN 0 ELSE version[g[n].cred]>> : f \in g[n].inject}]

(* The agent has the payloads that came with the frame, and no others. *)
Unwrapped(x) == DOMAIN x.payload # {} /\ IdsOf(x.graph) \subseteq DOMAIN x.payload

ResolveRefs(r) ==
  /\ run[r].at = "picked"
  /\ LET g == run[r].graph
         worker == run[r].mode = "serverless"
         found  == IF worker THEN Retrieved(IdsOf(g), Owner)
                   ELSE HasRefs(g) => Unwrapped(run[r])
         version == IF worker THEN [c \in There |-> rows[c].version] ELSE run[r].payload
     IN  IF found /\ Resolvable(g)
         THEN Moves(r, [at |-> "running", mode |-> run[r].mode, graph |-> g, gone |-> run[r].gone,
                        config |-> Injected(g, version)])
         ELSE Moves(r, [at |-> "failed"])
  /\ UNCHANGED <<saved, edits>> /\ RowsStay

CredNext ==
  \/ \E u \in Users, c \in Creds :
       DeleteProbes(u, c) \/ \E k \in {"plain", "google"} : Create(u, c, k)
  \/ \E c \in Creds : Update(c) \/ DeleteRow(c)
  \/ \E g \in RefGraphs : Edit(g)
  \/ \E r \in Runs :
       \/ \E mode \in {"serverless", "agent"} : RequestRun(r, mode)
       \/ \E n \in RefNodes : Wrap(r, n)
       \/ Validate(r) \/ Sent(r) \/ PickUp(r) \/ ResolveRefs(r)

CredSpec == CredInit /\ [][CredNext]_credVars

-----------------------------------------------------------------------------
Asked(g, n) == IF g[n].cred = "none" THEN {} ELSE g[n].inject

(* What the nodes of a running execution were given. *)
Matches(x) ==
  LET used == UNION {x.config[n] : n \in RefNodes}
  IN  /\ \A v \in used : ownerOf[v[2]] = Owner /\ v[2] \notin x.gone
      /\ \A v, w \in used : v[1] = w[1] /\ v[2] = w[2] => v = w
      /\ IdsOf(x.graph) # {} => \A n \in RefNodes :
           /\ {v[1] : v \in x.config[n]} = Asked(x.graph, n)
           /\ \A v \in x.config[n] : v[2] = x.graph[n].cred

(* However rows and graph changed since the request, a run whose nodes     *)
(* begin has in each node all that its reference asks for, from the        *)
(* credential it names, which is the workflow owner's and was not deleted  *)
(* when the run was requested; nodes that name the same credential have    *)
(* the same version of it.  Only a graph in which no reference has an id   *)
(* runs with its references as they are (runtime/credentials.py:29-64).    *)
CredentialsMatch == \A r \in Runs : run[r].at = "running" => Matches(run[r])
=============================================================================
