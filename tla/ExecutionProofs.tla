------------------------------ MODULE ExecutionProofs ------------------------------
(***************************************************************************)
(* What an execution rests on, for any users, credentials, graphs, runs,   *)
(* nodes and services.                                                     *)
(*                                                                         *)
(* A run's nodes get what their references name: a credential never        *)
(* changes its owner and an id is never used again, so what a request has  *)
(* checked stays true of the rows it was checked against (RunHolds).       *)
(*                                                                         *)
(* A node's calls are honest: how far a call has come says how often its   *)
(* service was asked and what that may have done (CallHolds), and every    *)
(* entry of the catalogue that writes and succeeds has read the answer.    *)
(*                                                                         *)
(* A graph is accepted exactly when it can be scheduled, and the executor  *)
(* schedules all of it: both loops count, for every node, the edges whose  *)
(* source is not done (Counts), so that a node is ready when none waits;   *)
(* what is left when nothing is ready lies behind a cycle (CycleBehind).   *)
(* Each step of a loop, and each of a node's calls, leaves less to do      *)
(* (StepsLeft, StillToDo), and until all is done there is a step to take.  *)
(*                                                                         *)
(* The nodes on values agree: what a filter has kept after n items is the  *)
(* numbers, in order, of those among them it said true to (Keeps), and one *)
(* by one its verdicts are the condition node's (VerdictsAgree).           *)
(***************************************************************************)
EXTENDS CredentialRefs, NodeCalls, ExecutorLevels, NodeValues, FiniteSetTheorems,
        WellFoundedInduction, TLAPS

RowHolds(c) ==
  /\ rows[c] # NoRow =>
       /\ rows[c] = [owner |-> rows[c].owner, kind |-> rows[c].kind, version |-> rows[c].version]
       /\ rows[c].owner = ownerOf[c]
       /\ c \notin deleted
  /\ c \in deleted \union deleting => ownerOf[c] # "nobody"

(* The references of g are to the owner's credentials, none of them        *)
(* deleted when the run was requested.                                     *)
Checked(g, gone) == \A c \in IdsOf(g) : ownerOf[c] = Owner /\ c \notin gone

Requested(x) ==
  /\ x = [at |-> x.at, mode |-> x.mode, graph |-> x.graph, gone |-> x.gone]
  /\ x.mode \in {"serverless", "agent"} /\ x.gone \subseteq deleted

Accepted(x) ==
  /\ x = [at |-> x.at, mode |-> x.mode, graph |-> x.graph, gone |-> x.gone,
          read |-> x.read, payload |-> x.payload]
  /\ x.mode \in {"serverless", "agent"} /\ x.gone \subseteq deleted
  /\ x.mode = "agent" => Checked(x.graph, x.gone)

RunHolds(x) ==
  /\ x.at = "validating" => Requested(x)
  /\ x.at \in {"wrapping", "queued", "picked"} => Accepted(x)
  /\ x.at = "queued" => x.mode = "serverless"
  /\ x.at = "running" =>
       Matches(x) /\ \A n \in RefNodes : \A v \in x.config[n] : v[2] \in Creds

CredInv ==
  /\ rows = [c \in Creds |-> rows[c]]
  /\ ownerOf = [c \in Creds |-> ownerOf[c]]
  /\ run = [r \in Runs |-> run[r]]
  /\ \A c \in Creds : RowHolds(c)
  /\ \A r \in Runs : RunHolds(run[r])

-----------------------------------------------------------------------------
LEMMA IdsAreCreds == \A g : IdsOf(g) \subseteq Creds
  BY DEF IdsOf, HasId

LEMMA StartsChecked == CredInit => CredInv
  <1> SUFFICES ASSUME CredInit PROVE CredInv
    OBVIOUS
  <1>1. \A c \in Creds : RowHolds(c)
    BY DEF CredInit, RowHolds
  <1>2. \A r \in Runs : run[r].at = "idle"
    BY DEF CredInit, Idle
  <1>3. \A r \in Runs : RunHolds(run[r])
    BY <1>2 DEF RunHolds
  <1>4. QED
    BY <1>1, <1>3 DEF CredInv, CredInit

(* The rows may do what they do to them: an owner stays, and so does a     *)
(* deletion.                                                               *)
LEMMA OwnersStay ==
  ASSUME NEW x, RunHolds(x), deleted \subseteq deleted',
         \A c \in Creds : ownerOf[c] # "nobody" => ownerOf'[c] = ownerOf[c]
  PROVE  RunHolds(x)'
  <1>1. Owner # "nobody"
    BY CredentialAssumption
  <1>2. Requested(x) => Requested(x)'
    BY DEF Requested
  <1>3. Accepted(x) => Accepted(x)'
    BY <1>1, IdsAreCreds DEF Accepted, Checked
  <1>4. ASSUME Matches(x), \A n \in RefNodes : \A v \in x.config[n] : v[2] \in Creds
        PROVE  Matches(x)'
    BY <1>1, <1>4 DEF Matches
  <1>5. QED
    BY <1>2, <1>3, <1>4 DEF RunHolds

(* A step on the rows. *)
LEMMA RowStep ==
  ASSUME CredInv, run' = run, deleted \subseteq deleted',
         rows' = [c \in Creds |-> rows'[c]], ownerOf' = [c \in Creds |-> ownerOf'[c]],
         \A c \in Creds : ownerOf[c] # "nobody" => ownerOf'[c] = ownerOf[c],
         \A c \in Creds : RowHolds(c)'
  PROVE  CredInv'
  <1>1. \A r \in Runs : RunHolds(run[r])'
    BY OwnersStay DEF CredInv
  <1>2. QED
    BY <1>1 DEF CredInv

LEMMA CreateKeeps ==
  ASSUME CredInv, NEW u \in Users, NEW c \in Creds, NEW k, Create(u, c, k)
  PROVE  CredInv'
  <1>1. /\ ownerOf[c] = "nobody" /\ run' = run
        /\ rows' = [rows EXCEPT ![c] = [owner |-> u, kind |-> k, version |-> 1]]
        /\ ownerOf' = [ownerOf EXCEPT ![c] = u]
        /\ deleting' = deleting /\ deleted' = deleted
    BY DEF Create, RunStays
  <1>2. /\ rows'[c] = [owner |-> u, kind |-> k, version |-> 1] /\ ownerOf'[c] = u
        /\ \A d \in Creds : d # c => rows'[d] = rows[d] /\ ownerOf'[d] = ownerOf[d]
    BY <1>1 DEF CredInv
  <1>3. c \notin deleted /\ c \notin deleting
    BY <1>1 DEF CredInv, RowHolds
  <1>4. RowHolds(c)'
    BY <1>1, <1>2, <1>3 DEF RowHolds
  <1>5. \A d \in Creds : d # c => RowHolds(d)'
    BY <1>1, <1>2 DEF CredInv, RowHolds
  <1>6. rows' = [d \in Creds |-> rows'[d]] /\ ownerOf' = [d \in Creds |-> ownerOf'[d]]
    BY <1>1 DEF CredInv
  <1>7. QED
    BY <1>1, <1>2, <1>4, <1>5, <1>6, RowStep

LEMMA UpdateKeeps ==
  ASSUME CredInv, NEW c \in Creds, Update(c)
  PROVE  CredInv'
  <1>1. /\ c \in There /\ run' = run /\ ownerOf' = ownerOf
        /\ rows' = [rows EXCEPT ![c].version = @ + 1]
        /\ deleting' = deleting /\ deleted' = deleted
    BY DEF Update, RunStays
  <1>2. /\ rows'[c] = [rows[c] EXCEPT !.version = @ + 1]
        /\ \A d \in Creds : d # c => rows'[d] = rows[d]
    BY <1>1 DEF CredInv
  <1>3. /\ rows[c] # NoRow
        /\ rows[c] = [owner |-> rows[c].owner, kind |-> rows[c].kind, version |-> rows[c].version]
    BY <1>1 DEF CredInv, RowHolds, There
  <1>4. rows'[c] = [owner |-> rows[c].owner, kind |-> rows[c].kind, version |-> rows[c].version + 1]
    BY <1>2, <1>3
  <1>5. RowHolds(c)'
    BY <1>1, <1>3, <1>4 DEF CredInv, RowHolds
  <1>6. \A d \in Creds : d # c => RowHolds(d)'
    BY <1>1, <1>2 DEF CredInv, RowHolds
  <1>7. rows' = [d \in Creds |-> rows'[d]]
    BY <1>1 DEF CredInv
  <1>8. QED
    BY <1>1, <1>5, <1>6, <1>7, RowStep DEF CredInv

LEMMA DeleteKeeps ==
  ASSUME CredInv, NEW c \in Creds, DeleteRow(c) \/ \E u \in Users : DeleteProbes(u, c)
  PROVE  CredInv'
  <1>1. CASE DeleteRow(c)
    <2>1. /\ c \in deleting /\ run' = run /\ ownerOf' = ownerOf
          /\ rows' = [rows EXCEPT ![c] = NoRow]
          /\ deleting' = deleting \ {c} /\ deleted' = deleted \union {c}
      BY <1>1 DEF DeleteRow, RunStays
    <2>2. rows'[c] = NoRow /\ \A d \in Creds : d # c => rows'[d] = rows[d]
      BY <2>1 DEF CredInv
    <2>3. \A d \in Creds : RowHolds(d)'
      BY <2>1, <2>2 DEF CredInv, RowHolds
    <2>4. rows' = [d \in Creds |-> rows'[d]]
      BY <2>1 DEF CredInv
    <2>5. QED
      BY <2>1, <2>3, <2>4, RowStep DEF CredInv
  <1>2. ASSUME NEW u \in Users, DeleteProbes(u, c) PROVE CredInv'
    <2>1. /\ c \in There /\ rows[c].owner = u /\ run' = run /\ ownerOf' = ownerOf
          /\ rows' = rows /\ deleting' = deleting \union {c} /\ deleted' = deleted
      BY <1>2 DEF DeleteProbes, Retrieved, RunStays
    <2>2. ownerOf[c] # "nobody"
      BY <2>1, CredentialAssumption DEF CredInv, RowHolds, There
    <2>3. \A d \in Creds : RowHolds(d)'
      BY <2>1, <2>2 DEF CredInv, RowHolds
    <2>4. QED
      BY <2>1, <2>3, RowStep DEF CredInv
  <1>3. QED
    BY <1>1, <1>2

-----------------------------------------------------------------------------
(* A step of one run. *)
LEMMA RunMoves ==
  ASSUME CredInv, NEW r \in Runs, NEW x, Moves(r, x), RowsStay, RunHolds(x)
  PROVE  CredInv'
  <1>1. /\ rows' = rows /\ ownerOf' = ownerOf /\ deleted' = deleted /\ deleting' = deleting
        /\ run' = [run EXCEPT ![r] = x]
    BY DEF RowsStay, Moves
  <1>2. run' = [q \in Runs |-> run'[q]] /\ run'[r] = x /\ \A q \in Runs : q # r => run'[q] = run[q]
    BY <1>1 DEF CredInv
  <1>3. \A c \in Creds : RowHolds(c)'
    BY <1>1 DEF CredInv, RowHolds
  <1>4. ASSUME NEW y, RunHolds(y) PROVE RunHolds(y)'
    BY <1>1, <1>4, OwnersStay
  <1>5. \A q \in Runs : RunHolds(run[q])'
    <2>1. ASSUME NEW q \in Runs PROVE RunHolds(run[q])'
      <3>1. PICK y : y = run'[q] /\ RunHolds(y)
        BY <1>2 DEF CredInv
      <3>2. RunHolds(y)'
        BY <1>4, <3>1
      <3>3. QED
        BY <1>1, <3>1, <3>2 DEF RunHolds, Requested, Accepted, Checked, Matches
    <2>2. QED
      BY <2>1
  <1>6. QED
    BY <1>1, <1>2, <1>3, <1>5 DEF CredInv

(* Every row that a query returns is the owner's and was never deleted. *)
LEMMA RetrievedIsChecked ==
  ASSUME CredInv, NEW g, NEW gone \in SUBSET deleted, Retrieved(IdsOf(g), Owner)
  PROVE  Checked(g, gone)
  BY IdsAreCreds DEF CredInv, RowHolds, Retrieved, There, Checked

LEMMA RequestKeeps ==
  ASSUME CredInv, NEW r \in Runs, NEW mode \in {"serverless", "agent"}, RequestRun(r, mode)
  PROVE  CredInv'
  <1> DEFINE x == [at |-> "validating", mode |-> mode, graph |-> saved, gone |-> deleted]
  <1>1. RunHolds(x)
    BY DEF RunHolds, Requested
  <1>2. Moves(r, x) /\ RowsStay
    BY DEF RequestRun
  <1>3. QED
    BY <1>1, <1>2, RunMoves

LEMMA ValidateKeeps ==
  ASSUME CredInv, NEW r \in Runs, Validate(r)
  PROVE  CredInv'
  <1> DEFINE ok == Retrieved(IdsOf(run[r].graph), Owner)
             to == IF ~ok THEN "refused" ELSE IF run[r].mode = "agent" THEN "wrapping" ELSE "queued"
             x  == [at |-> to, mode |-> run[r].mode, graph |-> run[r].graph, gone |-> run[r].gone,
                    read |-> {}, payload |-> [c \in {} |-> 0]]
  <1>1. Moves(r, x) /\ RowsStay
    BY DEF Validate
  <1>2. /\ run[r].mode \in {"serverless", "agent"} /\ run[r].gone \subseteq deleted
    BY DEF Validate, CredInv, RunHolds, Requested
  <1>3. ok => Checked(run[r].graph, run[r].gone)
    BY <1>2, RetrievedIsChecked
  <1>4. /\ x.at = to /\ x.mode = run[r].mode /\ x.graph = run[r].graph /\ x.gone = run[r].gone
        /\ x = [at |-> x.at, mode |-> x.mode, graph |-> x.graph, gone |-> x.gone,
                read |-> x.read, payload |-> x.payload]
    OBVIOUS
  <1>5. RunHolds(x)
    <2> HIDE DEF x
    <2>1. CASE ~ok
      BY <1>4, <2>1 DEF RunHolds
    <2>2. CASE ok
      BY <1>2, <1>3, <1>4, <2>2 DEF RunHolds, Accepted
    <2>3. QED
      BY <2>1, <2>2
  <1>6. QED
    BY <1>1, <1>5, RunMoves

LEMMA AcceptedExcept ==
  ASSUME NEW x, Accepted(x), NEW a, NEW g, NEW r, NEW p
  PROVE  /\ [x EXCEPT !.at = a, !.graph = g] =
              [at |-> a, mode |-> x.mode, graph |-> g, gone |-> x.gone,
               read |-> x.read, payload |-> x.payload]
         /\ [x EXCEPT !.read = r, !.payload = p] =
              [at |-> x.at, mode |-> x.mode, graph |-> x.graph, gone |-> x.gone,
               read |-> r, payload |-> p]
  <1>1. PICK t, m, h, o, q, l :
          x = [at |-> t, mode |-> m, graph |-> h, gone |-> o, read |-> q, payload |-> l]
    BY DEF Accepted
  <1>2. x.at = t /\ x.mode = m /\ x.graph = h /\ x.gone = o /\ x.read = q /\ x.payload = l
    BY <1>1
  <1>3. DOMAIN x = {"at", "mode", "graph", "gone", "read", "payload"}
    BY <1>1
  <1>4. x = [k \in {"at", "mode", "graph", "gone", "read", "payload"} |-> x[k]]
    BY <1>1
  <1> DEFINE y == [x EXCEPT !.at = a, !.graph = g]
             z == [x EXCEPT !.read = r, !.payload = p]
  <1>5. /\ y = [k \in {"at", "mode", "graph", "gone", "read", "payload"} |-> y[k]]
        /\ y.at = a /\ y.graph = g /\ y.mode = x.mode /\ y.gone = x.gone
        /\ y.read = x.read /\ y.payload = x.payload
    BY <1>3, <1>4
  <1>6. /\ z = [k \in {"at", "mode", "graph", "gone", "read", "payload"} |-> z[k]]
        /\ z.at = x.at /\ z.graph = x.graph /\ z.mode = x.mode /\ z.gone = x.gone
        /\ z.read = r /\ z.payload = p
    BY <1>3, <1>4
  <1> HIDE DEF y, z
  <1>7. y = [at |-> a, mode |-> x.mode, graph |-> g, gone |-> x.gone,
             read |-> x.read, payload |-> x.payload]
    BY <1>5
  <1>8. z = [at |-> x.at, mode |-> x.mode, graph |-> x.graph, gone |-> x.gone,
             read |-> r, payload |-> p]
    BY <1>6
  <1>9. QED
    BY <1>7, <1>8 DEF y, z

(* From here on a run carries what was checked, or reads it again. *)
LEMMA WrapKeeps ==
  ASSUME CredInv, NEW r \in Runs, Sent(r) \/ PickUp(r) \/ \E n \in RefNodes : Wrap(r, n)
  PROVE  CredInv'
  <1>1. ASSUME NEW x, Moves(r, x), RowsStay, x.at \in {"stranded", "failed"} PROVE CredInv'
    BY <1>1, RunMoves DEF RunHolds
  <1>2. ASSUME run[r].at \in {"wrapping", "queued"}
        PROVE  /\ Accepted(run[r])
               /\ run[r].at = "queued" => run[r].mode = "serverless"
    BY <1>2 DEF CredInv, RunHolds
  <1>3. CASE Sent(r)
    <2> DEFINE x == [run[r] EXCEPT !.at = "picked"]
    <2>1. Moves(r, x) /\ RowsStay
      BY <1>3 DEF Sent
    <2>2. /\ x = [at |-> "picked", mode |-> run[r].mode, graph |-> run[r].graph,
                  gone |-> run[r].gone, read |-> run[r].read, payload |-> run[r].payload]
      BY <1>2, <1>3 DEF Sent, Accepted
    <2>3. RunHolds(x)
      BY <1>2, <1>3, <2>2 DEF Sent, RunHolds, Accepted
    <2>4. QED
      BY <2>1, <2>3, RunMoves
  <1>4. CASE PickUp(r)
    <2> DEFINE x == [run[r] EXCEPT !.at = "picked", !.graph = saved]
    <2>1. Moves(r, x) /\ RowsStay
      BY <1>4 DEF PickUp
    <2>2. Accepted(run[r]) /\ run[r].mode = "serverless"
      BY <1>2, <1>4 DEF PickUp
    <2>3. x = [at |-> "picked", mode |-> run[r].mode, graph |-> saved,
               gone |-> run[r].gone, read |-> run[r].read, payload |-> run[r].payload]
      <3>1. \A z, g : Accepted(z) =>
              [z EXCEPT !.at = "picked", !.graph = g] =
                [at |-> "picked", mode |-> z.mode, graph |-> g, gone |-> z.gone,
                 read |-> z.read, payload |-> z.payload]
        BY AcceptedExcept
      <3>2. QED
        BY <2>2, <3>1
    <2>4. RunHolds(x)
      BY <2>2, <2>3 DEF RunHolds, Accepted
    <2>5. QED
      BY <2>1, <2>4, RunMoves
  <1>5. ASSUME NEW n \in RefNodes, Wrap(r, n) PROVE CredInv'
    <2> DEFINE c == run[r].graph[n].cred
               x == [run[r] EXCEPT !.read = @ \union {n},
                                   !.payload = (c :> rows[c].version) @@ @]
               y == [run[r] EXCEPT !.at = "stranded"]
    <2>1. RowsStay /\ (Moves(r, x) \/ Moves(r, y))
      BY <1>5 DEF Wrap
    <2>2. Accepted(run[r]) /\ run[r].at = "wrapping"
      BY <1>2, <1>5 DEF Wrap
    <2>3. \A p : [run[r] EXCEPT !.read = @ \union {n}, !.payload = p] =
                 [at |-> run[r].at, mode |-> run[r].mode, graph |-> run[r].graph,
                  gone |-> run[r].gone, read |-> run[r].read \union {n}, payload |-> p]
      BY <2>2, AcceptedExcept
    <2>4. RunHolds(x)
      <3>1. PICK z : /\ z = [at |-> run[r].at, mode |-> run[r].mode, graph |-> run[r].graph,
                             gone |-> run[r].gone, read |-> z.read, payload |-> z.payload]
                     /\ z = x
        BY <2>3
      <3> HIDE DEF x
      <3>2. /\ z.at = "wrapping" /\ z.mode = run[r].mode /\ z.graph = run[r].graph
            /\ z.gone = run[r].gone
        BY <2>2, <3>1
      <3>3. RunHolds(z)
        BY <2>2, <3>1, <3>2 DEF RunHolds, Accepted
      <3>4. QED
        BY <3>1, <3>3
    <2>5. y.at = "stranded"
      BY <2>2 DEF Accepted
    <2>6. QED
      BY <1>1, <2>1, <2>4, <2>5, RunMoves
  <1>6. QED
    BY <1>3, <1>4, <1>5

-----------------------------------------------------------------------------
(* What the secrets are put in place of. *)
LEMMA InjectedMatches ==
  ASSUME NEW x, NEW version, x.config = Injected(x.graph, version),
         Resolvable(x.graph), Checked(x.graph, x.gone)
  PROVE  Matches(x) /\ \A n \in RefNodes : \A v \in x.config[n] : v[2] \in Creds
  <1> DEFINE g == x.graph
             Piece(n, f) == <<f, g[n].cred,
                              IF f = "credential_id" THEN 0 ELSE version[g[n].cred]>>
  <1>1. ASSUME NEW n \in RefNodes, IdsOf(g) = {} \/ g[n].cred = "none"
        PROVE  x.config[n] = {}
    BY <1>1 DEF Injected
  <1>2. ASSUME NEW n \in RefNodes, IdsOf(g) # {}, g[n].cred # "none"
        PROVE  /\ x.config[n] = {Piece(n, f) : f \in g[n].inject}
               /\ g[n].cred \in Creds /\ g[n].cred \in IdsOf(g)
    BY <1>2 DEF Injected, Resolvable, HasId, IdsOf
  <1>3. ASSUME NEW n \in RefNodes, NEW v \in x.config[n]
        PROVE  /\ v = Piece(n, v[1]) /\ v[1] \in g[n].inject
               /\ v[2] = g[n].cred /\ v[2] \in Creds /\ v[2] \in IdsOf(g)
    BY <1>1, <1>2, <1>3
  <1>4. \A n \in RefNodes : \A v \in x.config[n] :
          v[2] \in Creds /\ ownerOf[v[2]] = Owner /\ v[2] \notin x.gone /\ v[2] = g[n].cred
    BY <1>3 DEF Checked
  <1>5. ASSUME NEW n \in RefNodes, NEW m \in RefNodes, NEW v \in x.config[n], NEW w \in x.config[m],
               v[1] = w[1], v[2] = w[2]
        PROVE  v = w
    BY <1>3, <1>5
  <1>6. ASSUME NEW n \in RefNodes, IdsOf(g) # {}
        PROVE  {v[1] : v \in x.config[n]} = Asked(g, n)
    <2>1. CASE g[n].cred = "none"
      BY <1>1, <2>1 DEF Asked
    <2>2. CASE g[n].cred # "none"
      <3>1. \A f : Piece(n, f)[1] = f
        OBVIOUS
      <3>2. x.config[n] = {Piece(n, f) : f \in g[n].inject}
        BY <1>2, <1>6, <2>2
      <3> HIDE DEF Piece
      <3>3. {v[1] : v \in x.config[n]} = g[n].inject
        BY <3>1, <3>2
      <3>4. QED
        BY <2>2, <3>3 DEF Asked
    <2>3. QED
      BY <2>1, <2>2
  <1> HIDE DEF Piece
  <1>7. Matches(x)
    BY <1>4, <1>5, <1>6 DEF Matches
  <1>8. QED
    BY <1>4, <1>7

LEMMA ResolveKeeps ==
  ASSUME CredInv, NEW r \in Runs, ResolveRefs(r)
  PROVE  CredInv'
  <1> DEFINE g == run[r].graph
             worker == run[r].mode = "serverless"
             found == IF worker THEN Retrieved(IdsOf(g), Owner)
                      ELSE HasRefs(g) => Unwrapped(run[r])
             version == IF worker THEN [c \in There |-> rows[c].version] ELSE run[r].payload
             x == [at |-> "running", mode |-> run[r].mode, graph |-> g, gone |-> run[r].gone,
                   config |-> Injected(g, version)]
             y == [at |-> "failed"]
  <1>1. RowsStay /\ run[r].at = "picked"
    BY DEF ResolveRefs
  <1>2. (found /\ Resolvable(g) /\ Moves(r, x)) \/ Moves(r, y)
    BY DEF ResolveRefs
  <1>3. Accepted(run[r])
    BY <1>1 DEF CredInv, RunHolds
  <1>4. RunHolds(y)
    BY DEF RunHolds
  <1>5. ASSUME found, Resolvable(g) PROVE RunHolds(x)
    <2>1. Checked(g, run[r].gone)
      <3>1. run[r].gone \in SUBSET deleted /\ (worker \/ Checked(g, run[r].gone))
        BY <1>3 DEF Accepted
      <3>2. worker => Retrieved(IdsOf(g), Owner)
        BY <1>5
      <3> HIDE DEF g, worker, found
      <3>3. QED
        BY <3>1, <3>2, RetrievedIsChecked
    <2>2. x.config = Injected(x.graph, version) /\ x.graph = g /\ x.gone = run[r].gone
      OBVIOUS
    <2>3. x.at = "running"
      OBVIOUS
    <2> HIDE DEF x, g, version
    <2>4. Matches(x) /\ \A n \in RefNodes : \A v \in x.config[n] : v[2] \in Creds
      BY <1>5, <2>1, <2>2, InjectedMatches
    <2>5. QED
      BY <2>3, <2>4 DEF RunHolds
  <1> HIDE DEF x, y, found, g
  <1>6. QED
    BY <1>1, <1>2, <1>4, <1>5, RunMoves

LEMMA InvKept == CredInv /\ [CredNext]_credVars => CredInv'
  <1> SUFFICES ASSUME CredInv, [CredNext]_credVars PROVE CredInv'
    OBVIOUS
  <1>1. CASE UNCHANGED credVars \/ \E g \in RefGraphs : Edit(g)
    <2>1. UNCHANGED <<rows, deleting, run, ownerOf, deleted>>
      BY <1>1 DEF credVars, Edit, RowsStay
    <2>2. \A c \in Creds : RowHolds(c)'
      BY <2>1 DEF CredInv, RowHolds
    <2>3. QED
      BY <2>1, <2>2, RowStep DEF CredInv
  <1>2. CASE \E u \in Users, c \in Creds :
               DeleteProbes(u, c) \/ \E k \in {"plain", "google"} : Create(u, c, k)
    BY <1>2, CreateKeeps, DeleteKeeps
  <1>3. CASE \E c \in Creds : Update(c) \/ DeleteRow(c)
    BY <1>3, UpdateKeeps, DeleteKeeps
  <1>4. CASE \E r \in Runs, mode \in {"serverless", "agent"} : RequestRun(r, mode)
    BY <1>4, RequestKeeps
  <1>5. CASE \E r \in Runs : Validate(r) \/ ResolveRefs(r)
    BY <1>5, ValidateKeeps, ResolveKeeps
  <1>6. CASE \E r \in Runs : Sent(r) \/ PickUp(r) \/ \E n \in RefNodes : Wrap(r, n)
    BY <1>6, WrapKeeps
  <1>7. QED
    BY <1>1, <1>2, <1>3, <1>4, <1>5, <1>6 DEF CredNext

(* A run under way carries references that were checked against rows whose *)
(* owner cannot change any more.                                           *)
THEOREM ChecksStayTrue == CredSpec => []CredInv
  <1>1. QED
    BY StartsChecked, InvKept, PTL DEF CredSpec

(* So no node of a run begins with a secret that is not the one its        *)
(* reference names, or is another user's, whatever is edited, deleted or   *)
(* refreshed between the request and the run.                              *)
THEOREM NodesGetTheirCredentials == CredSpec => []CredentialsMatch
  <1>1. CredInv => CredentialsMatch
    BY DEF CredInv, RunHolds, CredentialsMatch
  <1>2. QED
    BY <1>1, ChecksStayTrue, PTL
-----------------------------------------------------------------------------
(* What the catalogue's entries have in common.                            *)
EntryFields == {"type", "kind", "needs", "reads", "token", "asks", "writes", "checks", "bound"}

(* An entry as its constructors make it. *)
Sound(r) ==
  /\ r = [field \in EntryFields |-> r[field]]
  /\ "none" \notin r.reads
  /\ r.kind # "request" => ~r.writes
  /\ r.writes /\ r.type # "http_request" => r.checks

LEMMA RequestIsSound ==
  ASSUME NEW type, NEW needs, NEW reads, "none" \notin reads
  PROVE  /\ Sound(Request(type, needs, reads))
         /\ Request(type, needs, reads).checks /\ Request(type, needs, reads).kind = "request"
BY DEF Sound, EntryFields, Request

LEMMA VariantsAreSound ==
  ASSUME NEW r, Sound(r)
  PROVE  /\ Sound(Query(r)) /\ ~Query(r).writes
         /\ Sound(Silent(r)) /\ Silent(r).writes = r.writes
         /\ Sound(Google(r))
  <1> DEFINE q == Query(r)  s == Silent(r)  g == Google(r)
  <1>1. DOMAIN r = EntryFields
    BY DEF Sound
  <1>2. /\ q = [field \in EntryFields |-> q[field]] /\ ~q.writes /\ q.reads = r.reads
        /\ q.kind = r.kind /\ q.type = r.type /\ q.checks = r.checks
    BY <1>1 DEF Query, EntryFields
  <1>3. /\ s = [field \in EntryFields |-> s[field]] /\ s.writes = r.writes /\ s.reads = {}
        /\ s.kind = r.kind /\ s.type = r.type /\ s.checks = r.checks
    BY <1>1 DEF Silent, EntryFields
  <1>4. /\ g = [field \in EntryFields |-> g[field]] /\ g.writes = r.writes /\ g.reads = r.reads
        /\ g.kind = r.kind /\ g.type = r.type /\ g.checks = r.checks
    BY <1>1 DEF Google, EntryFields
  <1> HIDE DEF q, s, g
  <1>5. Sound(q) /\ ~q.writes /\ Sound(s) /\ s.writes = r.writes /\ Sound(g)
    BY <1>2, <1>3, <1>4 DEF Sound
  <1> QED
    BY <1>5 DEF q, s, g

LEMMA LocalIsSound ==
  ASSUME NEW type, NEW kind, NEW needs
  PROVE  Sound(Local(type, kind, needs))
  <1> DEFINE base == Silent(Query(Request(type, needs, {})))
             l == Local(type, kind, needs)
  <1>1. Sound(base) /\ ~base.writes
    BY RequestIsSound, VariantsAreSound
  <1>2. l = [base EXCEPT !.kind = kind, !.bound = "whole"]
    BY DEF Local
  <1> HIDE DEF base, l
  <1>3. /\ l = [field \in EntryFields |-> l[field]] /\ l.writes = base.writes /\ l.reads = base.reads
        /\ l.type = base.type /\ l.checks = base.checks
    BY <1>1, <1>2 DEF Sound, EntryFields
  <1>4. Sound(l)
    BY <1>1, <1>3 DEF Sound
  <1> QED
    BY <1>4 DEF l

LEMMA CatalogueIsSound ==
  ASSUME NEW given, NEW r \in Registered(given)
  PROVE  Sound(r)
  <1>1. ASSUME NEW type, NEW needs, NEW reads, "none" \notin reads
        PROVE  /\ Sound(Request(type, needs, reads)) /\ Sound(Query(Request(type, needs, reads)))
               /\ Sound(Silent(Request(type, needs, reads))) /\ Sound(Google(Request(type, needs, reads)))
    BY <1>1, RequestIsSound, VariantsAreSound
  <1>2. /\ Sound(AirtableCreateRecord) /\ Sound(AirtableListRecords) /\ Sound(AnthropicChat)
        /\ Sound(OpenAIChat) /\ Sound(GitHubCreateIssue) /\ Sound(HubSpotCreateContact)
        /\ Sound(NotionCreatePage) /\ Sound(NotionQueryDatabase) /\ Sound(LinearCreateIssue)
        /\ Sound(DiscordNotify) /\ Sound(SlackNotify) /\ Sound(GmailSend)
    BY <1>1 DEF AirtableCreateRecord, AirtableListRecords, AnthropicChat, OpenAIChat,
                GitHubCreateIssue, HubSpotCreateContact, NotionCreatePage, NotionQueryDatabase,
                LinearCreateIssue, DiscordNotify, SlackNotify, GmailSend
  <1>3. /\ Sound(GoogleCalendarCreateEvent(given)) /\ Sound(GoogleDocsAppendText)
        /\ Sound(GoogleDriveUploadFile) /\ Sound(GoogleSlidesCreatePresentation)
    BY <1>1 DEF GoogleCalendarCreateEvent, GoogleDocsAppendText, GoogleDriveUploadFile,
                GoogleSlidesCreatePresentation
  <1>4. Sound(GoogleSheetsAppendRow)
    <2> DEFINE base == Google(Request("google_sheets_append_row", {"spreadsheet_id", "range", "values"}, {}))
               l == GoogleSheetsAppendRow
    <2>1. Sound(base)
      BY <1>1
    <2>2. l = [base EXCEPT !.asks = BOOLEAN]
      BY DEF GoogleSheetsAppendRow
    <2> HIDE DEF base, l
    <2>3. Sound(l)
      BY <2>1, <2>2 DEF Sound, EntryFields
    <2> QED
      BY <2>3 DEF l
  <1>5. Sound(DBQuery)
    <2> DEFINE base == Request("db_query", {"connection_url", "query"}, {})
               l == DBQuery
    <2>1. Sound(base)
      BY <1>1
    <2>2. l = [base EXCEPT !.reads = {"count"}, !.asks = {TRUE}, !.bound = "close"]
      BY DEF DBQuery
    <2> HIDE DEF base, l
    <2>3. Sound(l)
      BY <2>1, <2>2 DEF Sound, EntryFields
    <2> QED
      BY <2>3 DEF l
  <1>6. Sound(HttpRequest)
    <2> DEFINE base == Silent(Request("http_request", {"url"}, {}))
               l == HttpRequest
    <2>1. Sound(base) /\ base.type = "http_request" /\ base.kind = "request"
      BY <1>1 DEF Silent, Request
    <2>2. l = [base EXCEPT !.checks = FALSE]
      BY DEF HttpRequest
    <2> HIDE DEF base, l
    <2>3. Sound(l)
      BY <2>1, <2>2 DEF Sound, EntryFields
    <2> QED
      BY <2>3 DEF l
  <1>8. Sound(EmailSend)
    <2>0. PICK needs : needs = {"from", "to", "subject", "body", "smtp_host", "smtp_port",
                                "smtp_user", "smtp_password"}
      OBVIOUS
    <2> DEFINE base == Silent(Request("email_send", needs, {}))
               l == EmailSend
    <2>1. Sound(base)
      BY <1>1
    <2>2. l = [base EXCEPT !.bound = "whole"]
      BY <2>0 DEF EmailSend
    <2> HIDE DEF base, l
    <2>3. Sound(l)
      BY <2>1, <2>2 DEF Sound, EntryFields
    <2> QED
      BY <2>3 DEF l
  <1>7. /\ Sound(Condition) /\ Sound(Filter) /\ Sound(Transform) /\ Sound(Merge) /\ Sound(Delay)
        /\ Sound(Code)
    BY LocalIsSound DEF Condition, Filter, Transform, Merge, Delay, Code
  <1> QED
    BY <1>2, <1>3, <1>4, <1>5, <1>6, <1>7, <1>8 DEF Registered

(* The entry a job's type has, whatever keys it is given. *)
LEMMA EntryOfType ==
  ASSUME NEW type \in Types, NEW given
  PROVE  NodeType(type, given).type = type /\ Sound(NodeType(type, given))
  <1>1. \E r \in Registered(given) : r.type = type
    <2>1. PICK r \in Registered({}) : r.type = type
      BY DEF Types
    <2>2. CASE r = GoogleCalendarCreateEvent({})
      <3>1. GoogleCalendarCreateEvent(given) \in Registered(given)
        BY DEF Registered
      <3>2. GoogleCalendarCreateEvent(given).type = GoogleCalendarCreateEvent({}).type
        BY DEF GoogleCalendarCreateEvent, Google, Request
      <3> QED
        BY <2>1, <2>2, <3>1, <3>2
    <2>3. CASE r # GoogleCalendarCreateEvent({})
      <3>1. r \in Registered(given)
        BY <2>1, <2>3 DEF Registered
      <3> QED
        BY <2>1, <3>1
    <2> QED
      BY <2>2, <2>3
  <1>2. NodeType(type, given) \in Registered(given) /\ NodeType(type, given).type = type
    BY <1>1 DEF NodeType
  <1> QED
    BY <1>2, CatalogueIsSound
-----------------------------------------------------------------------------
(* What the proofs need of the entry of the node that is executed. *)
Entry ==
  /\ "none" \notin W.reads
  /\ W.kind # "request" => ~W.writes
  /\ W.writes /\ job.type # "http_request" => W.checks

LEMMA JobsEntry ==
  ASSUME Known
  PROVE  Entry
BY EntryOfType DEF Entry, Known, W, Sound

LEMMA UnderIsFinite ==
  ASSUME CallsInv
  PROVE  IsFiniteSet(Under) /\ Cardinality(Under) \in Nat /\ job.slots \in Nat /\ job.items \in Nat
  <1>1. job.items \in Nat /\ job.slots \in Nat
    BY CallsAssumption DEF CallsInv
  <1>2. IsFiniteSet(Items)
    BY SMTT(30), <1>1, FS_Interval DEF Items
  <1>3. IsFiniteSet(Under)
    BY <1>2, FS_Subset DEF Under
  <1> QED
    BY <1>1, <1>3, FS_CardinalityType

(* A step of item i alone that keeps what is said of i, ends no call twice *)
(* and takes no place keeps the invariant.                                 *)
LEMMA OneGoesOn ==
  ASSUME CallsInv, NEW i \in Items, job' = job, result' = result,
         at' \in [Items -> Places],
         outcome' \in [Items -> {"none", "ok", "error"}], DOMAIN answer' = Items,
         DOMAIN requests' = Items, DOMAIN effects' = Items,
         \A j \in Items : j # i => /\ at'[j] = at[j] /\ outcome'[j] = outcome[j] /\ answer'[j] = answer[j]
                                   /\ requests'[j] = requests[j] /\ effects'[j] = effects[j],
         at[i] = "over" => at'[i] = "over",
         (at'[i] \in {"waiting", "over"}) \/ (at[i] \notin {"waiting", "over"})
           \/ (Cardinality(Under) < job.slots),
         CallHolds(i)'
  PROVE  CallsInv'
  <1>1. Items' = Items /\ W' = W /\ Known' = Known /\ Lacking' = Lacking
    BY DEF Items, W, Known, Lacking
  <1>2. ASSUME NEW j \in Items
        PROVE  CallHolds(j)'
    <2>1. CASE j = i
      BY <2>1
    <2>2. CASE j # i
      <3>1. CallHolds(j)
        BY <1>2 DEF CallsInv
      <3>2. /\ at'[j] = at[j] /\ outcome'[j] = outcome[j] /\ answer'[j] = answer[j]
            /\ requests'[j] = requests[j] /\ effects'[j] = effects[j]
        BY <2>2
      <3> QED
        BY <1>1, <3>1, <3>2 DEF CallHolds
    <2> QED
      BY <2>1, <2>2
  <1>3. Cardinality(Under') <= job.slots
    <2>1. IsFiniteSet(Under) /\ Cardinality(Under) \in Nat /\ job.slots \in Nat /\ Cardinality(Under) <= job.slots
      BY UnderIsFinite DEF CallsInv
    <2>2. ASSUME (at'[i] \in {"waiting", "over"}) \/ (at[i] \notin {"waiting", "over"})
          PROVE  Cardinality(Under') <= job.slots
      <3>1. Under' \subseteq Under
        BY <1>1, <2>2 DEF Under
      <3>2. Cardinality(Under') <= Cardinality(Under) /\ Cardinality(Under') \in Nat
        BY <2>1, <3>1, FS_Subset, FS_CardinalityType
      <3> QED
        BY <2>1, <3>2
    <2>3. ASSUME Cardinality(Under) < job.slots, i \notin Under
          PROVE  Cardinality(Under') <= job.slots
      <3>1. Under' \subseteq Under \union {i}
        BY <1>1 DEF Under
      <3>2. IsFiniteSet(Under \union {i}) /\ Cardinality(Under \union {i}) = Cardinality(Under) + 1
        BY <2>1, <2>3, FS_AddElement
      <3>3. Cardinality(Under') <= Cardinality(Under \union {i}) /\ Cardinality(Under') \in Nat
        BY <3>1, <3>2, FS_Subset, FS_CardinalityType
      <3> QED
        BY <2>1, <2>3, <3>2, <3>3
    <2> QED
      BY <2>2, <2>3 DEF Under
  <1>4. result' = "returned" => \A j \in Items : at'[j] = "over"
    BY DEF CallsInv
  <1> QED
    BY <1>1, <1>2, <1>3, <1>4 DEF CallsInv

(* The same for a step that asks and hears nothing. *)
LEMMA OneMoves ==
  ASSUME CallsInv, NEW i \in Items, job' = job, result' = result,
         answer' = answer, requests' = requests, effects' = effects,
         NEW to \in Places, at' = [at EXCEPT ![i] = to],
         NEW how, outcome' = [outcome EXCEPT ![i] = how],
         at[i] # "over",
         (to = "over") \/ (at[i] # "waiting") \/ (Cardinality(Under) < job.slots),
         /\ how \in {"none", "ok", "error"}
         /\ to \in Before => at[i] \in Before
         /\ to = "sent" => at[i] = "sent"
         /\ to \in {"closing", "over"} <=> how # "none"
         /\ to = "computing" => W.kind = "local"
         /\ to \in {"queued", "running"} => W.kind = "code"
         /\ to # "waiting" => Known
         /\ Lacking => to \in {"waiting", "over"}
         /\ how = "ok" /\ W.writes /\ job.type # "http_request" => answer[i] = "nothing"
  PROVE  CallsInv'
  <1>1. at'[i] = to /\ outcome'[i] = how
    BY DEF CallsInv
  <1>2. CallHolds(i)
    BY DEF CallsInv
  <1>3. Items' = Items /\ W' = W /\ Known' = Known /\ Lacking' = Lacking
    BY DEF Items, W, Known, Lacking
  <1>4. /\ at'[i] \in Before => requests[i] = 0
        /\ at'[i] = "sent" => requests[i] = 1
        /\ Lacking => at'[i] \in {"waiting", "over"} /\ requests[i] = 0
    BY <1>1, <1>2 DEF CallHolds
  <1>5. CallHolds(i)'
    BY <1>1, <1>2, <1>3, <1>4 DEF CallHolds
  <1>6. at' \in [Items -> Places] /\ outcome' \in [Items -> {"none", "ok", "error"}]
    BY DEF CallsInv
  <1>7. \A j \in Items : j # i => at'[j] = at[j] /\ outcome'[j] = outcome[j]
    BY DEF CallsInv
  <1>8. DOMAIN answer' = Items /\ DOMAIN requests' = Items /\ DOMAIN effects' = Items
    BY DEF CallsInv
  <1> QED
    BY <1>1, <1>5, <1>6, <1>7, <1>8, OneGoesOn

(* A call that ends, or closes its connection first. *)
LEMMA EndMoves ==
  ASSUME CallsInv, NEW i \in Items, NEW how, Ends(i, how), at[i] # "over"
  PROVE  \E to \in {"closing", "over"} :
           /\ at' = [at EXCEPT ![i] = to] /\ outcome' = [outcome EXCEPT ![i] = how]
           /\ to = "closing" => at[i] = "sent"
           /\ to \in Places /\ to \notin Before
  <1>1. CASE at[i] = "sent" /\ W.bound = "close"
    <2>1. at' = [at EXCEPT ![i] = "closing"] /\ outcome' = [outcome EXCEPT ![i] = how]
      BY <1>1 DEF Ends, CallsInv
    <2> QED
      BY <1>1, <2>1 DEF Places, Before
  <1>2. CASE ~(at[i] = "sent" /\ W.bound = "close")
    <2>1. at' = [at EXCEPT ![i] = "over"] /\ outcome' = [outcome EXCEPT ![i] = how]
      BY <1>2 DEF Ends, CallsInv
    <2> QED
      BY <2>1 DEF Places, Before
  <1> QED
    BY <1>1, <1>2

LEMMA OneEnds ==
  ASSUME CallsInv, NEW i \in Items, job' = job, result' = result,
         answer' = answer, requests' = requests, effects' = effects,
         at[i] # "over", Known,
         NEW how \in {"ok", "error"}, Ends(i, how),
         how = "ok" /\ W.writes /\ job.type # "http_request" => answer[i] = "nothing"
  PROVE  CallsInv'
  <1>1. PICK to \in {"closing", "over"} :
           /\ at' = [at EXCEPT ![i] = to] /\ outcome' = [outcome EXCEPT ![i] = how]
           /\ to = "closing" => at[i] = "sent"
           /\ to \in Places /\ to \notin Before
    BY EndMoves
  <1>2. /\ to = "over" \/ at[i] # "waiting"
        /\ Lacking => to \in {"waiting", "over"}
    BY <1>1 DEF CallsInv, CallHolds
  <1> QED
    BY <1>1, <1>2, OneMoves

LEMMA OneFails ==
  ASSUME CallsInv, NEW i \in Items, job' = job, result' = result,
         answer' = answer, requests' = requests, effects' = effects,
         at[i] # "over", Known, Fails(i)
  PROVE  CallsInv'
BY OneEnds DEF Fails

LEMMA OneSucceeds ==
  ASSUME CallsInv, NEW i \in Items, job' = job, result' = result,
         answer' = answer, requests' = requests, effects' = effects,
         at[i] # "over", Known, Ends(i, "ok"),
         W.writes /\ job.type # "http_request" => answer[i] = "nothing"
  PROVE  CallsInv'
BY OneEnds

LEMMA HoldsOfItem ==
  ASSUME CallsInv, NEW i \in Items
  PROVE  CallHolds(i) /\ (at[i] # "waiting" => Known)
BY DEF CallsInv, CallHolds

LEMMA BeginsKeeps ==
  ASSUME CallsInv, NEW i \in Items, Begins(i)
  PROVE  CallsInv'
  <1>1. Known /\ at[i] = "waiting" /\ Cardinality(Under) < job.slots /\ Alone
    BY DEF Begins
  <1>2. job' = job /\ answer' = answer /\ requests' = requests /\ effects' = effects /\ result' = result
    BY <1>1 DEF Alone
  <1>3. CASE Lacking
    BY <1>1, <1>2, <1>3, OneFails DEF Begins
  <1>4. CASE ~Lacking
    <2> DEFINE to == CASE W.kind = "local" -> "computing"
                       [] W.kind = "code"  -> "queued"
                       [] W.token          -> "token"
                       [] OTHER            -> "asking"
    <2>1. at' = [at EXCEPT ![i] = to] /\ outcome' = outcome
      BY <1>1, <1>4 DEF Begins, Goes
    <2>2. /\ to \in {"computing", "queued", "token", "asking"}
          /\ to = "computing" => W.kind = "local"
          /\ to = "queued" => W.kind = "code"
      OBVIOUS
    <2> HIDE DEF to
    <2>3. outcome[i] = "none" /\ outcome' = [outcome EXCEPT ![i] = "none"]
      BY <1>1, <2>1 DEF CallsInv, CallHolds
    <2> QED
      BY <1>1, <1>2, <1>4, <2>1, <2>2, <2>3, OneMoves DEF Before, Places
  <1> QED
    BY <1>3, <1>4

LEMMA ComputesKeeps ==
  ASSUME CallsInv, NEW i \in Items, Computes(i)
  PROVE  CallsInv'
  <1>1. at[i] = "computing" /\ (Ends(i, "ok") \/ Fails(i))
    BY DEF Computes
  <1>2. job' = job /\ answer' = answer /\ requests' = requests /\ effects' = effects /\ result' = result
    BY DEF Computes, Alone
  <1>3. Known /\ ~W.writes
    BY <1>1, HoldsOfItem, JobsEntry DEF CallHolds, Entry
  <1> QED
    BY <1>1, <1>2, <1>3, OneFails, OneSucceeds

LEMMA GetsTokenKeeps ==
  ASSUME CallsInv, NEW i \in Items, GetsToken(i)
  PROVE  CallsInv'
  <1>1. at[i] = "token" /\ Known /\ ~Lacking
    BY HoldsOfItem DEF GetsToken, CallHolds
  <1>2. job' = job /\ answer' = answer /\ requests' = requests /\ effects' = effects /\ result' = result
    BY DEF GetsToken, Alone
  <1>3. ASSUME Goes(i, "token", "asking")
        PROVE  CallsInv'
    <2>0. PICK to : to = "asking"
      OBVIOUS
    <2>1. at' = [at EXCEPT ![i] = to] /\ outcome' = outcome
      BY <1>3, <2>0 DEF Goes
    <2>2. outcome' = [outcome EXCEPT ![i] = "none"]
      BY <1>1, <2>1 DEF CallsInv, CallHolds
    <2>3. /\ at[i] \in Before /\ to \in Before
          /\ to \in Places /\ to \notin {"sent", "closing", "over", "computing", "queued", "running"}
      BY <1>1, <2>0 DEF Before, Places
    <2> QED
      BY <1>1, <1>2, <2>1, <2>2, <2>3, OneMoves
  <1> QED
    BY <1>1, <1>2, <1>3, OneFails DEF GetsToken

LEMMA AsksKeeps ==
  ASSUME CallsInv, NEW i \in Items, Asks(i)
  PROVE  CallsInv'
  <1>1. at[i] = "asking" /\ Known /\ ~Lacking /\ CallHolds(i)
    BY HoldsOfItem DEF Asks, CallHolds
  <1>2. ASSUME Fails(i), Alone
        PROVE  CallsInv'
    BY <1>1, <1>2, OneFails DEF Alone
  <1>3. ASSUME Goes(i, "asking", "sent"), requests' = [requests EXCEPT ![i] = @ + 1],
               job' = job, answer' = answer, effects' = effects, result' = result
        PROVE  CallsInv'
    <2>1. at' = [at EXCEPT ![i] = "sent"] /\ outcome' = outcome
      BY <1>3 DEF Goes
    <2>2. requests[i] = 0
      BY <1>1 DEF CallHolds, Before
    <2>3. /\ at'[i] = "sent" /\ outcome'[i] = outcome[i] /\ answer'[i] = answer[i]
          /\ requests'[i] = 1 /\ effects'[i] = effects[i]
      BY <1>3, <2>1, <2>2 DEF CallsInv
    <2>4. Items' = Items /\ W' = W /\ Known' = Known /\ Lacking' = Lacking
      BY <1>3 DEF Items, W, Known, Lacking
    <2>5. outcome[i] = "none" /\ effects[i] = 0 /\ answer[i] = "none"
      BY <1>1, <2>2 DEF CallHolds
    <2>6. CallHolds(i)'
      BY <1>1, <2>3, <2>4, <2>5 DEF CallHolds, Before
    <2>7. at' \in [Items -> Places] /\ DOMAIN requests' = Items
      BY <1>3, <2>1 DEF CallsInv, Places
    <2>8. \A j \in Items : j # i => at'[j] = at[j] /\ requests'[j] = requests[j]
      BY <1>3, <2>1 DEF CallsInv
    <2>9. outcome' \in [Items -> {"none", "ok", "error"}] /\ DOMAIN answer' = Items /\ DOMAIN effects' = Items
      BY <1>3, <2>1 DEF CallsInv
    <2> QED
      BY <1>1, <1>3, <2>1, <2>6, <2>7, <2>8, <2>9, OneGoesOn
  <1> QED
    BY <1>2, <1>3 DEF Asks

LEMMA ServesKeeps ==
  ASSUME CallsInv, NEW i \in Items, Serves(i)
  PROVE  CallsInv'
  <1>1. /\ requests[i] = 1 /\ answer[i] = "none" /\ CallHolds(i)
        /\ at' = at /\ outcome' = outcome /\ requests' = requests /\ job' = job /\ result' = result
    BY HoldsOfItem DEF Serves
  <1>2. PICK lack \in W.reads \union {"nothing", "refused"}, did \in BOOLEAN :
          /\ lack = "nothing" => did
          /\ answer' = [answer EXCEPT ![i] = lack]
          /\ effects' = [effects EXCEPT ![i] = @ + (IF did THEN 1 ELSE 0)]
    BY DEF Serves
  <1>3. effects[i] = 0 /\ Known /\ at[i] \notin Before
    BY <1>1 DEF CallHolds, Before
  <1>4. "none" \notin W.reads
    BY <1>3, JobsEntry DEF Entry
  <1>5. answer'[i] = lack /\ effects'[i] \in 0..1 /\ (lack = "nothing" => effects'[i] = 1)
    BY <1>2, <1>3 DEF CallsInv
  <1>6. Items' = Items /\ W' = W /\ Known' = Known /\ Lacking' = Lacking
    BY <1>1 DEF Items, W, Known, Lacking
  <1>7. lack # "none" /\ (lack \notin {"none", "nothing", "refused"} => lack \in W.reads)
    BY <1>4
  <1>8. CallHolds(i)'
    <2>1. outcome[i] = "ok" /\ W.writes /\ job.type # "http_request" => FALSE
      BY <1>1 DEF CallHolds
    <2> QED
      BY <1>1, <1>3, <1>5, <1>6, <1>7, <2>1 DEF CallHolds
  <1>9. DOMAIN answer' = Items /\ DOMAIN effects' = Items
    BY <1>2 DEF CallsInv
  <1>10. \A j \in Items : j # i => answer'[j] = answer[j] /\ effects'[j] = effects[j]
    BY <1>2 DEF CallsInv
  <1>11. at' \in [Items -> Places] /\ outcome' \in [Items -> {"none", "ok", "error"}]
         /\ DOMAIN requests' = Items
    BY <1>1 DEF CallsInv
  <1>12. at[i] \notin {"waiting", "over"} \/ at'[i] \in {"waiting", "over"}
    BY <1>1
  <1> QED
    BY <1>1, <1>8, <1>9, <1>10, <1>11, <1>12, OneGoesOn

LEMMA ReceivesKeeps ==
  ASSUME CallsInv, NEW i \in Items, Receives(i)
  PROVE  CallsInv'
  <1>1. at[i] = "sent" /\ answer[i] # "none" /\ CallHolds(i) /\ Known
    BY HoldsOfItem DEF Receives
  <1>2. job' = job /\ answer' = answer /\ requests' = requests /\ effects' = effects /\ result' = result
    BY DEF Receives, Alone
  <1>3. CASE (answer[i] = "refused" /\ W.checks) \/ answer[i] \in W.reads
    BY <1>1, <1>2, <1>3, OneFails DEF Receives
  <1>4. CASE ~((answer[i] = "refused" /\ W.checks) \/ answer[i] \in W.reads)
    <2>1. W.writes /\ job.type # "http_request" => answer[i] = "nothing"
      BY <1>1, <1>4, JobsEntry DEF CallHolds, Entry
    <2>2. Ends(i, "ok")
      BY <1>4 DEF Receives
    <2> QED
      BY <1>1, <1>2, <2>1, <2>2, OneSucceeds
  <1> QED
    BY <1>3, <1>4

LEMMA TimesOutKeeps ==
  ASSUME CallsInv, NEW i \in Items, TimesOut(i) \/ CodeTimesOut(i)
  PROVE  CallsInv'
  <1>1. at[i] \in {"sent", "queued", "running"} /\ Fails(i) /\ Known
    BY HoldsOfItem DEF TimesOut, CodeTimesOut
  <1>2. job' = job /\ answer' = answer /\ requests' = requests /\ effects' = effects /\ result' = result
    BY DEF TimesOut, CodeTimesOut, Alone
  <1> QED
    BY <1>1, <1>2, OneFails

LEMMA NothingMoves ==
  ASSUME CallsInv, job' = job, at' = at, outcome' = outcome, answer' = answer,
         requests' = requests, effects' = effects, result' = result
  PROVE  CallsInv'
  <1>2. Items' = Items /\ W' = W /\ Known' = Known /\ Lacking' = Lacking
    BY DEF Items, W, Known, Lacking
  <1>3. Under' = Under
    BY <1>2 DEF Under
  <1>4. \A j \in Items : CallHolds(j)'
    BY <1>2 DEF CallsInv, CallHolds
  <1> QED
    BY <1>2, <1>3, <1>4 DEF CallsInv

LEMMA CodeKeeps ==
  ASSUME CallsInv, NEW i \in Items, CodeBegins(i) \/ CodeEnds(i)
  PROVE  CallsInv'
  <1>1. job' = job /\ answer' = answer /\ requests' = requests /\ effects' = effects /\ result' = result
    BY DEF CodeBegins, CodeEnds
  <1>2. ASSUME CodeBegins(i)
        PROVE  CallsInv'
    <2>0. PICK to : to = "running"
      OBVIOUS
    <2>1. at[i] = "queued" /\ at' = [at EXCEPT ![i] = to] /\ outcome' = outcome
      BY <1>2, <2>0 DEF CodeBegins, Goes
    <2>2. CallHolds(i) /\ Known /\ W.kind = "code" /\ ~Lacking
      BY <2>1, HoldsOfItem DEF CallHolds
    <2>3. outcome' = [outcome EXCEPT ![i] = "none"]
      BY <2>1, <2>2 DEF CallsInv, CallHolds
    <2>4. at[i] \in Before /\ to \in Before \intersect Places /\ to \notin {"sent", "closing", "over", "computing"}
      BY <2>0, <2>1 DEF Before, Places
    <2> QED
      BY <1>1, <2>1, <2>2, <2>3, <2>4, OneMoves
  <1>3. ASSUME at[i] = "running", Ends(i, "ok") \/ Fails(i)
        PROVE  CallsInv'
    <2>1. Known /\ ~W.writes
      BY <1>3, HoldsOfItem, JobsEntry DEF CallHolds, Entry
    <2> QED
      BY <1>1, <1>3, <2>1, OneFails, OneSucceeds
  <1>4. ASSUME at' = at, outcome' = outcome
        PROVE  CallsInv'
    BY <1>1, <1>4, NothingMoves
  <1> QED
    BY <1>2, <1>3, <1>4 DEF CodeEnds

LEMMA ClosesKeeps ==
  ASSUME CallsInv, NEW i \in Items, Closes(i)
  PROVE  CallsInv'
  <1>1. at[i] = "closing" /\ (Ends(i, outcome[i]) \/ Fails(i)) /\ CallHolds(i) /\ Known
    BY HoldsOfItem DEF Closes
  <1>2. job' = job /\ answer' = answer /\ requests' = requests /\ effects' = effects /\ result' = result
    BY DEF Closes, Alone
  <1>3. outcome[i] \in {"ok", "error"}
    BY <1>1 DEF CallsInv, CallHolds
  <1>4. outcome[i] = "ok" /\ W.writes /\ job.type # "http_request" => answer[i] = "nothing"
    BY <1>1 DEF CallHolds
  <1> QED
    BY <1>1, <1>2, <1>3, <1>4, OneEnds, OneFails

(* Bytes that keep coming change nothing else. *)
LEMMA TricklesKeeps ==
  ASSUME CallsInv, NEW i \in Items, Trickles(i)
  PROVE  CallsInv'
  <1>1. /\ job' = job /\ at' = at /\ outcome' = outcome /\ answer' = answer
        /\ requests' = requests /\ effects' = effects /\ result' = result
    BY DEF Trickles
  <1> QED
    BY <1>1, NothingMoves

LEMMA CallsUnchanged ==
  ASSUME CallsInv, UNCHANGED callVars
  PROVE  CallsInv'
BY NothingMoves DEF callVars

LEMMA EndKeeps ==
  ASSUME CallsInv, Refuses \/ Returns
  PROVE  CallsInv'
  <1>1. /\ job' = job /\ at' = at /\ outcome' = outcome /\ answer' = answer
        /\ requests' = requests /\ effects' = effects
    BY DEF Refuses, Returns
  <1>2. Items' = Items /\ W' = W /\ Known' = Known /\ Lacking' = Lacking
    BY <1>1 DEF Items, W, Known, Lacking
  <1>3. Under' = Under
    BY <1>1, <1>2 DEF Under
  <1>4. \A j \in Items : CallHolds(j)'
    BY <1>1, <1>2 DEF CallsInv, CallHolds
  <1>5. result' = "returned" => \A j \in Items : at[j] = "over"
    BY DEF Refuses, Returns
  <1> QED
    BY <1>1, <1>2, <1>3, <1>4, <1>5 DEF CallsInv

LEMMA CallsBegin ==
  ASSUME CallsInit
  PROVE  CallsInv
  <1>1. \A i \in Items : /\ at[i] = "waiting" /\ outcome[i] = "none" /\ answer[i] = "none"
                         /\ requests[i] = 0 /\ effects[i] = 0
    BY DEF CallsInit
  <1>2. /\ job \in Jobs /\ at \in [Items -> Places]
        /\ outcome \in [Items -> {"none", "ok", "error"}] /\ DOMAIN answer = Items /\ DOMAIN requests = Items
        /\ DOMAIN effects = Items /\ result = "pending"
    BY DEF CallsInit, Before, Places
  <1>3. \A i \in Items : CallHolds(i)
    BY <1>1 DEF CallHolds, Before
  <1>4. Under = {}
    BY <1>1 DEF Under
  <1>5. Cardinality(Under) <= job.slots
    BY <1>2, <1>4, FS_EmptySet, CallsAssumption
  <1> QED
    BY <1>2, <1>3, <1>5 DEF CallsInv

LEMMA CallsInvKept == CallsInv /\ [CallsNext]_callVars => CallsInv'
  <1> SUFFICES ASSUME CallsInv, CallsNext
               PROVE  CallsInv'
    BY CallsUnchanged
  <1>1. CASE Refuses \/ Returns
    BY <1>1, EndKeeps
  <1>2. CASE \E i \in Items : Hears(i)
    BY <1>2, GetsTokenKeeps, AsksKeeps, ReceivesKeeps, TimesOutKeeps DEF Hears
  <1>3. CASE \E i \in Items : Begins(i) \/ Computes(i) \/ CodeBegins(i) \/ CodeTimesOut(i)
    BY <1>3, BeginsKeeps, ComputesKeeps, CodeKeeps, TimesOutKeeps
  <1>4. CASE OthersStep
    BY <1>2, <1>4, TricklesKeeps, ServesKeeps, ClosesKeeps, CodeKeeps DEF OthersStep, Desists
  <1> QED
    BY <1>1, <1>2, <1>3, <1>4 DEF CallsNext, NodeStep

(* A node that lacks part of its configuration asks nobody, no node asks   *)
(* twice, one that reports success has had its request done, and a loop    *)
(* has no more calls under way than its places and tries every item        *)
(* (src/nodes, loop_items.py), whatever the services answer and lose.      *)
THEOREM CallsAreHonest == CallsSpec => []CallsHonest
  <1>1. CallsInit => CallsInv
    BY CallsBegin
  <1>2. CallsInv => CallsHonest
    <2> SUFFICES ASSUME CallsInv
                 PROVE  CallsHonest
      OBVIOUS
    <2>1. ASSUME NEW i \in Items
          PROVE  /\ requests[i] <= (IF Lacking THEN 0 ELSE 1)
                 /\ effects[i] <= requests[i]
                 /\ outcome[i] = "ok" /\ W.writes /\ job.type # "http_request" => effects[i] = 1
      <3>1. CallHolds(i)
        BY HoldsOfItem
      <3> QED
        BY <3>1 DEF CallHolds
    <2>2. result = "returned" => \A i \in Items : outcome[i] # "none"
      BY DEF CallsInv, CallHolds
    <2> QED
      BY <2>1, <2>2 DEF CallsInv, CallsHonest
  <1> QED
    BY <1>1, <1>2, CallsInvKept, PTL DEF CallsSpec

-----------------------------------------------------------------------------
(* A node's execution ends.  An item's call goes through its stages in one *)
(* direction; what is still to do are the stages before each item and the  *)
(* result.                                                                 *)
Stage == [waiting |-> 5, token |-> 4, asking |-> 3, queued |-> 3,
          computing |-> 2, sent |-> 2, running |-> 2, closing |-> 1, over |-> 0]

StillToDo ==
  {p \in Items \X (1..5) : p[2] <= Stage[at[p[1]]]}
    \union (IF result = "pending" THEN {<<0, 0>>} ELSE {})

(* A step of the node's own waits only for the clock, or for a place. *)
MayGoOn ==
  \/ ~Known
  \/ \A i \in Items : at[i] = "over"
  \/ \E i \in Items \ Stays : \/ at[i] \notin {"waiting", "over"}
                              \/ at[i] = "waiting" /\ Cardinality(Under) < job.slots

LEMMA StageRange == \A w \in Places : Stage[w] \in 0..5
  BY DEF Stage, Places, Before

LEMMA OneStageOn ==
  ASSUME CallsInv, job' = job, result' = result, NEW i \in Items, NEW to \in Places,
         at' = [at EXCEPT ![i] = to], Stage[to] < Stage[at[i]]
  PROVE  StillToDo' \subseteq StillToDo /\ StillToDo' # StillToDo
  <1>1. Items' = Items /\ at \in [Items -> Places]
    BY DEF Items, CallsInv, Places
  <1>2. at'[i] = to /\ \A j \in Items : j # i => at'[j] = at[j]
    BY <1>1
  <1>3. Stage[to] \in 0..5 /\ Stage[at[i]] \in 1..5 /\ \A j \in Items : Stage[at[j]] \in 0..5
    BY <1>1, StageRange
  <1> DEFINE stages == {p \in Items \X (1..5) : p[2] <= Stage[at[p[1]]]}
             later  == {p \in Items \X (1..5) : p[2] <= Stage[at'[p[1]]]}
             rest   == IF result = "pending" THEN {<<0, 0>>} ELSE {}
  <1>4. StillToDo = stages \union rest /\ StillToDo' = later \union rest
    BY <1>1 DEF StillToDo
  <1>5. ASSUME NEW p \in Items \X (1..5), p[2] <= Stage[at'[p[1]]]
        PROVE  p[2] <= Stage[at[p[1]]]
    <2>1. p[1] \in Items /\ p[2] \in 1..5
      OBVIOUS
    <2>2. CASE p[1] = i
      BY <1>2, <1>3, <1>5, <2>1, <2>2
    <2>3. CASE p[1] # i
      BY <1>2, <1>5, <2>1, <2>3
    <2> QED
      BY <2>2, <2>3
  <1>6. <<i, Stage[at[i]]>> \in stages /\ <<i, Stage[at[i]]>> \notin later
    BY <1>2, <1>3
  <1>7. <<i, Stage[at[i]]>> \notin rest
    BY <1>3
  <1> QED
    BY <1>4, <1>5, <1>6, <1>7

(* Ending a call is a stage on, from wherever it is. *)
LEMMA EndIsAStage ==
  ASSUME CallsInv, job' = job, result' = result, NEW i \in Items, at[i] # "over",
         NEW how, Ends(i, how)
  PROVE  StillToDo' \subseteq StillToDo /\ StillToDo' # StillToDo
  <1>1. PICK to \in {"closing", "over"} :
           /\ at' = [at EXCEPT ![i] = to] /\ (to = "closing" => at[i] = "sent") /\ to \in Places
    BY EndMoves
  <1>2. Stage[to] < Stage[at[i]]
    BY <1>1 DEF CallsInv, Stage, Places, Before
  <1> QED
    BY <1>1, <1>2, OneStageOn

LEMMA ItemStepGoesOn ==
  ASSUME CallsInv, NEW i \in Items,
         Begins(i) \/ Computes(i) \/ Hears(i) \/ CodeBegins(i) \/ CodeTimesOut(i)
  PROVE  StillToDo' \subseteq StillToDo /\ StillToDo' # StillToDo
  <1>1. job' = job /\ result' = result
    BY DEF Begins, Computes, Hears, GetsToken, Asks, Receives, TimesOut, CodeBegins, CodeTimesOut, Alone
  <1>2. at[i] # "over"
    BY DEF Begins, Computes, Hears, GetsToken, Asks, Receives, TimesOut, CodeBegins, CodeTimesOut, Goes
  <1>3. ASSUME NEW from \in Places, NEW to \in Places, Goes(i, from, to), Stage[to] < Stage[from]
        PROVE  StillToDo' \subseteq StillToDo /\ StillToDo' # StillToDo
    BY <1>1, <1>3, OneStageOn DEF Goes
  <1>4. CASE Fails(i) \/ Ends(i, "ok")
    BY <1>1, <1>2, <1>4, EndIsAStage DEF Fails
  <1>5. CASE Begins(i) /\ ~Fails(i)
    <2> DEFINE to == CASE W.kind = "local" -> "computing"
                       [] W.kind = "code"  -> "queued"
                       [] W.token          -> "token"
                       [] OTHER            -> "asking"
    <2>1. Goes(i, "waiting", to)
      BY <1>5 DEF Begins
    <2>2. to \in {"computing", "queued", "token", "asking"}
      OBVIOUS
    <2> HIDE DEF to
    <2>3. to \in Places /\ "waiting" \in Places /\ Stage[to] < Stage["waiting"]
      BY <2>2 DEF Places, Before, Stage
    <2> QED
      BY <1>3, <2>1, <2>3
  <1>6. CASE Goes(i, "token", "asking") \/ Goes(i, "asking", "sent") \/ Goes(i, "queued", "running")
    <2>1. /\ {"token", "asking", "sent", "queued", "running"} \subseteq Places
          /\ Stage["asking"] < Stage["token"] /\ Stage["sent"] < Stage["asking"]
          /\ Stage["running"] < Stage["queued"]
      BY DEF Places, Before, Stage
    <2> QED
      BY <1>3, <1>6, <2>1
  <1>7. CASE Computes(i) \/ Receives(i) \/ TimesOut(i) \/ CodeTimesOut(i)
    BY <1>4, <1>7 DEF Computes, Receives, TimesOut, CodeTimesOut
  <1>8. CASE GetsToken(i) \/ Asks(i) \/ CodeBegins(i)
    BY <1>4, <1>6, <1>8 DEF GetsToken, Asks, CodeBegins
  <1> QED
    BY <1>4, <1>5, <1>7, <1>8 DEF Hears

LEMMA ResultIsLast ==
  ASSUME Refuses \/ Returns
  PROVE  StillToDo' \subseteq StillToDo /\ StillToDo' # StillToDo
  <1>1. job' = job /\ at' = at /\ result = "pending" /\ result' # "pending"
    BY DEF Refuses, Returns
  <1>2. Items' = Items
    BY <1>1 DEF Items
  <1>3. <<0, 0>> \notin {p \in Items \X (1..5) : p[2] <= Stage[at[p[1]]]}
    OBVIOUS
  <1> QED
    BY <1>1, <1>2, <1>3 DEF StillToDo

(* What the service and the user's code do takes nothing back. *)
LEMMA OthersTakeNothingBack ==
  ASSUME CallsInv, OthersStep
  PROVE  StillToDo' \subseteq StillToDo
  <1>1. PICK i \in Items : Trickles(i) \/ Desists(i) \/ Serves(i) \/ Closes(i) \/ CodeEnds(i)
    BY DEF OthersStep
  <1>2. CASE Desists(i)
    BY <1>2, ItemStepGoesOn DEF Desists
  <1>3. CASE at' = at /\ (Trickles(i) \/ Serves(i) \/ CodeEnds(i))
    BY <1>3 DEF Trickles, Serves, CodeEnds, StillToDo, Items
  <1>4. CASE Closes(i)
    <2>1. job' = job /\ result' = result /\ at[i] # "over"
      BY <1>4 DEF Closes, Alone
    <2> QED
      BY <1>4, <2>1, EndIsAStage DEF Closes, Fails
  <1>5. CASE CodeEnds(i) /\ at[i] = "running" /\ (Ends(i, "ok") \/ Fails(i))
    <2>1. job' = job /\ result' = result
      BY <1>5 DEF CodeEnds
    <2> QED
      BY <1>5, <2>1, EndIsAStage DEF Fails
  <1> QED
    BY <1>1, <1>2, <1>3, <1>4, <1>5 DEF Trickles, Serves, CodeEnds

LEMMA StepsAreFinite ==
  ASSUME CallsInv
  PROVE  IsFiniteSet(StillToDo) /\ Cardinality(StillToDo) <= 5 * job.items + 1
  <1>1. job.items \in Nat
    BY UnderIsFinite
  <1> DEFINE all == Items \X (1..5)
  <1>0. ASSUME NEW n \in Nat
        PROVE  IsFiniteSet(1..n) /\ Cardinality(1..n) = n
    <2>1. IsFiniteSet(1..n) /\ Cardinality(1..n) = IF 1 > n THEN 0 ELSE n - 1 + 1
      BY FS_Interval
    <2> QED
      BY <2>1
  <1>2. IsFiniteSet(Items) /\ Cardinality(Items) = job.items
    BY <1>0, <1>1 DEF Items
  <1>3. IsFiniteSet(1..5) /\ Cardinality(1..5) = 5
    BY <1>0
  <1>4. IsFiniteSet(all) /\ Cardinality(all) = 5 * job.items
    <2>1. Cardinality(all) = Cardinality(Items) * Cardinality(1..5) /\ IsFiniteSet(all)
      BY <1>2, <1>3, FS_Product
    <2> QED
      BY <1>1, <1>2, <1>3, <2>1
  <1>5. <<0, 0>> \notin all
    OBVIOUS
  <1>6. IsFiniteSet(all \union {<<0, 0>>}) /\ Cardinality(all \union {<<0, 0>>}) = 5 * job.items + 1
    BY <1>4, <1>5, FS_AddElement
  <1>7. StillToDo \subseteq all \union {<<0, 0>>}
    BY DEF StillToDo
  <1> QED
    BY <1>6, <1>7, FS_Subset

(* Where no step is possible, every place is held by a call that only its  *)
(* service can end, or no call that began is left and there is no place.   *)
LEMMA GoesOnOrHangs ==
  ASSUME CallsInv, ~Hangs
  PROVE  MayGoOn
  <1> SUFFICES ASSUME ~MayGoOn PROVE Hangs
    OBVIOUS
  <1>1. /\ Known
        /\ \E i \in Items : at[i] # "over"
        /\ \A i \in Items \ Stays : at[i] \in {"waiting", "over"}
        /\ \A i \in Items \ Stays : at[i] = "waiting" => ~(Cardinality(Under) < job.slots)
    BY DEF MayGoOn
  <1>2. Stays = Under
    BY <1>1 DEF Stays, Under
  <1>3. Cardinality(Under) \in Nat /\ job.slots \in Nat /\ Cardinality(Under) <= job.slots
    BY UnderIsFinite DEF CallsInv
  <1>4. ASSUME NEW i \in Items, at[i] # "over", i \notin Stays
        PROVE  at[i] = "waiting" /\ Cardinality(Stays) = job.slots
    <2>1. at[i] = "waiting" /\ ~(Cardinality(Under) < job.slots)
      BY <1>1, <1>4
    <2> QED
      BY <1>2, <1>3, <2>1
  <1> QED
    BY <1>1, <1>4 DEF Hangs

(* A node never goes round in vain, and hangs on nothing but its service:  *)
(* each of its own steps leaves less to do, nobody else's step adds to it, *)
(* and until the result is there a step of its own is possible, or calls   *)
(* whose service trickles or does not let go of its connection are all     *)
(* that is left, but for items that wait for their places                  *)
(* (loop_items.py:60-85, db_query.py:58, http_request.py:40).              *)
THEOREM NodesEnd ==
  CallsSpec =>
    /\ [](/\ IsFiniteSet(StillToDo) /\ Cardinality(StillToDo) <= 5 * job.items + 1
          /\ MayGoOn \/ Hangs)
    /\ [][StillToDo' \subseteq StillToDo /\ (NodeStep => StillToDo' # StillToDo)]_callVars
  <1> DEFINE Bounded == /\ IsFiniteSet(StillToDo) /\ Cardinality(StillToDo) <= 5 * job.items + 1
                        /\ MayGoOn \/ Hangs
             Shrinks == StillToDo' \subseteq StillToDo /\ (NodeStep => StillToDo' # StillToDo)
  <1>1. CallsInv => Bounded
    BY StepsAreFinite, GoesOnOrHangs
  <1>2. CallsInv /\ [CallsNext]_callVars => [Shrinks]_callVars
    <2> SUFFICES ASSUME CallsInv, CallsNext PROVE Shrinks
      OBVIOUS
    <2>1. CASE NodeStep
      <3>1. CASE Refuses \/ Returns
        BY <3>1, ResultIsLast
      <3>2. CASE ~(Refuses \/ Returns)
        <4>1. PICK i \in Items : Begins(i) \/ Computes(i) \/ Hears(i) \/ CodeBegins(i) \/ CodeTimesOut(i)
          BY <2>1, <3>2 DEF NodeStep
        <4> QED
          BY <4>1, ItemStepGoesOn
      <3> QED
        BY <3>1, <3>2
    <2>2. CASE ~NodeStep
      BY <2>2, OthersTakeNothingBack DEF CallsNext
    <2> QED
      BY <2>1, <2>2
  <1> HIDE DEF Bounded, Shrinks
  <1>3. CallsSpec => []Bounded /\ [][Shrinks]_callVars
    BY <1>1, <1>2, CallsBegin, CallsInvKept, PTL DEF CallsSpec
  <1> QED
    BY <1>3 DEF Bounded, Shrinks

-----------------------------------------------------------------------------
(* The two Kahn loops.  Both count down, for every node, the edges whose   *)
(* source is not done yet: popped before (DagValidator) or in a level      *)
(* (ExecutorLevels).                                                       *)
EdgeWaits(D, n) == {i \in EdgesInto(graph, n) : graph.edges[i].source \notin D}

Counts(f, D) ==
  /\ f \in [IdSet(graph) -> Nat]
  /\ \A n \in IdSet(graph) : f[n] = Cardinality(EdgeWaits(D, n))

Free(D) == {n \in IdSet(graph) \ D : EdgeWaits(D, n) = {}}

Popped == {n \in IdSet(graph) : rank[n] > 0}

LEMMA GraphTypes ==
  ASSUME graph \in Graphs
  PROVE  /\ graph.nodes \in Seq(NodeId)
         /\ graph.edges \in Seq([source : NodeId, target : NodeId])
         /\ IsFiniteSet(DOMAIN graph.edges)
         /\ IsFiniteSet(IdSet(graph))
  <1>1. graph \in [nodes : Seq(NodeId), edges : Seq([source : NodeId, target : NodeId])]
    BY GraphsAssumption
  <1>2. graph.nodes \in Seq(NodeId) /\ graph.edges \in Seq([source : NodeId, target : NodeId])
    BY <1>1
  <1>3. /\ DOMAIN graph.nodes = 1..Len(graph.nodes) /\ Len(graph.nodes) \in Int
        /\ DOMAIN graph.edges = 1..Len(graph.edges) /\ Len(graph.edges) \in Int
    BY <1>2
  <1>4. IsFiniteSet(DOMAIN graph.nodes) /\ IsFiniteSet(DOMAIN graph.edges)
    BY <1>3, FS_Interval
  <1>5. IsFiniteSet(IdSet(graph))
    <2> DEFINE listed == [k \in DOMAIN graph.nodes |-> graph.nodes[k]]
    <2>1. listed \in Surjection(DOMAIN graph.nodes, IdSet(graph))
      BY DEF IdSet, Surjection
    <2> HIDE DEF listed
    <2> QED
      BY <1>4, <2>1, FS_Surjection
  <1> QED
    BY <1>2, <1>4, <1>5

LEMMA EndpointsKnown ==
  ASSUME WellFormed(graph)
  PROVE  \A i \in DOMAIN graph.edges :
           graph.edges[i].source \in IdSet(graph) /\ graph.edges[i].target \in IdSet(graph)
  BY DEF WellFormed, UnknownEndpoint

LEMMA WaitsAreFinite ==
  ASSUME graph \in Graphs, NEW D, NEW n
  PROVE  /\ IsFiniteSet(EdgeWaits(D, n)) /\ Cardinality(EdgeWaits(D, n)) \in Nat
         /\ (Cardinality(EdgeWaits(D, n)) = 0) <=> (EdgeWaits(D, n) = {})
  <1>1. EdgeWaits(D, n) \subseteq DOMAIN graph.edges
    BY DEF EdgeWaits, EdgesInto
  <1>2. IsFiniteSet(EdgeWaits(D, n))
    BY <1>1, GraphTypes, FS_Subset
  <1> QED
    BY <1>2, FS_CardinalityType, FS_EmptySet

(* What a loop's step does to the counters and to the nodes that are ready. *)
LEMMA CountDown ==
  ASSUME graph \in Graphs, NEW D \in SUBSET IdSet(graph), NEW S \in SUBSET IdSet(graph),
         S \cap D = {}, NEW f, Counts(f, D)
  PROVE  /\ Counts(Consume(graph, f, S), D \cup S)
         /\ NewlyReady(f, Consume(graph, f, S)) =
              {n \in IdSet(graph) : EdgeWaits(D, n) # {} /\ EdgeWaits(D \cup S, n) = {}}
  <1> DEFINE g == Consume(graph, f, S)
  <1>1. DOMAIN f = IdSet(graph)
    BY DEF Counts
  <1>2. g = [n \in IdSet(graph) |-> f[n] - Cardinality(EdgesInto(graph, n) \cap EdgesFrom(graph, S))]
    BY <1>1 DEF Consume
  <1>3. ASSUME NEW n \in IdSet(graph)
        PROVE  f[n] - Cardinality(EdgesInto(graph, n) \cap EdgesFrom(graph, S)) = Cardinality(EdgeWaits(D \cup S, n))
    <2>1. EdgeWaits(D \cup S, n) = EdgeWaits(D, n) \ (EdgesInto(graph, n) \cap EdgesFrom(graph, S))
      BY DEF EdgeWaits, EdgesInto, EdgesFrom
    <2>2. EdgeWaits(D, n) \cap (EdgesInto(graph, n) \cap EdgesFrom(graph, S)) = EdgesInto(graph, n) \cap EdgesFrom(graph, S)
      BY DEF EdgeWaits, EdgesInto, EdgesFrom
    <2>3. f[n] = Cardinality(EdgeWaits(D, n)) /\ IsFiniteSet(EdgeWaits(D, n))
      BY WaitsAreFinite DEF Counts
    <2>4. Cardinality(EdgeWaits(D, n) \ (EdgesInto(graph, n) \cap EdgesFrom(graph, S)))
            = Cardinality(EdgeWaits(D, n))
              - Cardinality(EdgeWaits(D, n) \cap (EdgesInto(graph, n) \cap EdgesFrom(graph, S)))
      BY <2>3, FS_Difference
    <2> QED
      BY <2>1, <2>2, <2>3, <2>4
  <1>4. g = [n \in IdSet(graph) |-> Cardinality(EdgeWaits(D \cup S, n))]
    BY <1>2, <1>3
  <1>5. \A n \in IdSet(graph) : Cardinality(EdgeWaits(D \cup S, n)) \in Nat
    BY WaitsAreFinite
  <1>6. Counts(g, D \cup S)
    BY <1>4, <1>5 DEF Counts
  <1>7. NewlyReady(f, g) = {n \in IdSet(graph) : f[n] > 0 /\ g[n] = 0}
    BY <1>1 DEF NewlyReady
  <1>8. ASSUME NEW n \in IdSet(graph)
        PROVE  (f[n] > 0 <=> EdgeWaits(D, n) # {}) /\ (g[n] = 0 <=> EdgeWaits(D \cup S, n) = {})
    <2>1. f[n] = Cardinality(EdgeWaits(D, n)) /\ g[n] = Cardinality(EdgeWaits(D \cup S, n))
      BY <1>6 DEF Counts
    <2>2. /\ Cardinality(EdgeWaits(D, n)) \in Nat
          /\ (Cardinality(EdgeWaits(D, n)) = 0) <=> (EdgeWaits(D, n) = {})
          /\ (Cardinality(EdgeWaits(D \cup S, n)) = 0) <=> (EdgeWaits(D \cup S, n) = {})
      BY WaitsAreFinite
    <2> QED
      BY <2>1, <2>2
  <1> HIDE DEF g
  <1>9. NewlyReady(f, g) = {n \in IdSet(graph) : EdgeWaits(D, n) # {} /\ EdgeWaits(D \cup S, n) = {}}
    BY <1>7, <1>8
  <1> QED
    BY <1>6, <1>9 DEF g

(* Before anything is done every edge waits. *)
LEMMA CountsBegin ==
  ASSUME graph \in Graphs
  PROVE  /\ Counts([n \in IdSet(graph) |-> Cardinality(EdgesInto(graph, n))], {})
         /\ {n \in IdSet(graph) : EdgesInto(graph, n) = {}} = Free({})
  <1>1. \A n : EdgeWaits({}, n) = EdgesInto(graph, n)
    BY DEF EdgeWaits
  <1>2. \A n \in IdSet(graph) : Cardinality(EdgesInto(graph, n)) \in Nat
    BY <1>1, WaitsAreFinite
  <1> QED
    BY <1>1, <1>2 DEF Counts, Free

-----------------------------------------------------------------------------
(* The validator: an edge is run forwards, and the ready nodes are those   *)
(* that nothing unpopped leads to.                                         *)
Forwards ==
  \A i \in DOMAIN graph.edges :
    LET s == graph.edges[i].source
        t == graph.edges[i].target
    IN  rank[t] > 0 => rank[s] > 0 /\ rank[s] < rank[t]

KahnTypes ==
  /\ graph \in Graphs
  /\ pc \in {"check", "kahn"} \cup Verdicts
  /\ visited \in Nat
  /\ rank \in [IdSet(graph) -> Nat]
  /\ \A n \in IdSet(graph) : rank[n] <= visited
  /\ indeg \in [IdSet(graph) -> Nat]
  /\ queue \in SUBSET IdSet(graph)

KahnHolds ==
  /\ WellFormed(graph)
  /\ Counts(indeg, Popped)
  /\ queue = Free(Popped)
  /\ visited = Cardinality(Popped)
  /\ Forwards

KahnInv ==
  /\ KahnTypes
  /\ pc \notin {"kahn", "accepted", "cycle"} => visited = 0 /\ \A n \in IdSet(graph) : rank[n] = 0
  /\ pc \in {"kahn", "accepted", "cycle"} => KahnHolds
  /\ pc = "accepted" => Popped = IdSet(graph)
  /\ pc = "cycle" => queue = {} /\ Popped # IdSet(graph)
  /\ pc = "unknown endpoint" => UnknownEndpoint(graph)
  /\ pc = "duplicate id" => DuplicateIds(graph)
  /\ pc = "empty" => graph.nodes = <<>>

LEMMA KahnBegins == Init => KahnInv
  BY DEF Init, KahnInv, KahnTypes, Verdicts

LEMMA RefusalsKeep ==
  ASSUME KahnInv, RejectEmpty \/ RejectDuplicate \/ RejectUnknownEndpoint
  PROVE  KahnInv'
  <1>1. /\ graph' = graph /\ visited' = visited /\ rank' = rank /\ indeg' = indeg /\ queue' = queue
        /\ pc = "check"
        /\ \/ (pc' = "empty" /\ graph.nodes = <<>>)
           \/ (pc' = "duplicate id" /\ DuplicateIds(graph))
           \/ (pc' = "unknown endpoint" /\ UnknownEndpoint(graph))
    BY DEF RejectEmpty, RejectDuplicate, RejectUnknownEndpoint, Reject
  <1>2. KahnTypes'
    BY <1>1 DEF KahnInv, KahnTypes, Verdicts
  <1> QED
    BY <1>1, <1>2 DEF KahnInv

LEMMA BuildKeeps ==
  ASSUME KahnInv, BuildIndegrees
  PROVE  KahnInv'
  <1>1. /\ graph' = graph /\ visited' = visited /\ rank' = rank /\ pc' = "kahn" /\ pc = "check"
        /\ indeg' = [n \in IdSet(graph) |-> Cardinality(EdgesInto(graph, n))]
        /\ queue' = {n \in IdSet(graph) : EdgesInto(graph, n) = {}}
        /\ WellFormed(graph)
    BY DEF BuildIndegrees, WellFormed
  <1>2. KahnTypes'
    <2>1. Counts(indeg', {}) /\ queue' = Free({}) /\ KahnTypes
      BY <1>1, CountsBegin DEF KahnInv, KahnTypes
    <2>2. indeg' \in [IdSet(graph) -> Nat] /\ queue' \in SUBSET IdSet(graph)
      BY <2>1 DEF Counts, Free
    <2> QED
      BY <1>1, <2>1, <2>2 DEF KahnTypes
  <1>3. visited = 0 /\ (\A n \in IdSet(graph) : rank[n] = 0) /\ graph \in Graphs
    BY <1>1 DEF KahnInv, KahnTypes
  <1>4. Popped' = {}
    BY <1>1, <1>3 DEF Popped
  <1>5. Counts(indeg', {}) /\ queue' = Free({})
    BY <1>1, <1>3, CountsBegin
  <1>6. Counts(indeg, Popped)' /\ queue' = Free(Popped)'
    BY <1>1, <1>4, <1>5 DEF Counts, Free, EdgeWaits
  <1>7. visited' = Cardinality(Popped)'
    BY <1>1, <1>3, <1>4, FS_EmptySet
  <1>8. Forwards'
    BY <1>1, <1>3, EndpointsKnown DEF Forwards
  <1> QED
    BY <1>1, <1>2, <1>6, <1>7, <1>8 DEF KahnInv, KahnHolds

LEMMA VisitKeeps ==
  ASSUME KahnInv, NEW cur \in IdSet(graph), Visit(cur)
  PROVE  KahnInv'
  <1>1. /\ graph' = graph /\ visited' = visited + 1 /\ pc' = pc /\ pc = "kahn"
        /\ rank' = [rank EXCEPT ![cur] = visited + 1]
        /\ indeg' = Consume(graph, indeg, {cur})
        /\ queue' = (queue \ {cur}) \cup NewlyReady(indeg, indeg')
        /\ cur \in queue
    BY DEF Visit
  <1>2. KahnTypes /\ KahnHolds /\ graph \in Graphs /\ visited \in Nat
    BY <1>1 DEF KahnInv, KahnTypes
  <1>3. rank[cur] = 0 /\ EdgeWaits(Popped, cur) = {} /\ cur \notin Popped
    BY <1>1, <1>2 DEF KahnHolds, KahnTypes, Free, Popped
  <1>4. /\ rank'[cur] = visited + 1 /\ \A n \in IdSet(graph) : n # cur => rank'[n] = rank[n]
        /\ rank' \in [IdSet(graph) -> Nat]
    BY <1>1, <1>2 DEF KahnTypes
  <1>6. Popped' = Popped \cup {cur} /\ Popped \subseteq IdSet(graph)
    BY <1>1, <1>2, <1>4 DEF Popped
  <1>7. /\ Counts(indeg', Popped \cup {cur})
        /\ NewlyReady(indeg, indeg') =
             {n \in IdSet(graph) : EdgeWaits(Popped, n) # {} /\ EdgeWaits(Popped \cup {cur}, n) = {}}
    <2>1. {cur} \in SUBSET IdSet(graph) /\ {cur} \cap Popped = {} /\ Popped \in SUBSET IdSet(graph)
      BY <1>3, <1>6
    <2>2. Counts(indeg, Popped) /\ graph \in Graphs
      BY <1>2 DEF KahnHolds
    <2>3. /\ Counts(Consume(graph, indeg, {cur}), Popped \cup {cur})
          /\ NewlyReady(indeg, Consume(graph, indeg, {cur})) =
               {n \in IdSet(graph) : EdgeWaits(Popped, n) # {} /\ EdgeWaits(Popped \cup {cur}, n) = {}}
      BY ONLY <2>1, <2>2, CountDown
    <2> QED
      BY <1>1, <2>3
  <1>8. ASSUME NEW n \in Popped PROVE EdgeWaits(Popped, n) = {}
    BY <1>2, EndpointsKnown DEF KahnHolds, Forwards, EdgeWaits, EdgesInto, Popped
  <1>9. queue' = Free(Popped \cup {cur})
    <2>1. \A n \in IdSet(graph) : EdgeWaits(Popped, n) = {} => EdgeWaits(Popped \cup {cur}, n) = {}
      BY DEF EdgeWaits
    <2>2. queue = Free(Popped)
      BY <1>2 DEF KahnHolds
    <2> QED
      BY <1>1, <1>3, <1>7, <1>8, <2>1, <2>2 DEF Free
  <1>5. KahnTypes'
    <2>1. indeg' \in [IdSet(graph) -> Nat] /\ queue' \in SUBSET IdSet(graph)
      BY <1>7, <1>9 DEF Counts, Free
    <2>2. \A n \in IdSet(graph) : rank'[n] <= visited + 1
      BY <1>2, <1>4 DEF KahnTypes
    <2> QED
      BY <1>1, <1>2, <1>4, <2>1, <2>2 DEF KahnTypes
  <1>10. Counts(indeg, Popped)' /\ queue' = Free(Popped)'
    <2>1. \A n : EdgeWaits(Popped, n)' = EdgeWaits(Popped \cup {cur}, n)
      BY <1>1, <1>6 DEF EdgeWaits
    <2> QED
      BY <1>1, <1>6, <1>7, <1>9, <2>1 DEF Counts, Free
  <1>11. visited' = Cardinality(Popped)'
    <2>1. IsFiniteSet(Popped)
      BY <1>2, <1>6, GraphTypes, FS_Subset
    <2>2. Cardinality(Popped \cup {cur}) = Cardinality(Popped) + 1
      BY <1>3, <2>1, FS_AddElement
    <2> QED
      BY <1>1, <1>2, <1>6, <2>2 DEF KahnHolds
  <1>12. Forwards'
    <2> SUFFICES ASSUME NEW i \in DOMAIN graph.edges, rank'[graph.edges[i].target] > 0
                 PROVE  /\ rank'[graph.edges[i].source] > 0
                        /\ rank'[graph.edges[i].source] < rank'[graph.edges[i].target]
      BY <1>1 DEF Forwards
    <2>1. /\ graph.edges[i].source \in IdSet(graph) /\ graph.edges[i].target \in IdSet(graph)
          /\ rank[graph.edges[i].source] \in Nat /\ rank[graph.edges[i].target] \in Nat
          /\ rank[graph.edges[i].source] <= visited
      BY <1>2, EndpointsKnown DEF KahnHolds, KahnTypes
    <2>2. CASE graph.edges[i].target = cur
      <3>1. graph.edges[i].source \in Popped
        BY <1>3, <2>2 DEF EdgeWaits, EdgesInto
      <3> QED
        BY <1>2, <1>3, <1>4, <2>1, <2>2, <3>1 DEF Popped
    <2>3. CASE graph.edges[i].target # cur
      <3>1. rank[graph.edges[i].target] > 0
        BY <1>4, <2>1, <2>3
      <3>2. rank[graph.edges[i].source] > 0 /\ rank[graph.edges[i].source] < rank[graph.edges[i].target]
        BY <1>2, <3>1 DEF KahnHolds, Forwards
      <3> QED
        BY <1>3, <1>4, <2>1, <2>3, <3>2
    <2> QED
      BY <2>2, <2>3
  <1>13. WellFormed(graph)'
    BY <1>1, <1>2 DEF KahnHolds
  <1> QED
    BY <1>1, <1>5, <1>10, <1>11, <1>12, <1>13 DEF KahnInv, KahnHolds

LEMMA DecideKeeps ==
  ASSUME KahnInv, Decide
  PROVE  KahnInv'
  <1>1. /\ graph' = graph /\ visited' = visited /\ rank' = rank /\ indeg' = indeg /\ queue' = queue
        /\ pc = "kahn" /\ queue = {}
        /\ pc' = IF visited # Len(graph.nodes) THEN "cycle" ELSE "accepted"
    BY DEF Decide
  <1>2. KahnTypes /\ KahnHolds
    BY <1>1 DEF KahnInv
  <1>3. KahnTypes' /\ KahnHolds' /\ Popped' = Popped
    BY <1>1, <1>2 DEF KahnTypes, KahnHolds, Verdicts, Popped, Forwards, Counts, Free, EdgeWaits
  <1>4. Len(graph.nodes) = Cardinality(IdSet(graph))
    BY <1>2 DEF KahnHolds, WellFormed, DuplicateIds
  <1>5. (visited = Len(graph.nodes)) <=> (Popped = IdSet(graph))
    <2>1. Popped \subseteq IdSet(graph) /\ IsFiniteSet(IdSet(graph))
      BY <1>2, GraphTypes DEF Popped, KahnTypes
    <2>2. Cardinality(Popped) = Cardinality(IdSet(graph)) => Popped = IdSet(graph)
      BY <2>1, FS_Subset
    <2> QED
      BY <1>2, <1>4, <2>2 DEF KahnHolds
  <1> QED
    BY <1>1, <1>3, <1>5 DEF KahnInv

LEMMA KahnKeeps == KahnInv /\ [Next]_vars => KahnInv'
  <1> SUFFICES ASSUME KahnInv, [Next]_vars PROVE KahnInv'
    OBVIOUS
  <1>1. CASE UNCHANGED vars
    <2>1. /\ graph' = graph /\ pc' = pc /\ indeg' = indeg /\ queue' = queue /\ visited' = visited
          /\ rank' = rank
      BY <1>1 DEF vars
    <2>2. Popped' = Popped /\ KahnTypes'
      BY <2>1 DEF KahnInv, KahnTypes, Popped
    <2>3. Forwards' <=> Forwards
      BY <2>1 DEF Forwards
    <2>4. Counts(indeg, Popped)' <=> Counts(indeg, Popped)
      BY <2>1, <2>2 DEF Counts, EdgeWaits
    <2>5. Free(Popped)' = Free(Popped)
      BY <2>1, <2>2 DEF Free, EdgeWaits
    <2>6. KahnHolds => KahnHolds'
      BY <2>1, <2>2, <2>3, <2>4, <2>5 DEF KahnHolds
    <2> QED
      BY <2>1, <2>2, <2>6 DEF KahnInv
  <1> QED
    BY <1>1, RefusalsKeep, BuildKeeps, VisitKeeps, DecideKeeps DEF Next

-----------------------------------------------------------------------------
(* Paths.  A node of a set in which every node has a predecessor in the    *)
(* set lies behind a cycle: take one with the fewest nodes leading to it.  *)
LEMMA LeastNumber ==
  ASSUME NEW T \in SUBSET Nat, T # {}
  PROVE  \E x \in T : \A y \in T : x <= y
  <1> DEFINE below == {0..i : i \in T}
  <1>1. below \subseteq FiniteSubsetsOf(Nat) /\ below # {}
    <2>1. ASSUME NEW i \in T PROVE 0..i \in FiniteSubsetsOf(Nat)
      <3>1. i \in Int /\ 0 \in Int /\ 0..i \in SUBSET Nat
        OBVIOUS
      <3>2. IsFiniteSet(0..i)
        BY <3>1, FS_Interval
      <3> QED
        BY <3>1, <3>2 DEF FiniteSubsetsOf
    <2> QED
      BY <2>1
  <1>2. \E x \in below : \A y \in below : <<y, x>> \notin StrictSubsetOrdering(Nat)
    <2> HIDE DEF below
    <2> QED
      BY <1>1, FS_StrictSubsetOrderingWellFounded, WFMin
  <1>3. PICK i \in T : \A y \in below : <<y, 0..i>> \notin StrictSubsetOrdering(Nat)
    BY <1>2
  <1>4. ASSUME NEW j \in T PROVE i <= j
    <2>1. 0..j \in SUBSET Nat /\ 0..i \in SUBSET Nat
      OBVIOUS
    <2>2. ~(0..j \subseteq 0..i /\ 0..j # 0..i)
      BY <1>3, <2>1 DEF StrictSubsetOrdering
    <2> QED
      BY <2>2
  <1> QED
    BY <1>4

LEMMA EdgeReaches ==
  ASSUME NEW i \in DOMAIN graph.edges
  PROVE  Reaches(graph, graph.edges[i].source, graph.edges[i].target)
  BY DEF Reaches, Successors, EdgesFrom

LEMMA PathsJoin ==
  ASSUME NEW a, NEW b, NEW c, Reaches(graph, a, b), Reaches(graph, b, c)
  PROVE  Reaches(graph, a, c)
  <1> SUFFICES ASSUME NEW T \in SUBSET IdSet(graph),
                      (Successors(graph, {a}) \cup Successors(graph, T)) \subseteq T
               PROVE  c \in T
    BY DEF Reaches
  <1>1. b \in T
    BY DEF Reaches
  <1>2. Successors(graph, {b}) \subseteq Successors(graph, T)
    BY <1>1 DEF Successors, EdgesFrom
  <1> QED
    BY <1>2 DEF Reaches

Ancestors(n) == {m \in IdSet(graph) : Reaches(graph, m, n)}

LEMMA CycleBehind ==
  ASSUME graph \in Graphs, NEW T \in SUBSET IdSet(graph), T # {},
         \A n \in T : \E i \in EdgesInto(graph, n) : graph.edges[i].source \in T
  PROVE  OnCycle(graph) # {}
  <1> DEFINE above == {Ancestors(n) : n \in T}
  <1>1. above \subseteq FiniteSubsetsOf(IdSet(graph)) /\ above # {}
    <2>1. ASSUME NEW n \in T PROVE Ancestors(n) \in FiniteSubsetsOf(IdSet(graph))
      <3>1. Ancestors(n) \subseteq IdSet(graph)
        BY DEF Ancestors
      <3>2. IsFiniteSet(Ancestors(n))
        BY <3>1, GraphTypes, FS_Subset
      <3> QED
        BY <3>1, <3>2 DEF FiniteSubsetsOf
    <2> QED
      BY <2>1
  <1>2. \E x \in above : \A y \in above : <<y, x>> \notin StrictSubsetOrdering(IdSet(graph))
    <2> HIDE DEF above
    <2> QED
      BY <1>1, FS_StrictSubsetOrderingWellFounded, WFMin
  <1>3. PICK n \in T : \A y \in above : <<y, Ancestors(n)>> \notin StrictSubsetOrdering(IdSet(graph))
    BY <1>2
  <1>4. PICK i \in EdgesInto(graph, n) : graph.edges[i].source \in T
    OBVIOUS
  <1> DEFINE p == graph.edges[i].source
  <1>5. Reaches(graph, p, n) /\ p \in IdSet(graph) /\ Ancestors(p) \in above
    BY <1>4, EdgeReaches DEF EdgesInto
  <1>6. Ancestors(p) \subseteq Ancestors(n)
    BY <1>5, PathsJoin DEF Ancestors
  <1>7. Ancestors(p) = Ancestors(n)
    BY <1>3, <1>5, <1>6 DEF StrictSubsetOrdering, Ancestors
  <1>8. p \in Ancestors(p)
    BY <1>5, <1>7 DEF Ancestors
  <1> QED
    BY <1>5, <1>8 DEF Ancestors, OnCycle

(* An order in which every edge runs forwards leaves no cycle.             *)
LEMMA ForwardsIsAcyclic ==
  ASSUME KahnTypes, WellFormed(graph), Forwards, Popped = IdSet(graph)
  PROVE  OnCycle(graph) = {}
  <1> SUFFICES ASSUME NEW n \in IdSet(graph), Reaches(graph, n, n) PROVE FALSE
    BY DEF OnCycle
  <1> DEFINE later == {m \in IdSet(graph) : rank[n] < rank[m]}
  <1>1. \A i \in DOMAIN graph.edges :
           /\ graph.edges[i].source \in IdSet(graph) /\ graph.edges[i].target \in IdSet(graph)
           /\ rank[graph.edges[i].source] < rank[graph.edges[i].target]
    BY EndpointsKnown DEF Forwards, Popped
  <1>2. \A m \in IdSet(graph) : rank[m] \in Nat
    BY DEF KahnTypes
  <1>3. Successors(graph, {n}) \subseteq later
    BY <1>1, <1>2 DEF Successors, EdgesFrom
  <1>4. Successors(graph, later) \subseteq later
    BY <1>1, <1>2 DEF Successors, EdgesFrom
  <1>5. n \notin later
    BY <1>2
  <1> HIDE DEF later
  <1>6. later \in SUBSET IdSet(graph)
    BY DEF later
  <1> QED
    BY <1>3, <1>4, <1>5, <1>6 DEF Reaches

LEMMA VerdictFollows == KahnInv => VerdictExact
  <1> SUFFICES ASSUME KahnInv PROVE VerdictExact
    OBVIOUS
  <1>1. ASSUME pc = "accepted"
        PROVE  WellFormed(graph) /\ OnCycle(graph) = {} /\ AcceptedOrder
    <2>1. KahnTypes /\ WellFormed(graph) /\ Forwards /\ Popped = IdSet(graph)
      BY <1>1 DEF KahnInv, KahnHolds
    <2>2. OnCycle(graph) = {}
      BY <2>1, ForwardsIsAcyclic
    <2>3. AcceptedOrder
      BY <2>1, EndpointsKnown DEF AcceptedOrder, Forwards, Popped
    <2> QED
      BY <2>1, <2>2, <2>3
  <1>2. ASSUME pc = "cycle"
        PROVE  WellFormed(graph) /\ OnCycle(graph) # {}
    <2>1. /\ graph \in Graphs /\ WellFormed(graph) /\ Forwards /\ Popped # IdSet(graph)
          /\ Free(Popped) = {} /\ Popped \subseteq IdSet(graph)
      BY <1>2 DEF KahnInv, KahnHolds, KahnTypes, Popped
    <2> DEFINE stuck == IdSet(graph) \ Popped
    <2>2. \A n \in stuck : \E i \in EdgesInto(graph, n) : graph.edges[i].source \in stuck
      BY <2>1, EndpointsKnown DEF Free, EdgeWaits, EdgesInto
    <2>3. stuck # {} /\ stuck \in SUBSET IdSet(graph)
      BY <2>1
    <2> HIDE DEF stuck
    <2> QED
      BY <2>1, <2>2, <2>3, CycleBehind
  <1>3. RejectSound
    BY <1>2 DEF RejectSound, KahnInv
  <1>4. AcceptSound /\ AcceptedOrder
    BY <1>1 DEF AcceptSound, AcceptedOrder
  <1> QED
    BY <1>3, <1>4 DEF VerdictExact
-----------------------------------------------------------------------------
(* The executor: what is placed has all its predecessors placed before it, *)
(* and the next level is all that is free.                                 *)
Placed == UNION {levels[k] : k \in DOMAIN levels}

LevelTypes ==
  /\ left \in [IdSet(graph) -> Nat]
  /\ next \in SUBSET IdSet(graph)
  /\ levels \in Seq(SUBSET IdSet(graph))

LevelsApart == \A j, k \in DOMAIN levels : levels[j] \cap levels[k] # {} => j = k

NextTight ==
  levels # <<>> =>
    \A n \in next : \E i \in EdgesInto(graph, n) : graph.edges[i].source \in levels[Len(levels)]

LevelHolds ==
  /\ pc = "accepted"
  /\ Counts(left, Placed)
  /\ next = Free(Placed)
  /\ PrefixClosed /\ LevelsApart /\ LevelsTight /\ NextTight

LevelInv ==
  /\ KahnInv
  /\ LevelTypes
  /\ (levels = <<>> /\ next = {}) \/ LevelHolds

LEMMA LevelsBegin == LInit => LevelInv
  <1> SUFFICES ASSUME LInit PROVE LevelInv
    OBVIOUS
  <1>1. KahnInv
    BY KahnBegins DEF LInit
  <1>2. LevelTypes /\ levels = <<>> /\ next = {}
    BY DEF LInit, LevelTypes
  <1> QED
    BY <1>1, <1>2 DEF LevelInv

LEMMA ValidatorLeavesLevels ==
  ASSUME LevelInv, Next, UNCHANGED levelVars
  PROVE  LevelInv'
  <1>1. left' = left /\ next' = next /\ levels' = levels
    BY DEF levelVars
  <1>2. pc # "accepted" /\ graph' = graph
    BY DEF Next, RejectEmpty, RejectDuplicate, RejectUnknownEndpoint, Reject, BuildIndegrees, Visit, Decide
  <1>3. KahnInv'
    BY KahnKeeps DEF LevelInv
  <1>4. LevelTypes'
    BY <1>1, <1>2 DEF LevelInv, LevelTypes
  <1>5. levels = <<>> /\ next = {}
    BY <1>2 DEF LevelInv, LevelHolds
  <1> QED
    BY <1>1, <1>3, <1>4, <1>5 DEF LevelInv

LEMMA StillKahn == KahnInv /\ UNCHANGED vars => KahnInv'
  BY KahnKeeps

LEMMA StartKeeps ==
  ASSUME LevelInv, StartRun
  PROVE  LevelInv'
  <1>1. /\ graph' = graph /\ pc' = pc /\ levels' = levels /\ pc = "accepted" /\ levels = <<>>
        /\ left' = [n \in IdSet(graph) |-> Cardinality(EdgesInto(graph, n))]
        /\ next' = {n \in IdSet(graph) : EdgesInto(graph, n) = {}}
        /\ UNCHANGED vars
    BY DEF StartRun, vars
  <1>2. KahnInv' /\ graph \in Graphs
    BY <1>1, StillKahn DEF LevelInv, KahnInv, KahnTypes
  <1>3. Counts(left', {}) /\ next' = Free({})
    BY <1>1, <1>2, CountsBegin
  <1>4. Placed' = {}
    BY <1>1 DEF Placed
  <1>5. Counts(left, Placed)' /\ next' = Free(Placed)'
    BY <1>1, <1>3, <1>4 DEF Counts, Free, EdgeWaits
  <1>6. LevelTypes'
    BY <1>1, <1>3 DEF Counts, LevelTypes, Free
  <1>7. LevelsApart' /\ LevelsTight' /\ NextTight'
    BY <1>1 DEF LevelsApart, LevelsTight, NextTight
  <1>8. PrefixClosed'
    <2>1. Append(levels', next') = <<next'>>
      BY <1>1
    <2>2. \A i \in DOMAIN graph.edges : graph.edges[i].target \notin next'
      BY <1>1 DEF EdgesInto
    <2> QED
      BY <1>1, <2>1, <2>2 DEF PrefixClosed
  <1> QED
    BY <1>1, <1>2, <1>5, <1>6, <1>7, <1>8 DEF LevelInv, LevelHolds

(* What appending does to a sequence of levels. *)
LEMMA OneMore ==
  ASSUME NEW T, NEW q \in Seq(T), NEW v \in T
  PROVE  /\ Append(q, v) \in Seq(T) /\ Append(q, v) # <<>>
         /\ Len(q) \in Nat /\ Len(Append(q, v)) = Len(q) + 1
         /\ DOMAIN q = 1..Len(q) /\ DOMAIN Append(q, v) = 1..(Len(q) + 1)
         /\ Append(q, v)[Len(q) + 1] = v
         /\ \A k \in 1..Len(q) : Append(q, v)[k] = q[k]
  OBVIOUS

LEMMA TakeKeeps ==
  ASSUME LevelInv, TakeLevel
  PROVE  LevelInv'
  <1>1. /\ graph' = graph /\ pc' = pc /\ next # {} /\ levels' = Append(levels, next)
        /\ left' = Consume(graph, left, next) /\ next' = NewlyReady(left, left')
        /\ UNCHANGED vars
    BY DEF TakeLevel, vars
  <1>2. LevelHolds /\ LevelTypes
    BY <1>1 DEF LevelInv
  <1>3. KahnInv' /\ graph \in Graphs
    BY <1>1, StillKahn DEF LevelInv, KahnInv, KahnTypes
  <1> DEFINE G == IdSet(graph)
             N == Len(levels)
  <1>4. /\ levels' \in Seq(SUBSET G) /\ levels' # <<>>
        /\ N \in Nat /\ Len(levels') = N + 1
        /\ DOMAIN levels = 1..N /\ DOMAIN levels' = 1..(N + 1)
        /\ levels'[N + 1] = next /\ \A k \in 1..N : levels'[k] = levels[k]
    BY <1>1, <1>2, OneMore DEF LevelTypes
  <1>5. Placed' = Placed \cup next /\ Placed \in SUBSET G /\ next \in SUBSET G
    <2>1. Placed = UNION {levels[k] : k \in 1..N} /\ Placed' = UNION {levels'[k] : k \in 1..(N + 1)}
      BY <1>4 DEF Placed
    <2>2. 1..(N + 1) = 1..N \cup {N + 1}
      BY <1>4
    <2>3. \A k \in 1..N : levels[k] \in SUBSET G
      BY <1>2, <1>4 DEF LevelTypes
    <2>4. next \in SUBSET G
      BY <1>2 DEF LevelTypes
    <2> HIDE DEF G, N
    <2> QED
      BY <1>4, <2>1, <2>2, <2>3, <2>4
  <1>6. next \cap Placed = {} /\ next = Free(Placed) /\ Counts(left, Placed)
    BY <1>2 DEF LevelHolds, Free
  <1>7. /\ Counts(left', Placed \cup next)
        /\ next' = {n \in G : EdgeWaits(Placed, n) # {} /\ EdgeWaits(Placed \cup next, n) = {}}
    <2>1. /\ Counts(Consume(graph, left, next), Placed \cup next)
          /\ NewlyReady(left, Consume(graph, left, next)) =
               {n \in G : EdgeWaits(Placed, n) # {} /\ EdgeWaits(Placed \cup next, n) = {}}
      BY <1>3, <1>5, <1>6, CountDown
    <2> QED
      BY <1>1, <2>1
  <1>8. ASSUME NEW n \in Placed PROVE EdgeWaits(Placed, n) = {}
    <2>1. PICK k \in 1..N : n \in levels[k]
      BY <1>4 DEF Placed
    <2>2. ASSUME NEW i \in EdgesInto(graph, n) PROVE graph.edges[i].source \in Placed
      <3>1. i \in DOMAIN graph.edges /\ graph.edges[i].target = n
        BY DEF EdgesInto
      <3>2. k \in DOMAIN Append(levels, next) /\ graph.edges[i].target \in Append(levels, next)[k]
        BY <1>1, <1>4, <2>1, <3>1
      <3>3. \E j \in 1..(k - 1) : graph.edges[i].source \in levels[j]
        BY <1>2, <3>1, <3>2 DEF LevelHolds, PrefixClosed
      <3> QED
        BY <1>4, <3>3 DEF Placed
    <2> QED
      BY <2>2 DEF EdgeWaits
  <1>9. next' = Free(Placed \cup next)
    <2>1. \A n : EdgeWaits(Placed, n) = {} => EdgeWaits(Placed \cup next, n) = {}
      BY DEF EdgeWaits
    <2> QED
      BY <1>6, <1>7, <1>8, <2>1 DEF Free
  <1>10. Counts(left, Placed)' /\ next' = Free(Placed)'
    <2>1. \A n : EdgeWaits(Placed, n)' = EdgeWaits(Placed \cup next, n)
      BY <1>1, <1>5 DEF EdgeWaits
    <2> QED
      BY <1>1, <1>5, <1>7, <1>9, <2>1 DEF Counts, Free
  <1>11. LevelTypes'
    BY <1>1, <1>4, <1>7, <1>9 DEF LevelTypes, Counts, Free
  <1>12. LevelsApart'
    <2>1. \A k \in 1..N : levels[k] \subseteq Placed
      BY <1>4 DEF Placed
    <2>2. \A k \in 1..N : levels[k] \cap next = {}
      BY <1>6, <2>1
    <2> SUFFICES ASSUME NEW j \in 1..(N + 1), NEW k \in 1..(N + 1), levels'[j] \cap levels'[k] # {}
                 PROVE  j = k
      BY <1>4 DEF LevelsApart
    <2>3. \A m \in 1..(N + 1) : m \in 1..N \/ m = N + 1
      BY <1>4
    <2> HIDE DEF N
    <2> QED
      BY <1>2, <1>4, <2>2, <2>3 DEF LevelHolds, LevelsApart
  <1>13. NextTight'
    <2>1. ASSUME NEW n \in next'
          PROVE  \E i \in EdgesInto(graph, n) : graph.edges[i].source \in next
      BY <1>7 DEF EdgeWaits
    <2> QED
      BY <1>1, <1>4, <2>1 DEF NextTight
  <1>14. LevelsTight'
    <2> SUFFICES ASSUME NEW k \in 2..(N + 1), NEW n \in levels'[k]
                 PROVE  \E i \in EdgesInto(graph, n) : graph.edges[i].source \in levels'[k - 1]
      BY <1>1, <1>4 DEF LevelsTight
    <2>1. CASE k \in 2..N
      BY <1>2, <1>4, <2>1 DEF LevelHolds, LevelsTight
    <2>2. CASE k = N + 1
      <3>1. N \in 1..N /\ levels # <<>> /\ n \in next
        BY <1>2, <1>4, <2>2 DEF LevelTypes
      <3> QED
        BY <1>2, <1>4, <2>2, <3>1 DEF LevelHolds, NextTight
    <2> QED
      BY <1>4, <2>1, <2>2
  <1>15. PrefixClosed'
    <2>1. /\ DOMAIN Append(levels', next') = 1..(N + 2)
          /\ Append(levels', next')[N + 2] = next'
          /\ \A k \in 1..(N + 1) : Append(levels', next')[k] = levels'[k]
      <3>1. next' \in SUBSET G
        BY <1>7
      <3>2. (N + 1) + 1 = N + 2
        BY <1>4
      <3> QED
        BY <1>4, <3>1, <3>2, OneMore
    <2> SUFFICES ASSUME NEW k \in 1..(N + 2), NEW i \in DOMAIN graph.edges,
                        graph.edges[i].target \in Append(levels', next')[k]
                 PROVE  \E j \in 1..(k - 1) : graph.edges[i].source \in levels'[j]
      BY <1>1, <2>1 DEF PrefixClosed
    <2>2. CASE k \in 1..(N + 1)
      <3>1. k \in DOMAIN Append(levels, next) /\ graph.edges[i].target \in Append(levels, next)[k]
        BY <1>1, <1>4, <2>1, <2>2
      <3>2. PICK j \in 1..(k - 1) : graph.edges[i].source \in levels[j]
        BY <1>2, <3>1 DEF LevelHolds, PrefixClosed
      <3>3. j \in 1..N
        BY <1>4, <2>2
      <3> QED
        BY <1>4, <3>2, <3>3
    <2>3. CASE k = N + 2
      <3>1. graph.edges[i].source \in Placed \cup next
        BY <1>9, <2>1, <2>3 DEF Free, EdgeWaits, EdgesInto
      <3>2. PICK j \in 1..(N + 1) : graph.edges[i].source \in levels'[j]
        BY <1>4, <1>5, <3>1 DEF Placed
      <3>3. j \in 1..(k - 1)
        BY <1>4, <2>3
      <3> QED
        BY <3>2, <3>3
    <2> QED
      BY <1>4, <2>2, <2>3
  <1>16. pc' = "accepted"
    BY <1>1, <1>2 DEF LevelHolds
  <1> QED
    BY <1>3, <1>10, <1>11, <1>12, <1>13, <1>14, <1>15, <1>16 DEF LevelInv, LevelHolds

LEMMA LevelsKeep == LevelInv /\ [LNext]_allVars => LevelInv'
  <1> SUFFICES ASSUME LevelInv, [LNext]_allVars PROVE LevelInv'
    OBVIOUS
  <1>1. CASE UNCHANGED allVars
    <2>1. UNCHANGED vars /\ left' = left /\ next' = next /\ levels' = levels /\ graph' = graph /\ pc' = pc
      BY <1>1 DEF allVars, vars, levelVars
    <2>2. KahnInv'
      BY <2>1, StillKahn DEF LevelInv
    <2>3. LevelTypes' /\ Placed' = Placed
      BY <2>1 DEF LevelInv, LevelTypes, Placed
    <2>4. (Counts(left, Placed)' <=> Counts(left, Placed)) /\ Free(Placed)' = Free(Placed)
      BY <2>1, <2>3 DEF Counts, Free, EdgeWaits
    <2>5. /\ PrefixClosed' <=> PrefixClosed
          /\ LevelsApart' <=> LevelsApart
          /\ LevelsTight' <=> LevelsTight
          /\ NextTight' <=> NextTight
      BY <2>1 DEF PrefixClosed, LevelsApart, LevelsTight, NextTight
    <2>6. LevelHolds => LevelHolds'
      BY <2>1, <2>4, <2>5 DEF LevelHolds
    <2> QED
      BY <2>1, <2>2, <2>3, <2>6 DEF LevelInv
  <1> QED
    BY <1>1, ValidatorLeavesLevels, StartKeeps, TakeKeeps DEF LNext

(* Where nothing is free, nothing is left: of what is left, the node that  *)
(* the validator popped first would be free.                               *)
LEMMA SomethingIsFree ==
  ASSUME KahnInv, pc = "accepted", NEW D, Free(D) = {}
  PROVE  IdSet(graph) \subseteq D
  <1> SUFFICES ASSUME ~(IdSet(graph) \subseteq D) PROVE FALSE
    OBVIOUS
  <1>1. KahnTypes /\ WellFormed(graph) /\ Forwards /\ Popped = IdSet(graph)
    BY DEF KahnInv, KahnHolds
  <1> DEFINE ranks == {rank[n] : n \in IdSet(graph) \ D}
  <1>2. ranks \in SUBSET Nat /\ ranks # {}
    BY <1>1 DEF KahnTypes
  <1>3. \E x \in ranks : \A y \in ranks : x <= y
    <2> HIDE DEF ranks
    <2> QED
      BY <1>2, LeastNumber
  <1>4. PICK n \in IdSet(graph) \ D : \A m \in IdSet(graph) \ D : rank[n] <= rank[m]
    BY <1>3
  <1>5. PICK i \in EdgesInto(graph, n) : graph.edges[i].source \notin D
    BY <1>1, <1>4 DEF Free, EdgeWaits
  <1>6. /\ graph.edges[i].source \in IdSet(graph) \ D /\ graph.edges[i].target = n
        /\ rank[graph.edges[i].source] < rank[n] /\ rank[n] \in Nat /\ rank[graph.edges[i].source] \in Nat
    BY <1>1, <1>5, EndpointsKnown DEF EdgesInto, Forwards, Popped, KahnTypes
  <1> QED
    BY <1>4, <1>6

LEMMA AllPlaced ==
  ASSUME KahnInv, LevelHolds, next = {}
  PROVE  IdSet(graph) \subseteq Placed
  BY SomethingIsFree DEF LevelHolds

LEMMA LevelsFollow == LevelInv => LevelsCorrect
  <1> SUFFICES ASSUME LevelInv PROVE LevelsCorrect
    OBVIOUS
  <1>1. CASE levels = <<>> /\ next = {}
    BY <1>1 DEF LevelsCorrect, PrefixClosed, LevelsComplete, LevelsTight
  <1>2. CASE LevelHolds
    <2>1. ASSUME levels # <<>>, next = {} PROVE IsLevelling(IdSet(graph), Pairs(graph), levels)
      <3>1. IdSet(graph) \subseteq Placed
        BY <1>2, <2>1, AllPlaced DEF LevelInv
      <3>2. \A n \in IdSet(graph) : \E k \in DOMAIN levels : n \in levels[k]
        BY <3>1 DEF Placed
      <3>3. \A k \in DOMAIN levels : levels[k] \subseteq IdSet(graph)
        BY DEF LevelInv, LevelTypes
      <3>4. LevelsApart /\ PrefixClosed
        BY <1>2 DEF LevelHolds
      <3>5. ASSUME NEW i \in DOMAIN graph.edges, NEW j \in DOMAIN levels, NEW k \in DOMAIN levels,
                   graph.edges[i].source \in levels[j], graph.edges[i].target \in levels[k]
            PROVE  j < k
        <4>1. /\ k \in DOMAIN Append(levels, next) /\ Append(levels, next)[k] = levels[k]
              /\ DOMAIN levels = 1..Len(levels) /\ Len(levels) \in Nat
          BY OneMore DEF LevelInv, LevelTypes
        <4>2. PICK m \in 1..(k - 1) : graph.edges[i].source \in levels[m]
          BY <3>4, <3>5, <4>1 DEF PrefixClosed
        <4>3. m \in DOMAIN levels
          BY <4>1, <4>2
        <4>4. m = j
          BY <3>4, <3>5, <4>2, <4>3 DEF LevelsApart
        <4> QED
          BY <4>1, <4>2, <4>4
      <3>6. \A e \in Pairs(graph) : \E i \in DOMAIN graph.edges :
              e[1] = graph.edges[i].source /\ e[2] = graph.edges[i].target
        BY DEF Pairs
      <3>7. \A e \in Pairs(graph) : \A j, k \in DOMAIN levels : e[1] \in levels[j] /\ e[2] \in levels[k] => j < k
        BY <3>5, <3>6
      <3> QED
        BY <3>2, <3>3, <3>4, <3>7 DEF IsLevelling, LevelsApart
    <2>2. LevelsComplete
      BY <2>1 DEF LevelsComplete
    <2> QED
      BY <1>2, <2>2 DEF LevelsCorrect, LevelHolds
  <1> QED
    BY <1>1, <1>2 DEF LevelInv

LEMMA RangesFollow == LevelInv => LevelsTypeOK
  <1> SUFFICES ASSUME LevelInv PROVE LevelsTypeOK
    OBVIOUS
  <1>1. KahnTypes /\ KahnInv /\ LevelTypes
    BY DEF LevelInv, KahnInv
  <1>2. visited \in 0..Len(graph.nodes)
    <2>1. graph.nodes \in Seq(NodeId) /\ IsFiniteSet(IdSet(graph))
      BY <1>1, GraphTypes DEF KahnTypes
    <2>2. Len(graph.nodes) \in Nat
      BY <2>1
    <2>3. ASSUME KahnHolds PROVE visited <= Len(graph.nodes)
      <3>1. Popped \in SUBSET IdSet(graph)
        BY DEF Popped
      <3>2. Cardinality(Popped) <= Cardinality(IdSet(graph))
        BY <2>1, <3>1, FS_Subset
      <3> QED
        BY <2>3, <3>2 DEF KahnHolds, WellFormed, DuplicateIds
    <2>4. visited = 0 \/ KahnHolds
      BY <1>1 DEF KahnInv
    <2>5. visited \in Nat
      BY <1>1 DEF KahnTypes
    <2> QED
      BY <2>2, <2>3, <2>4, <2>5
  <1>3. rank \in [IdSet(graph) -> 0..visited]
    BY <1>1 DEF KahnTypes
  <1>4. TypeOK
    BY <1>1, <1>2, <1>3 DEF TypeOK, KahnTypes
  <1> QED
    BY <1>1, <1>4 DEF LevelsTypeOK, LevelTypes

(* Every variable of the validator and of the executor's loop stays in its *)
(* range: no edge is consumed twice (dag_validator.py:46, executor.py:40). *)
THEOREM GraphTypesHold == LSpec => []LevelsTypeOK
  BY LevelsBegin, LevelsKeep, RangesFollow, PTL DEF LSpec

(* validate_dag accepts exactly the graphs with distinct ids, known        *)
(* endpoints and no cycle, whatever node is popped first, and accepts them *)
(* in an order in which they can run.                                      *)
THEOREM VerdictsAreExact == Spec => []VerdictExact
  <1>1. QED
    BY KahnBegins, KahnKeeps, VerdictFollows, PTL DEF Spec

(* run_workflow's levels hold every node of an accepted graph once, run no *)
(* edge backwards and let nothing wait without need.                       *)
THEOREM LevelsAreCorrect == LSpec => []LevelsCorrect
  BY LevelsBegin, LevelsKeep, LevelsFollow, PTL DEF LSpec

-----------------------------------------------------------------------------
(* Both loops end.  The steps left are bounded by the number of nodes: one *)
(* for the checks, one per node popped, one for the verdict, one to start  *)
(* the executor, and at most one level per node not placed yet.            *)
GraphBound == 2 * Len(graph.nodes) + 3

StepsLeft ==
  CASE pc = "check" -> GraphBound
    [] pc = "kahn" -> GraphBound - 1 - visited
    [] pc = "accepted" /\ levels = <<>> /\ next = {} -> Len(graph.nodes) + 1
    [] pc = "accepted" /\ ~(levels = <<>> /\ next = {}) -> Cardinality(IdSet(graph) \ Placed)
    [] pc \notin {"check", "kahn", "accepted"} -> 0

BothDone == pc \in Verdicts /\ (pc = "accepted" => levels # <<>> /\ next = {})

(* The measure in each phase.                                              *)
Measured ==
  LET N == Len(graph.nodes)
  IN  /\ N \in Nat /\ visited \in 0..N
      /\ pc = "check" => StepsLeft = 2 * N + 3
      /\ pc = "kahn" => StepsLeft = 2 * N + 2 - visited
      /\ pc = "accepted" /\ levels = <<>> /\ next = {} => StepsLeft = N + 1
      /\ pc = "accepted" /\ ~(levels = <<>> /\ next = {}) =>
           /\ StepsLeft = Cardinality(IdSet(graph) \ Placed)
           /\ StepsLeft \in 0..N
           /\ StepsLeft = 0 <=> levels # <<>> /\ next = {}
      /\ pc \notin {"check", "kahn", "accepted"} => StepsLeft = 0

(* While levels are taken, a node is not placed until the last one is.     *)
LEMMA UnplacedBounds ==
  ASSUME LevelInv, pc = "accepted", ~(levels = <<>> /\ next = {})
  PROVE  /\ Cardinality(IdSet(graph) \ Placed) \in 0..Len(graph.nodes)
         /\ Cardinality(IdSet(graph) \ Placed) = 0 <=> levels # <<>> /\ next = {}
  <1>1. /\ KahnInv /\ LevelHolds /\ graph \in Graphs /\ WellFormed(graph) /\ next = Free(Placed)
    BY DEF LevelInv, LevelHolds, KahnInv, KahnTypes, KahnHolds
  <1>2. Len(graph.nodes) = Cardinality(IdSet(graph))
    BY <1>1 DEF WellFormed, DuplicateIds
  <1>3. IsFiniteSet(IdSet(graph)) /\ IsFiniteSet(IdSet(graph) \ Placed)
    BY <1>1, GraphTypes, FS_Subset
  <1>4. Cardinality(IdSet(graph) \ Placed) <= Len(graph.nodes)
    BY <1>2, <1>3, FS_Subset
  <1>5. Cardinality(IdSet(graph) \ Placed) \in Nat /\ Len(graph.nodes) \in Nat
    BY <1>2, <1>3, FS_CardinalityType
  <1>6. Cardinality(IdSet(graph) \ Placed) = 0 <=> IdSet(graph) \ Placed = {}
    BY <1>3, FS_EmptySet
  <1>7. next = {} => IdSet(graph) \ Placed = {}
    BY <1>1, AllPlaced
  <1>8. IdSet(graph) \ Placed = {} => next = {}
    BY <1>1 DEF Free
  <1> QED
    BY <1>4, <1>5, <1>6, <1>7, <1>8

LEMMA MeasureFits == LevelInv => Measured
  <1> SUFFICES ASSUME LevelInv PROVE Measured
    OBVIOUS
  <1> DEFINE N == Len(graph.nodes)
  <1>1. visited \in 0..N /\ graph.nodes \in Seq(NodeId)
    BY RangesFollow, GraphTypes DEF LevelsTypeOK, TypeOK
  <1>2. N \in Nat
    BY <1>1
  <1>3. 2 * N + 3 - 1 - visited = 2 * N + 2 - visited
    BY <1>1, <1>2
  <1>4. /\ pc = "check" => StepsLeft = 2 * N + 3
        /\ pc = "kahn" => StepsLeft = 2 * N + 3 - 1 - visited
        /\ pc = "accepted" /\ levels = <<>> /\ next = {} => StepsLeft = N + 1
        /\ pc = "accepted" /\ ~(levels = <<>> /\ next = {}) =>
             StepsLeft = Cardinality(IdSet(graph) \ Placed)
        /\ pc \notin {"check", "kahn", "accepted"} => StepsLeft = 0
    <2> HIDE DEF N
    <2> DEFINE taken == levels = <<>> /\ next = {}
               unplaced == Cardinality(IdSet(graph) \ Placed)
    <2>1. GraphBound = 2 * N + 3
      BY DEF GraphBound, N
    <2>2. StepsLeft = CASE pc = "check" -> GraphBound
                        [] pc = "kahn" -> GraphBound - 1 - visited
                        [] pc = "accepted" /\ taken -> N + 1
                        [] pc = "accepted" /\ ~taken -> unplaced
                        [] pc \notin {"check", "kahn", "accepted"} -> 0
      BY DEF StepsLeft, N
    <2> HIDE DEF taken, unplaced
    <2>3. pc = "check" => StepsLeft = GraphBound
      BY <2>2
    <2>4. pc = "kahn" => StepsLeft = GraphBound - 1 - visited
      BY <2>2
    <2>5. pc = "accepted" /\ taken => StepsLeft = N + 1
      BY <2>2
    <2>6. pc = "accepted" /\ ~taken => StepsLeft = unplaced
      BY <2>2
    <2>7. pc \notin {"check", "kahn", "accepted"} => StepsLeft = 0
      BY <2>2
    <2> QED
      BY <1>1, <1>2, <2>1, <2>3, <2>4, <2>5, <2>6, <2>7 DEF taken, unplaced
  <1>5. ASSUME pc = "accepted", ~(levels = <<>> /\ next = {})
        PROVE  StepsLeft \in 0..N /\ (StepsLeft = 0 <=> levels # <<>> /\ next = {})
    BY <1>4, <1>5, UnplacedBounds
  <1> QED
    BY <1>1, <1>2, <1>3, <1>4, <1>5 DEF Measured

LEMMA MeasureBounds == LevelInv => StepsLeft \in 0..GraphBound /\ (StepsLeft = 0 <=> BothDone)
  <1> SUFFICES ASSUME LevelInv PROVE StepsLeft \in 0..GraphBound /\ (StepsLeft = 0 <=> BothDone)
    OBVIOUS
  <1> DEFINE N == Len(graph.nodes)
  <1>1. pc \in {"check", "kahn"} \cup Verdicts /\ GraphBound = 2 * N + 3
    BY DEF LevelInv, KahnInv, KahnTypes, GraphBound
  <1>2. /\ N \in Nat /\ visited \in 0..N
        /\ pc = "check" => StepsLeft = 2 * N + 3
        /\ pc = "kahn" => StepsLeft = 2 * N + 2 - visited
        /\ pc = "accepted" /\ levels = <<>> /\ next = {} => StepsLeft = N + 1
        /\ pc = "accepted" /\ ~(levels = <<>> /\ next = {}) =>
             /\ StepsLeft \in 0..N
             /\ StepsLeft = 0 <=> levels # <<>> /\ next = {}
        /\ pc \notin {"check", "kahn", "accepted"} => StepsLeft = 0
    BY MeasureFits DEF Measured
  <1> HIDE DEF N
  <1>3. CASE pc = "check" \/ pc = "kahn"
    <2>1. StepsLeft \in 1..(2 * N + 3)
      BY <1>2, <1>3
    <2>2. ~BothDone
      BY <1>3 DEF BothDone, Verdicts
    <2> QED
      BY <1>1, <1>2, <2>1, <2>2
  <1>4. CASE pc = "accepted"
    BY <1>1, <1>2, <1>4 DEF BothDone
  <1>5. CASE pc \notin {"check", "kahn", "accepted"}
    BY <1>1, <1>2, <1>5 DEF BothDone
  <1> QED
    BY <1>3, <1>4, <1>5

LEMMA ValidatorAdvances ==
  ASSUME LevelInv, Measured', Next, UNCHANGED levelVars
  PROVE  StepsLeft' < StepsLeft
  <1> DEFINE N == Len(graph.nodes)
  <1>1. graph' = graph /\ levels' = levels /\ next' = next /\ pc # "accepted"
    BY DEF levelVars, Next, RejectEmpty, RejectDuplicate, RejectUnknownEndpoint, Reject,
           BuildIndegrees, Visit, Decide
  <1>2. levels' = <<>> /\ next' = {}
    BY <1>1 DEF LevelInv, LevelHolds
  <1>3. /\ N \in Nat /\ visited \in 0..N
        /\ pc = "check" => StepsLeft = 2 * N + 3
        /\ pc = "kahn" => StepsLeft = 2 * N + 2 - visited
    BY MeasureFits DEF Measured
  <1>4. /\ visited' \in 0..N
        /\ pc' = "kahn" => StepsLeft' = 2 * N + 2 - visited'
        /\ pc' = "accepted" => StepsLeft' = N + 1
        /\ pc' \notin {"check", "kahn", "accepted"} => StepsLeft' = 0
    BY <1>1, <1>2 DEF Measured
  <1> HIDE DEF N
  <1>5. CASE RejectEmpty \/ RejectDuplicate \/ RejectUnknownEndpoint
    <2>1. pc = "check" /\ pc' \notin {"check", "kahn", "accepted"}
      BY <1>5 DEF RejectEmpty, RejectDuplicate, RejectUnknownEndpoint, Reject
    <2> QED
      BY <1>3, <1>4, <2>1
  <1>6. CASE BuildIndegrees
    <2>1. pc = "check" /\ pc' = "kahn"
      BY <1>6 DEF BuildIndegrees
    <2>2. StepsLeft = 2 * N + 3 /\ StepsLeft' = 2 * N + 2 - visited'
      BY <1>3, <1>4, <2>1
    <2>3. visited' \in Nat /\ 2 * N \in Nat
      BY <1>3, <1>4
    <2> QED
      BY <2>2, <2>3
  <1>7. CASE \E cur \in IdSet(graph) : Visit(cur)
    <2>1. pc = "kahn" /\ pc' = "kahn" /\ visited' = visited + 1
      BY <1>7 DEF Visit
    <2> QED
      BY <1>3, <1>4, <2>1
  <1>8. CASE Decide
    <2>1. pc = "kahn" /\ (pc' = "accepted" \/ pc' = "cycle")
      BY <1>8 DEF Decide
    <2> QED
      BY <1>3, <1>4, <2>1
  <1> QED
    BY <1>5, <1>6, <1>7, <1>8 DEF Next

LEMMA StartAdvances ==
  ASSUME LevelInv, Measured', StartRun
  PROVE  StepsLeft' < StepsLeft
  <1> DEFINE N == Len(graph.nodes)
  <1>1. /\ graph' = graph /\ pc' = pc /\ pc = "accepted" /\ levels = <<>> /\ next = {}
        /\ next' = {n \in IdSet(graph) : EdgesInto(graph, n) = {}}
    BY DEF StartRun, vars
  <1>2. KahnInv /\ graph \in Graphs /\ WellFormed(graph) /\ graph.nodes \in Seq(NodeId)
    BY <1>1, GraphTypes DEF LevelInv, KahnInv, KahnTypes, KahnHolds
  <1>3. next' = Free({})
    BY <1>1, <1>2, CountsBegin
  <1>4. IdSet(graph) # {}
    <2>1. 1 \in DOMAIN graph.nodes
      BY <1>2 DEF WellFormed
    <2> QED
      BY <2>1 DEF IdSet
  <1>5. next' # {}
    BY <1>1, <1>2, <1>3, <1>4, SomethingIsFree
  <1>6. StepsLeft = N + 1 /\ N \in Nat
    BY <1>1, MeasureFits DEF Measured
  <1>7. StepsLeft' \in 0..N
    BY <1>1, <1>5 DEF Measured
  <1> QED
    BY <1>6, <1>7

LEMMA TakeAdvances ==
  ASSUME LevelInv, Measured', TakeLevel
  PROVE  StepsLeft' < StepsLeft
  <1>1. graph' = graph /\ pc' = pc /\ next # {} /\ levels' = Append(levels, next)
    BY DEF TakeLevel, vars
  <1>2. LevelHolds /\ LevelTypes /\ graph \in Graphs /\ pc = "accepted"
    BY <1>1 DEF LevelInv, LevelHolds, KahnInv, KahnTypes
  <1> DEFINE G == IdSet(graph)
             N == Len(levels)
  <1>3. /\ levels' # <<>> /\ DOMAIN levels = 1..N /\ DOMAIN levels' = 1..(N + 1) /\ N \in Nat
        /\ levels'[N + 1] = next /\ \A k \in 1..N : levels'[k] = levels[k]
    BY <1>1, <1>2, OneMore DEF LevelTypes
  <1>4. next \subseteq Placed' /\ Placed \subseteq Placed'
    BY <1>3 DEF Placed
  <1>5. next \subseteq G \ Placed
    BY <1>2 DEF LevelHolds, Free
  <1>6. IsFiniteSet(G \ Placed) /\ G \ Placed' \subseteq G \ Placed /\ G \ Placed' # G \ Placed
    <2>1. IsFiniteSet(G)
      BY <1>2, GraphTypes
    <2> HIDE DEF G
    <2> QED
      BY <1>1, <1>4, <1>5, <2>1, FS_Subset
  <1>7. /\ Cardinality(G \ Placed') <= Cardinality(G \ Placed)
        /\ Cardinality(G \ Placed') # Cardinality(G \ Placed)
        /\ Cardinality(G \ Placed') \in Nat /\ Cardinality(G \ Placed) \in Nat
    <2> HIDE DEF G
    <2> QED
      BY <1>6, FS_Subset, FS_CardinalityType
  <1>8. StepsLeft = Cardinality(G \ Placed)
    BY <1>1, <1>2, MeasureFits DEF Measured
  <1>9. StepsLeft' = Cardinality(G \ Placed')
    BY <1>1, <1>2, <1>3 DEF Measured
  <1> QED
    BY <1>7, <1>8, <1>9

LEMMA LoopsAdvance ==
  ASSUME LevelInv, Measured', [LNext]_allVars
  PROVE  [StepsLeft' < StepsLeft]_allVars
  BY ValidatorAdvances, StartAdvances, TakeAdvances DEF LNext

(* validate_dag and run_workflow end, on any graph: at most 2N + 3 rounds  *)
(* are left for N nodes, each step leaves fewer, and none is left exactly  *)
(* when the graph is refused or all its levels are found: neither loop     *)
(* goes round in vain (dag_validator.py:39-53, executor.py:30-46).         *)
THEOREM LoopsEnd ==
  LSpec => /\ [](StepsLeft \in 0..GraphBound /\ (StepsLeft = 0 <=> BothDone))
           /\ [][StepsLeft' < StepsLeft]_allVars
  <1>1. LevelInv /\ LevelInv' => Measured'
    BY MeasureFits, PTL
  <1>2. LevelInv /\ LevelInv' /\ [LNext]_allVars => [StepsLeft' < StepsLeft]_allVars
    BY <1>1, LoopsAdvance
  <1> QED
    BY <1>2, LevelsBegin, LevelsKeep, MeasureBounds, PTL DEF LSpec

-----------------------------------------------------------------------------
(* Nodes on values.                                                        *)

(* What a fold over a path of one or two keys is.                          *)
LEMMA FollowOne ==
  ASSUME NEW v, NEW p
  PROVE  Resolve(v, <<p>>) = Follow(v, p)
  <1> DEFINE body(f) == [s \in SUBSET {1} |-> IF s = {} THEN v ELSE LET x == Max(s) IN Follow(f[s \ {x}], <<p>>[x])]
             g == [s \in SUBSET {1} |-> IF s = {} THEN v ELSE Follow(v, p)]
  <1>1. DOMAIN <<p>> = {1}
    OBVIOUS
  <1>2. Resolve(v, <<p>>) = (CHOOSE f : f = body(f))[{1}]
    BY <1>1 DEF Resolve, FoldLeft, MapThenFoldSet
  <1>3. Max({1}) = 1 /\ {1} \ {1} = {} /\ {1} # {}
    BY DEF Max
  <1>4. \A s \in SUBSET {1} : s = {} \/ s = {1}
    OBVIOUS
  <1>5. g = body(g)
    <2>1. g[{}] = v /\ <<p>>[1] = p
      OBVIOUS
    <2>2. \A s \in SUBSET {1} : g[s] = body(g)[s]
      <3> SUFFICES ASSUME NEW s \in SUBSET {1} PROVE g[s] = body(g)[s]
        OBVIOUS
      <3>1. CASE s = {}
        BY <3>1
      <3>2. CASE s = {1}
        <4>1. body(g)[s] = Follow(g[{}], p)
          BY <3>2, <1>3, <2>1
        <4> QED
          BY <3>2, <1>3, <2>1, <4>1
      <3> QED
        BY <3>1, <3>2, <1>4
    <2> QED
      BY <2>2
  <1>6. ASSUME NEW f, f = body(f)
        PROVE  f[{1}] = Follow(v, p)
    <2>1. f[{}] = body(f)[{}] /\ f[{1}] = body(f)[{1}]
      BY <1>6
    <2>2. body(f)[{}] = v /\ body(f)[{1}] = Follow(f[{}], p)
      BY <1>3
    <2> QED
      BY <2>1, <2>2
  <1> HIDE DEF body, g
  <1>7. PICK f : f = body(f) /\ f = (CHOOSE h : h = body(h))
    BY <1>5
  <1> QED
    BY <1>2, <1>6, <1>7

LEMMA FollowTwo ==
  ASSUME NEW v, NEW p, NEW q
  PROVE  Resolve(v, <<p, q>>) = Follow(Follow(v, p), q)
  <1> DEFINE body(f) == [s \in SUBSET {1, 2} |->
                           IF s = {} THEN v ELSE LET x == Max(s) IN Follow(f[s \ {x}], <<p, q>>[x])]
             g == [s \in SUBSET {1, 2} |->
                     IF s = {} THEN v
                     ELSE IF s = {1} THEN Follow(v, p)
                     ELSE IF s = {2} THEN Follow(v, q) ELSE Follow(Follow(v, p), q)]
  <1>1. DOMAIN <<p, q>> = {1, 2} /\ <<p, q>>[1] = p /\ <<p, q>>[2] = q
    OBVIOUS
  <1>2. Resolve(v, <<p, q>>) = (CHOOSE f : f = body(f))[{1, 2}]
    BY <1>1 DEF Resolve, FoldLeft, MapThenFoldSet
  <1>3. /\ Max({1}) = 1 /\ Max({2}) = 2 /\ Max({1, 2}) = 2
        /\ {1} \ {1} = {} /\ {2} \ {2} = {} /\ {1, 2} \ {2} = {1}
        /\ {1} # {} /\ {2} # {} /\ {1, 2} # {} /\ {1} # {2} /\ {1, 2} # {1} /\ {1, 2} # {2}
    <2>1. Max({1}) = 1 /\ Max({2}) = 2
      BY DEF Max
    <2>2. Max({1, 2}) = 2
      <3>1. \A x \in {1, 2} : (\A y \in {1, 2} : x >= y) <=> x = 2
        OBVIOUS
      <3> QED
        BY <3>1 DEF Max
    <2> QED
      BY <2>1, <2>2
  <1>4. \A s \in SUBSET {1, 2} : s = {} \/ s = {1} \/ s = {2} \/ s = {1, 2}
    OBVIOUS
  <1>5. /\ g[{}] = v /\ g[{1}] = Follow(v, p) /\ g[{2}] = Follow(v, q)
        /\ g[{1, 2}] = Follow(Follow(v, p), q)
    BY <1>3
  <1>6. ASSUME NEW f
        PROVE  /\ body(f)[{}] = v
               /\ body(f)[{1}] = Follow(f[{}], p)
               /\ body(f)[{2}] = Follow(f[{}], q)
               /\ body(f)[{1, 2}] = Follow(f[{1}], q)
    <2>1. body(f)[{}] = v
      OBVIOUS
    <2>2. body(f)[{1}] = Follow(f[{}], p)
      BY <1>1, <1>3
    <2>3. body(f)[{2}] = Follow(f[{}], q)
      BY <1>1, <1>3
    <2>4. body(f)[{1, 2}] = Follow(f[{1}], q)
      BY <1>1, <1>3
    <2> QED
      BY <2>1, <2>2, <2>3, <2>4
  <1>7. g = body(g)
    <2>1. g = [s \in SUBSET {1, 2} |-> g[s]] /\ body(g) = [s \in SUBSET {1, 2} |-> body(g)[s]]
      OBVIOUS
    <2> HIDE DEF body, g
    <2>2. /\ g[{}] = body(g)[{}] /\ g[{1}] = body(g)[{1}]
          /\ g[{2}] = body(g)[{2}] /\ g[{1, 2}] = body(g)[{1, 2}]
      BY <1>5, <1>6
    <2>3. ASSUME NEW s \in SUBSET {1, 2} PROVE g[s] = body(g)[s]
      <3>1. CASE s = {}
        BY <3>1, <2>2
      <3>2. CASE s = {1}
        BY <3>2, <2>2
      <3>3. CASE s = {2}
        BY <3>3, <2>2
      <3>4. CASE s = {1, 2}
        BY <3>4, <2>2
      <3> QED
        BY <3>1, <3>2, <3>3, <3>4, <1>4
    <2> QED
      BY <2>1, <2>3
  <1> HIDE DEF body, g
  <1>8. PICK f : f = body(f) /\ f = (CHOOSE h : h = body(h))
    BY <1>7
  <1>9. f[{}] = v /\ f[{1}] = Follow(f[{}], p) /\ f[{1, 2}] = Follow(f[{1}], q)
    BY <1>6, <1>8
  <1> QED
    BY <1>2, <1>8, <1>9

(* The two nodes' verdicts on one value.                                   *)
LEMMA VerdictsAgree ==
  ASSUME NEW v, NEW op, NEW w
  PROVE  LET c == ConditionResult(v, op, w)
             m == Match(v, op, w)
         IN  /\ op \in Orders \union {"contains"} /\ m = Raised => c = Raised
             /\ c = Raised /\ op \notin {"not_in", "truthy"} => m = Raised
             /\ m # Raised /\ op # "truthy" /\ ~(v = None /\ op \in {"ne", "eq", "in"}) =>
                  (c = Bool(TRUE) <=> m = Bool(TRUE))
  <1> DEFINE c == ConditionResult(v, op, w)
             m == Match(v, op, w)
  <1>1. \A b : Bool(b) # Raised
    BY DEF Bool, Raised
  <1>2. Bool(FALSE) # Bool(TRUE)
    BY DEF Bool
  <1>3. CASE op \in {"eq", "ne"}
    <2>1. m = Compare(op, v, w) /\ op \in Orders /\ op # "truthy"
      BY <1>3 DEF Match, Orders
    <2>2. Compare(op, v, w) # Raised
      BY <1>3, <1>1 DEF Compare
    <2>3. c = (IF v = None THEN Bool(FALSE) ELSE Compare(op, v, w))
      BY <2>1 DEF ConditionResult, Orders
    <2> QED
      BY <2>1, <2>2, <2>3, <1>1, <1>3
  <1>4. CASE op \in {"gt", "gte", "lt", "lte"}
    <2>1. m = (IF v = None THEN Bool(FALSE) ELSE Compare(op, v, w)) /\ op \in Orders
      BY <1>4 DEF Match, Orders
    <2>2. c = (IF v = None THEN Bool(FALSE) ELSE Compare(op, v, w))
      BY <2>1 DEF ConditionResult, Orders
    <2> QED
      BY <2>1, <2>2
  <1>5. CASE op = "contains"
    <2>1. m = (IF v = None THEN Bool(FALSE) ELSE Within(w, v)) /\ op \notin Orders
      BY <1>5 DEF Match, Orders
    <2>2. c = (IF v = None THEN Bool(FALSE) ELSE Within(w, v))
      BY <1>5 DEF ConditionResult, Orders
    <2> QED
      BY <2>1, <2>2
  <1>6. CASE op = "in"
    <2>1. m = Within(v, w) /\ op \notin Orders
      BY <1>6 DEF Match, Orders
    <2>2. c = (IF v = None THEN Bool(FALSE) ELSE Within(v, w))
      BY <1>6 DEF ConditionResult, Orders
    <2> QED
      BY <2>1, <2>2, <1>1, <1>6
  <1>7. CASE op \notin Orders \union {"contains", "in"}
    <2>1. op # "truthy" => m = Raised
      BY <1>7 DEF Match, Orders
    <2> QED
      BY <2>1, <1>7
  <1> QED
    BY <1>3, <1>4, <1>5, <1>6, <1>7 DEF Orders

(* Along the numbers up to N: what holds of 0 and of the successor of      *)
(* every number it holds of holds of all.                                  *)
LEMMA UpTo ==
  ASSUME NEW N \in Nat, NEW G \in SUBSET (0..N), 0 \in G,
         \A k \in 0..N : k \in G /\ k < N => k + 1 \in G
  PROVE  \A k \in 0..N : k \in G
  <1> DEFINE rest == (0..N) \ G
  <1> SUFFICES ASSUME rest # {} PROVE FALSE
    OBVIOUS
  <1>1. rest \in SUBSET Nat
    OBVIOUS
  <1>2. PICK x \in rest : \A y \in rest : x <= y
    <2> HIDE DEF rest
    <2> QED
      BY <1>1, LeastNumber
  <1>3. x \in Nat /\ x # 0 /\ x \in 0..N /\ x \notin G
    OBVIOUS
  <1>4. x - 1 \in 0..N /\ x - 1 < N /\ (x - 1) + 1 = x /\ ~(x <= x - 1)
    BY <1>3
  <1>5. x - 1 \in G
    BY <1>2, <1>4
  <1> QED
    BY <1>3, <1>4, <1>5

(* The items a filter has kept after each one: their numbers in order, of  *)
(* those whose verdict is true.                                            *)
Keeps(s, t, k) ==
  /\ s \in Seq(1..k)
  /\ \A i \in DOMAIN s : \A j \in DOMAIN s : i < j => s[i] < s[j]
  /\ \A n \in 1..k : t[n] <=> \E i \in DOMAIN s : s[i] = n

KeepsOn(f, v, yes, N) ==
  [n \in 0..N |-> IF n = 0 THEN <<>> ELSE IF v[n] = yes THEN Append(f[n - 1], n) ELSE f[n - 1]]

LEMMA FilterKeeps ==
  ASSUME NEW N \in Nat, NEW v, NEW yes
  PROVE  /\ \E f : f = KeepsOn(f, v, yes, N)
         /\ \A f : f = KeepsOn(f, v, yes, N) => Keeps(f[N], [n \in 1..N |-> v[n] = yes], N)
  <1> DEFINE added(s, n) == IF v[n] = yes THEN Append(s, n) ELSE s
             body(f, k) == [n \in 0..k |-> IF n = 0 THEN <<>> ELSE IF v[n] = yes THEN Append(f[n - 1], n) ELSE f[n - 1]]
             G == {k \in 0..N : \E f : f = body(f, k)}
             t == [n \in 1..N |-> v[n] = yes]
  <1>1. 0 \in G
    <2> DEFINE e == [n \in 0..0 |-> <<>>]
    <2>1. e = body(e, 0) /\ 0 \in 0..N
      OBVIOUS
    <2> HIDE DEF e, body
    <2> QED
      BY <2>1
  <1>2. ASSUME NEW k \in 0..N, k \in G, k < N
        PROVE  k + 1 \in G
    <2>1. PICK f : f = body(f, k)
      BY <1>2
    <2> DEFINE h == [n \in 0..(k + 1) |-> IF n = k + 1 THEN added(f[k], k + 1) ELSE f[n]]
    <2>2. ASSUME NEW n \in 0..(k + 1) PROVE h[n] = body(h, k + 1)[n]
      <3>1. CASE n = 0
        <4>1. h[n] = f[0] /\ f[0] = body(f, k)[0] /\ body(f, k)[0] = <<>>
          BY <3>1, <2>1
        <4> QED
          BY <3>1, <4>1
      <3>2. CASE n \in 1..k
        <4>1. n - 1 \in 0..k /\ n - 1 # k + 1 /\ n # k + 1 /\ n \in 0..k /\ n # 0
          BY <3>2
        <4>2. h[n] = f[n] /\ h[n - 1] = f[n - 1]
          BY <4>1
        <4>3. f[n] = body(f, k)[n] /\ body(f, k)[n] = added(f[n - 1], n)
          BY <2>1, <4>1
        <4>4. body(h, k + 1)[n] = added(h[n - 1], n)
          BY <4>1
        <4> QED
          BY <4>2, <4>3, <4>4
      <3>3. CASE n = k + 1
        <4>1. n - 1 = k /\ k \in 0..(k + 1) /\ k # k + 1 /\ n # 0
          BY <3>3
        <4>2. h[k] = f[k] /\ h[n] = added(f[k], k + 1)
          BY <4>1, <3>3
        <4>3. body(h, k + 1)[n] = added(h[n - 1], n)
          BY <4>1
        <4> QED
          BY <4>1, <4>2, <4>3, <3>3
      <3> QED
        BY <3>1, <3>2, <3>3
    <2>3. h = body(h, k + 1)
      BY <2>2
    <2>4. k + 1 \in 0..N
      BY <1>2
    <2> HIDE DEF h, body
    <2> QED
      BY <2>3, <2>4
  <1>3. N \in G
    <2>1. G \in SUBSET (0..N) /\ N \in 0..N
      OBVIOUS
    <2> HIDE DEF G
    <2> QED
      BY <1>1, <1>2, <2>1, UpTo
  <1>4. SUFFICES ASSUME NEW f, f = body(f, N)
                 PROVE  Keeps(f[N], t, N)
    BY <1>3 DEF KeepsOn
  <1>5. f[0] = <<>> /\ \A n \in 1..N : f[n] = added(f[n - 1], n)
    <2>1. f[0] = body(f, N)[0] /\ \A n \in 1..N : f[n] = body(f, N)[n]
      BY <1>4
    <2>2. body(f, N)[0] = <<>>
      OBVIOUS
    <2>3. \A n \in 1..N : n # 0 /\ n \in 0..N
      OBVIOUS
    <2>4. ASSUME NEW n \in 1..N PROVE body(f, N)[n] = added(f[n - 1], n)
      BY <2>3
    <2> HIDE DEF body, added
    <2> QED
      BY <2>1, <2>2, <2>4
  <1> HIDE DEF body, G
  <1> DEFINE H == {k \in 0..N : Keeps(f[k], t, k)}
  <1>6. 0 \in H
    <2>1. Keeps(<<>>, t, 0)
      BY DEF Keeps
    <2>2. f[0] = <<>> /\ 0 \in 0..N
      BY <1>5
    <2> HIDE DEF t
    <2> QED
      BY <2>1, <2>2
  <1>7. ASSUME NEW k \in 0..N, k \in H, k < N
        PROVE  k + 1 \in H
    <2>1. Keeps(f[k], t, k) /\ k + 1 \in 1..N /\ k + 1 \in 0..N /\ (k + 1) - 1 = k
      BY <1>7
    <2>2. f[k + 1] = added(f[k], k + 1)
      BY <1>5, <2>1
    <2>3. t[k + 1] <=> v[k + 1] = yes
      BY <2>1
    <2>4. ASSUME NEW i \in DOMAIN f[k] PROVE f[k][i] \in 1..k /\ f[k][i] < k + 1 /\ f[k][i] # k + 1
      BY <2>1, <1>7 DEF Keeps
    <2> HIDE DEF t, H
    <2>5. CASE v[k + 1] = yes
      <3> DEFINE s == f[k]
      <3>1. f[k + 1] = Append(s, k + 1) /\ s \in Seq(1..k)
        BY <2>1, <2>2, <2>5 DEF Keeps
      <3> HIDE DEF s
      <3>2. /\ Append(s, k + 1) \in Seq(1..(k + 1)) /\ Len(s) \in Nat
            /\ DOMAIN s = 1..Len(s) /\ DOMAIN Append(s, k + 1) = 1..(Len(s) + 1)
            /\ \A i \in 1..Len(s) : Append(s, k + 1)[i] = s[i]
            /\ Append(s, k + 1)[Len(s) + 1] = k + 1
        <4>1. s \in Seq(1..(k + 1)) /\ k + 1 \in 1..(k + 1)
          BY <3>1, <1>7
        <4> QED
          BY <4>1
      <3>3. \A i \in 1..(Len(s) + 1) : i \in 1..Len(s) \/ i = Len(s) + 1
        BY <3>2
      <3>4. ASSUME NEW i \in 1..(Len(s) + 1), NEW j \in 1..(Len(s) + 1), i < j
            PROVE  Append(s, k + 1)[i] < Append(s, k + 1)[j]
        <4>1. i \in 1..Len(s) /\ (j \in 1..Len(s) \/ j = Len(s) + 1)
          BY <3>4, <3>2
        <4>2. CASE j \in 1..Len(s)
          <5>1. s[i] < s[j]
            BY <4>1, <4>2, <3>2, <3>4, <2>1 DEF s, Keeps
          <5> QED
            BY <5>1, <4>1, <4>2, <3>2
        <4>3. CASE j = Len(s) + 1
          <5>1. s[i] < k + 1
            BY <4>1, <3>2, <2>4 DEF s
          <5> QED
            BY <5>1, <4>1, <4>3, <3>2
        <4> QED
          BY <4>1, <4>2, <4>3
      <3>5. ASSUME NEW n \in 1..(k + 1)
            PROVE  t[n] <=> \E i \in 1..(Len(s) + 1) : Append(s, k + 1)[i] = n
        <4>1. CASE n = k + 1
          <5>1. Len(s) + 1 \in 1..(Len(s) + 1)
            BY <3>2
          <5> QED
            BY <4>1, <5>1, <3>2, <2>3, <2>5
        <4>2. CASE n \in 1..k
          <5>1. t[n] <=> \E i \in 1..Len(s) : s[i] = n
            BY <4>2, <2>1, <3>2 DEF s, Keeps
          <5>2. n # k + 1
            BY <4>2, <1>7
          <5>3. 1..Len(s) \subseteq 1..(Len(s) + 1)
            BY <3>2
          <5> QED
            BY <5>1, <5>2, <5>3, <3>2, <3>3
        <4> QED
          BY <4>1, <4>2, <1>7
      <3>6. Keeps(f[k + 1], t, k + 1)
        <4> DEFINE a == Append(s, k + 1)
        <4>1. /\ a \in Seq(1..(k + 1)) /\ DOMAIN a = 1..(Len(s) + 1)
              /\ \A i, j \in 1..(Len(s) + 1) : i < j => a[i] < a[j]
              /\ \A n \in 1..(k + 1) : t[n] <=> \E i \in 1..(Len(s) + 1) : a[i] = n
          BY <3>2, <3>4, <3>5
        <4>2. f[k + 1] = a
          BY <3>1
        <4> HIDE DEF a
        <4>3. Keeps(a, t, k + 1)
          BY <4>1 DEF Keeps
        <4> QED
          BY <4>2, <4>3
      <3> QED
        BY <3>6, <2>1 DEF H
    <2>6. CASE v[k + 1] # yes
      <3>1. f[k + 1] = f[k]
        BY <2>2, <2>6
      <3>2. f[k] \in Seq(1..(k + 1))
        BY <2>1, <1>7 DEF Keeps
      <3>3. ASSUME NEW n \in 1..(k + 1)
            PROVE  t[n] <=> \E i \in DOMAIN f[k] : f[k][i] = n
        <4>1. CASE n = k + 1
          BY <4>1, <2>3, <2>4, <2>6
        <4>2. CASE n \in 1..k
          BY <4>2, <2>1 DEF Keeps
        <4> QED
          BY <4>1, <4>2, <1>7
      <3>4. Keeps(f[k + 1], t, k + 1)
        BY <3>1, <3>2, <3>3, <2>1 DEF Keeps
      <3> QED
        BY <3>4, <2>1 DEF H
    <2> QED
      BY <2>5, <2>6
  <1>8. N \in H
    <2>1. H \in SUBSET (0..N) /\ N \in 0..N
      OBVIOUS
    <2> HIDE DEF H
    <2> QED
      BY <1>6, <1>7, <2>1, UpTo
  <1> QED
    BY <1>8

LEMMA FilterExact ==
  ASSUME NEW items, NEW path, NEW op, NEW w, Len(items) \in Nat, DOMAIN items = 1..Len(items)
  PROVE  LET r == FilterResult(items, path, op, w)
             m == [i \in DOMAIN items |-> Match(Field(items[i], path), op, w)]
         IN  /\ r = Raised <=> \E i \in DOMAIN items : m[i] = Raised
             /\ r # Raised => Keeps(r[2], [n \in 1..Len(items) |-> m[n] = Bool(TRUE)], Len(items))
  <1> DEFINE m == [i \in DOMAIN items |-> Match(Field(items[i], path), op, w)]
             body(f) == [n \in 0..Len(items) |->
                           IF n = 0 THEN <<>>
                           ELSE IF m[n] = Bool(TRUE) THEN Append(f[n - 1], n) ELSE f[n - 1]]
             kept == CHOOSE f : f = body(f)
             r == FilterResult(items, path, op, w)
  <1>1. r = (IF \E i \in DOMAIN items : m[i] = Raised THEN Raised ELSE <<"items", kept[Len(items)]>>)
    BY DEF FilterResult
  <1> HIDE DEF m, r
  <1>2. Keeps(kept[Len(items)], [n \in 1..Len(items) |-> m[n] = Bool(TRUE)], Len(items))
    <2>1. /\ \E f : f = body(f)
          /\ \A f : f = body(f) => Keeps(f[Len(items)], [n \in 1..Len(items) |-> m[n] = Bool(TRUE)], Len(items))
      <3>1. PICK N \in Nat : N = Len(items)
        OBVIOUS
      <3>2. PICK yes : yes = Bool(TRUE)
        OBVIOUS
      <3>3. /\ \E f : f = KeepsOn(f, m, yes, N)
            /\ \A f : f = KeepsOn(f, m, yes, N) => Keeps(f[N], [n \in 1..N |-> m[n] = yes], N)
        BY FilterKeeps
      <3>4. \A f : KeepsOn(f, m, yes, N) = body(f)
        BY <3>1, <3>2 DEF KeepsOn
      <3> HIDE DEF body
      <3> QED
        BY <3>1, <3>2, <3>3, <3>4
    <2> HIDE DEF body
    <2> QED
      BY <2>1
  <1> HIDE DEF kept
  <1>3. <<"items", kept[Len(items)]>> # Raised /\ <<"items", kept[Len(items)]>>[2] = kept[Len(items)]
    BY DEF Raised
  <1>4. /\ r = Raised <=> \E i \in DOMAIN items : m[i] = Raised
        /\ r # Raised => Keeps(r[2], [n \in 1..Len(items) |-> m[n] = Bool(TRUE)], Len(items))
    BY <1>1, <1>2, <1>3
  <1> QED
    BY <1>4 DEF m, r

LEMMA DefaultsDiffer ==
  ASSUME NEW item, NEW field, NEW w, w[1] \in {"none", "int", "list", "dict"}
  PROVE  LET t == TransformResult(item, [out |-> <<"path", <<"input", field>>>>, same |-> w],
                                  [out |-> <<"int", 7>>])
             u == Interpolate([out |-> <<"path", <<"item", field>>>>], item)
         IN  /\ DOMAIN t = {"out", "same"} /\ t["same"] = w
             /\ t["out"] # u["out"] => u["out"] = None /\ t["out"] = <<"int", 7>>
  <1> DEFINE tc == <<"dict", [input |-> item]>>
             uc == <<"dict", [item |-> item]>>
             v  == Follow(item, field)
             tm == [out |-> <<"path", <<"input", field>>>>, same |-> w]
             um == [out |-> <<"path", <<"item", field>>>>]
             t  == TransformResult(item, tm, [out |-> <<"int", 7>>])
             u  == Interpolate(um, item)
  <1>1. Follow(tc, "input") = item /\ Follow(uc, "item") = item
    BY DEF Follow, Is
  <1>2. Resolve(tc, <<"input", field>>) = v /\ Resolve(uc, <<"item", field>>) = v
    <2>1. /\ Resolve(tc, <<"input", field>>) = Follow(Follow(tc, "input"), field)
          /\ Resolve(uc, <<"item", field>>) = Follow(Follow(uc, "item"), field)
      BY FollowTwo
    <2> QED
      BY <2>1, <1>1
  <1>3. /\ DOMAIN tm = {"out", "same"} /\ tm["out"] = <<"path", <<"input", field>>>> /\ tm["same"] = w
        /\ DOMAIN um = {"out"} /\ um["out"] = <<"path", <<"item", field>>>>
    OBVIOUS
  <1>4. ~Is(w, "path") /\ Is(tm["out"], "path") /\ Is(um["out"], "path")
        /\ tm["out"][2] = <<"input", field>> /\ um["out"][2] = <<"item", field>>
    BY <1>3 DEF Is
  <1> HIDE DEF tm, um
  <1>5. t = Filled(tm, tc, [out |-> <<"int", 7>>]) /\ u = Filled(um, uc, <<>>)
    BY DEF TransformResult, Interpolate
  <1> HIDE DEF tc, uc, v, t, u
  <1>6. DOMAIN t = {"out", "same"} /\ t["same"] = w
    BY <1>3, <1>4, <1>5 DEF Filled
  <1>7. t["out"] = (IF v # Missing THEN v ELSE <<"int", 7>>)
    <2>1. t["out"] = (IF Resolve(tc, tm["out"][2]) # Missing THEN Resolve(tc, tm["out"][2])
                      ELSE IF "out" \in DOMAIN [out |-> <<"int", 7>>] THEN [out |-> <<"int", 7>>]["out"] ELSE None)
      BY <1>3, <1>4, <1>5 DEF Filled
    <2> QED
      BY <2>1, <1>2, <1>4
  <1>8. u["out"] = (IF v # Missing THEN v ELSE None)
    <2>1. u["out"] = (IF Resolve(uc, um["out"][2]) # Missing THEN Resolve(uc, um["out"][2])
                      ELSE IF "out" \in DOMAIN <<>> THEN <<>>["out"] ELSE None)
      BY <1>3, <1>4, <1>5 DEF Filled
    <2> QED
      BY <2>1, <1>2, <1>4
  <1> QED
    BY <1>6, <1>7, <1>8 DEF t, u, tm, um

(* Every answer of the nodes is right, whatever they are asked.            *)
LEMMA AnswersExact ==
  ASSUME question \in Questions, Execute
  PROVE  ValuesExact'
  <1> DEFINE q == question
             n == Len(q.items)
             Val(i) == Field(q.items[i], <<q.field>>)
             Match1(i) == Match(Val(i), q.op, q.value)
             r == reply'
             Kept == IF r.filter = Raised THEN <<>> ELSE r.filter[2]
             tm == [out |-> <<"path", <<"input", q.field>>>>, same |-> q.value]
             um == [out |-> <<"path", <<"item", q.field>>>>]
  <1>1. n \in Nat /\ DOMAIN q.items = 1..n /\ q.value[1] \in {"none", "int", "list", "dict"}
    <2>1. q \in Questions
      OBVIOUS
    <2>2. q.items \in Seq({q.items[i] : i \in DOMAIN q.items}) /\ q.value[1] \in {"none", "int", "list", "dict"}
      BY <2>1, ValuesAssumption
    <2> HIDE DEF q
    <2> QED
      BY <2>2
  <1>2. /\ question' = question
        /\ r.filter = FilterResult(q.items, <<q.field>>, q.op, q.value)
        /\ \A i \in DOMAIN q.items :
             /\ r.condition[i] = ConditionResult(Val(i), q.op, q.value)
             /\ r.transform[i] = TransformResult(q.items[i], tm, [out |-> <<"int", 7>>])
             /\ r.worker[i] = Interpolate(um, q.items[i])
    BY DEF Execute
  <1>3. /\ r.filter = Raised <=> \E i \in DOMAIN q.items : Match1(i) = Raised
        /\ r.filter # Raised => Keeps(r.filter[2], [i \in 1..n |-> Match1(i) = Bool(TRUE)], n)
    <2> DEFINE m == [i \in DOMAIN q.items |-> Match(Field(q.items[i], <<q.field>>), q.op, q.value)]
    <2>1. /\ r.filter = Raised <=> \E i \in DOMAIN q.items : m[i] = Raised
          /\ r.filter # Raised => Keeps(r.filter[2], [i \in 1..n |-> m[i] = Bool(TRUE)], n)
      <3>1. PICK items : items = q.items
        OBVIOUS
      <3>2. PICK path : path = <<q.field>>
        OBVIOUS
      <3>3. Len(items) \in Nat /\ DOMAIN items = 1..Len(items)
        BY <1>1, <3>1
      <3> DEFINE o == q.op
                 w == q.value
                 v == [i \in DOMAIN items |-> Match(Field(items[i], path), o, w)]
                 s == FilterResult(items, path, o, w)
      <3> HIDE DEF o, w
      <3>4. /\ s = Raised <=> \E i \in DOMAIN items : v[i] = Raised
            /\ s # Raised => Keeps(s[2], [i \in 1..Len(items) |-> v[i] = Bool(TRUE)], Len(items))
        BY <3>3, FilterExact
      <3>5. s = r.filter /\ v = m
        BY <1>2, <3>1, <3>2 DEF o, w
      <3> HIDE DEF s, v, m, r
      <3> QED
        BY <3>1, <3>4, <3>5
    <2>2. \A i \in DOMAIN q.items : m[i] = Match1(i)
      OBVIOUS
    <2>3. [i \in 1..n |-> m[i] = Bool(TRUE)] = [i \in 1..n |-> Match1(i) = Bool(TRUE)]
      BY <1>1, <2>2
    <2> HIDE DEF m, r, Val
    <2> QED
      BY <2>1, <2>2, <2>3
  <1> HIDE DEF r
  <1>4. \A i \in DOMAIN q.items :
          /\ q.op \in Orders \union {"contains"} /\ Match1(i) = Raised => r.condition[i] = Raised
          /\ r.condition[i] = Raised /\ q.op \notin {"not_in", "truthy"} => Match1(i) = Raised
          /\ Match1(i) # Raised /\ q.op # "truthy" /\ ~(Val(i) = None /\ q.op \in {"ne", "eq", "in"}) =>
               (r.condition[i] = Bool(TRUE) <=> Match1(i) = Bool(TRUE))
    <2> SUFFICES ASSUME NEW i \in DOMAIN q.items
                 PROVE  /\ q.op \in Orders \union {"contains"} /\ Match1(i) = Raised => r.condition[i] = Raised
                        /\ r.condition[i] = Raised /\ q.op \notin {"not_in", "truthy"} => Match1(i) = Raised
                        /\ Match1(i) # Raised /\ q.op # "truthy" /\ ~(Val(i) = None /\ q.op \in {"ne", "eq", "in"}) =>
                             (r.condition[i] = Bool(TRUE) <=> Match1(i) = Bool(TRUE))
      OBVIOUS
    <2>1. r.condition[i] = ConditionResult(Val(i), q.op, q.value)
      BY <1>2
    <2>2. PICK v : v = Val(i)
      OBVIOUS
    <2>3. LET c == ConditionResult(v, q.op, q.value)
              m == Match(v, q.op, q.value)
          IN  /\ q.op \in Orders \union {"contains"} /\ m = Raised => c = Raised
              /\ c = Raised /\ q.op \notin {"not_in", "truthy"} => m = Raised
              /\ m # Raised /\ q.op # "truthy" /\ ~(v = None /\ q.op \in {"ne", "eq", "in"}) =>
                   (c = Bool(TRUE) <=> m = Bool(TRUE))
      BY VerdictsAgree
    <2> HIDE DEF Val
    <2> QED
      BY <2>1, <2>2, <2>3
  <1>5. \A k \in DOMAIN Kept : \A j \in DOMAIN Kept : j < k => Kept[j] < Kept[k]
    <2>1. CASE r.filter = Raised
      BY <2>1
    <2>2. CASE r.filter # Raised
      BY <2>2, <1>3 DEF Keeps
    <2> QED
      BY <2>1, <2>2
  <1>6. r.filter # Raised =>
          \A i \in DOMAIN q.items : Match1(i) = Bool(TRUE) <=> \E k \in DOMAIN Kept : Kept[k] = i
    BY <1>1, <1>3 DEF Keeps
  <1>7. \A i \in DOMAIN q.items :
          LET t == r.transform[i]
          IN  /\ DOMAIN t = {"out", "same"} /\ t["same"] = q.value
              /\ t["out"] # r.worker[i]["out"] =>
                   r.worker[i]["out"] = None /\ t["out"] = <<"int", 7>>
    BY <1>1, <1>2, DefaultsDiffer
  <1> HIDE DEF Match1, Kept
  <1>8. r.filter # Raised /\ q.op # "truthy" =>
          \A i \in DOMAIN q.items :
            ~(Val(i) = None /\ q.op \in {"ne", "eq", "in"}) =>
              (r.condition[i] = Bool(TRUE) <=> \E k \in DOMAIN Kept : Kept[k] = i)
    BY <1>3, <1>4, <1>6
  <1>9. /\ q.op \in Orders \union {"contains"} /\ r.filter = Raised =>
             \E i \in DOMAIN q.items : r.condition[i] = Raised
        /\ (\E i \in DOMAIN q.items : r.condition[i] = Raised) /\ q.op \notin {"not_in", "truthy"} =>
             r.filter = Raised
    BY <1>3, <1>4
  <1> QED
    BY <1>2, <1>5, <1>7, <1>8, <1>9 DEF ValuesExact, r, Kept

(* filter, condition and transform agree where they should, on any items,  *)
(* fields, operators and values (condition.py:30-44, filter.py:29-49,      *)
(* transform.py:43-53).                                                    *)
THEOREM ValuesCorrect == ValuesSpec => []ValuesExact
  <1> DEFINE Inv == question \in Questions /\ ValuesExact
  <1>1. ValuesInit => Inv
    BY DEF ValuesInit, ValuesExact
  <1>2. Inv /\ [Execute]_valueVars => Inv'
    <2> SUFFICES ASSUME Inv, [Execute]_valueVars PROVE Inv'
      OBVIOUS
    <2>1. CASE Execute
      BY <2>1, AnswersExact DEF Execute
    <2>2. CASE UNCHANGED valueVars
      BY <2>2 DEF valueVars, ValuesExact
    <2> QED
      BY <2>1, <2>2
  <1> QED
    BY <1>1, <1>2, PTL DEF ValuesSpec
=============================================================================
