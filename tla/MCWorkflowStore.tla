--------------------------- MODULE MCWorkflowStore ---------------------------
(***************************************************************************)
(* WorkflowStore within bounds: four requests as long as they come one     *)
(* after the other; three that overlap, fail and are cut off.  The owner's *)
(* requests come by themselves, or outside calls to the webhooks of one    *)
(* workflow are under way with them.                                       *)
(***************************************************************************)
EXTENDS WebhookCalls, TLC

VARIABLE called

Requests == Permutations(Request)

Bounds == mixed => \E r \in Request : pc[r] = "idle"

(* The owner of the called workflow: two requests at a time, none failing. *)
OwnerOfCalled ==
    /\ Cardinality(InFlight) <= 2
    /\ restarts = 0
    /\ \E w \in Workflow : \A r \in Request : on[r] # w
    /\ \A r \in Request : reply[r] # "503"

MCInit == Init /\ HookInit /\ called \in BOOLEAN

MCNext ==
    /\ UNCHANGED called
    /\ \/ called /\ HookNext /\ OwnerOfCalled'
       \/ ~called /\ Next /\ UNCHANGED hookVars /\ Bounds'

MCSpec == MCInit /\ [][MCNext]_<<vars, hookVars, called>>
=============================================================================
