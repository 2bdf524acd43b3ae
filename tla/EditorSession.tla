----------------------------- MODULE EditorSession -----------------------------
(***************************************************************************)
(* A user's session in the workflow editor, with the chat beside it: the   *)
(* editor store with its undo history (editor-store.ts), saving from the   *)
(* toolbar (toolbar.tsx), loading through the query cache (editor.tsx) and *)
(* applying the composer's drafts (chat-panel.tsx).  The store and the     *)
(* cache live as long as the page; the components come and go with the     *)
(* route.                                                                  *)
(*                                                                         *)
(* What is on the canvas, the name included, is one value.  The rows of    *)
(* the server change by this session's saves only.                         *)
(***************************************************************************)
EXTENDS ComposerChat, FiniteSets

CONSTANTS Drawn,          \* what the user may draw
          Draft,          \* what the composer draws
          Ids,            \* workflow ids, 1..n, given out in order
          MaxSteps,       \* bound on what the user does
          MaxHistory      \* zundo's limit, 50

ASSUME EditorAssumption == Ids \subseteq Nat \ {0}

Nothing == 0
Empty == "empty"          \* a canvas without nodes
Canvases == Drawn \union {Draft, Empty}

VARIABLES canvas, dirty, lastSavedId, source, past, future,
          rows,           \* the server's: what was saved last and as what
          cache,          \* the query cache, an entry per workflow
          route,          \* the workflow on the page, Nothing for a new one
          going,          \* the page the router was told to replace it by
          loading,        \* the page waits for its workflow
          fetch,          \* a request for the workflow: none, sent, or its answer
          save,           \* the save under way
          steps

editorVars == <<canvas, dirty, lastSavedId, source, past, future, rows, cache,
                route, going, loading, fetch, save, steps>>

NoSave  == [st |-> "none", new |-> FALSE, id |-> Nothing, canvas |-> Empty, source |-> "user_edit"]
NoFetch == [st |-> "none", canvas |-> Empty]
NoRow   == [canvas |-> Empty, source |-> "none"]

EditorTypeOK ==
  /\ ChatTypeOK
  /\ canvas \in Canvases /\ source \in {"ai_draft", "user_edit"} /\ dirty \in BOOLEAN
  /\ {lastSavedId, route, going} \subseteq Ids \union {Nothing}
  /\ past \in Seq(Canvases) /\ future \in Seq(Canvases) /\ Len(past) <= MaxHistory
  /\ \A i \in Ids : rows[i].canvas \in Canvases /\ cache[i] \in Canvases
  /\ fetch.st \in {"none", "sent", "answered"}
  /\ save.st \in {"none", "sent", "done", "failed"}

EditorInit ==
  /\ ChatInit
  /\ canvas = Empty /\ dirty = FALSE /\ lastSavedId = Nothing /\ source = "user_edit"
  /\ past = <<>> /\ future = <<>>
  /\ rows = [i \in Ids |-> NoRow]
  /\ cache = [i \in Ids |-> Empty]
  /\ route = Nothing /\ going = Nothing /\ loading = FALSE /\ fetch = NoFetch
  /\ save = NoSave
  /\ steps = 0

Step == steps < MaxSteps /\ steps' = steps + 1
Shown == ~loading                        \* the toolbar and the canvas are there
Saving == save.st # "none"

(* zundo: every set() of the store, whatever it sets, pushes the canvas of *)
(* before and forgets what was undone.                                     *)
Pushed(history) ==
  IF Len(history) = MaxHistory THEN Append(Tail(history), canvas) ELSE Append(history, canvas)
Track == past' = Pushed(past) /\ future' = <<>>
TrackTwice == past' = Pushed(Pushed(past)) /\ future' = <<>>

(* What the properties exclude is noted; an undo is excluded by both, and  *)
(* nothing is noted after one.                                             *)
Overlap == IF Saving THEN {"overlap"} ELSE {}
Noted(what) == IF "undo" \in did THEN {} ELSE IF "undo" \in what THEN {"undo"} ELSE what
Note(what) ==
  /\ did' = did \union Noted(what)
  /\ UNCHANGED <<open, pending, bubble, error, turns, server, said, wire>>

-----------------------------------------------------------------------------
Edit_KeepsSource(c) ==
  /\ Shown /\ c # canvas /\ Step
  /\ canvas' = c
  /\ dirty' = TRUE
  /\ Track /\ Note(Overlap)
  /\ UNCHANGED <<offered, source, lastSavedId, rows, cache, route, going, loading, fetch, save>>

(* Any of the store's own changes: a node added, moved, configured or      *)
(* removed, an edge, the name, the layout.                                 *)
Edit(c) ==
  /\ Shown /\ c # canvas /\ Step
  /\ canvas' = c
  /\ dirty' = TRUE /\ source' = "user_edit"
  /\ Track /\ Note(Overlap)
  /\ UNCHANGED <<offered, lastSavedId, rows, cache, route, going, loading, fetch, save>>

(* Selecting a node, closing an error, opening the results. *)
Touch ==
  /\ Shown /\ Step
  /\ Track
  /\ UNCHANGED <<chatVars, canvas, dirty, source, lastSavedId, rows, cache, route, going, loading, fetch, save>>

(* The canvas is replaced by one of the history; dirty is no part of it. *)
Undo ==
  /\ Shown /\ past # <<>> /\ Step
  /\ canvas' = past[Len(past)]
  /\ past' = SubSeq(past, 1, Len(past) - 1)
  /\ future' = Append(future, canvas)
  /\ Note({"undo"})
  /\ UNCHANGED <<offered, dirty, source, lastSavedId, rows, cache, route, going, loading, fetch, save>>

Redo ==
  /\ Shown /\ future # <<>> /\ Step
  /\ canvas' = future[Len(future)]
  /\ future' = SubSeq(future, 1, Len(future) - 1)
  /\ past' = Append(past, canvas)
  /\ Note({"undo"})
  /\ UNCHANGED <<offered, dirty, source, lastSavedId, rows, cache, route, going, loading, fetch, save>>

(* onApply(): the draft replaces whatever is on the canvas by now. *)
Apply ==
  /\ Shown /\ CanDecide /\ Step
  /\ offered' = FALSE
  /\ canvas' = Draft
  /\ dirty' = TRUE /\ source' = "ai_draft"
  /\ Track /\ Note(Overlap)
  /\ UNCHANGED <<lastSavedId, rows, cache, route, going, loading, fetch, save>>

-----------------------------------------------------------------------------
(* Save: the payload is read off the store when the button is pressed. *)
Save ==
  /\ Shown /\ ~Saving /\ canvas # Empty /\ Step
  /\ lastSavedId = Nothing => \E i \in Ids : rows[i] = NoRow
  /\ save' = [st |-> "sent", new |-> (lastSavedId = Nothing), id |-> lastSavedId,
              canvas |-> canvas, source |-> source]
  /\ UNCHANGED <<chatVars, canvas, dirty, lastSavedId, source, past, future, rows, cache,
                 route, going, loading, fetch>>

Fresh == CHOOSE i \in Ids : rows[i] = NoRow /\ \A j \in Ids : rows[j] = NoRow => i <= j

(* The server stores the row, and its answer may be lost; or it refuses. *)
Store ==
  /\ save.st = "sent"
  /\ \E stored, heard \in BOOLEAN :
       LET id == IF save.new THEN Fresh ELSE save.id IN
       /\ heard => stored
       /\ rows' = IF stored
                  THEN [rows EXCEPT ![id] = [canvas |-> save.canvas, source |-> save.source]]
                  ELSE rows
       /\ save' = [save EXCEPT !.st = IF heard THEN "done" ELSE "failed",
                               !.id = IF heard THEN id ELSE @]
  /\ UNCHANGED <<chatVars, canvas, dirty, lastSavedId, source, past, future, cache,
                 route, going, loading, fetch, steps>>

(* The page changes: the editor is mounted anew, from the cache when the   *)
(* workflow is in it, with a new request when the entry is older than a    *)
(* minute, or waits for the server.                                        *)
Show(r, c) ==
  /\ route' = r
  /\ loading' = (c = Empty)
  /\ \E stale \in BOOLEAN :
       fetch' = IF c = Empty \/ stale THEN [st |-> "sent", canvas |-> Empty] ELSE NoFetch

Load_KeepsId(id, c) ==
  /\ canvas' = c /\ dirty' = FALSE
  /\ Track
  /\ UNCHANGED <<source, lastSavedId>>

(* loadFromWorkflow(); revisionSourceForNextSave stays as it is. *)
Load(id, c) ==
  /\ canvas' = c /\ dirty' = FALSE /\ lastSavedId' = id
  /\ Track
  /\ UNCHANGED source

Stale(id, c) ==
  (IF rows[id].canvas # c THEN {"revisit"} ELSE {})
    \union (IF source = "ai_draft" THEN {"switch"} ELSE {})

(* onError, or onSuccess: markSaved() and setError(), and for a new        *)
(* workflow its page is asked for.  Both run even when the toolbar is gone *)
(* by then.                                                                *)
SaveFails ==
  /\ save.st = "failed"
  /\ save' = NoSave
  /\ Track
  /\ UNCHANGED <<chatVars, canvas, dirty, lastSavedId, source, rows, cache, route, going,
                 loading, fetch, steps>>

Saved ==
  /\ save.st = "done"
  /\ save' = NoSave
  /\ dirty' = FALSE /\ source' = "user_edit"
  /\ lastSavedId' = save.id
  /\ TrackTwice
  /\ going' = IF save.new THEN save.id ELSE going
  /\ UNCHANGED <<chatVars, canvas, rows, cache, route, loading, fetch, steps>>

(* The page of a workflow is there, whatever was done before it came. *)
Enter(r) ==
  /\ Show(r, cache[r]) /\ going' = Nothing
  /\ IF cache[r] = Empty
     THEN UNCHANGED <<canvas, dirty, lastSavedId, source, past, future>>
     ELSE Load(r, cache[r])
  /\ Unmount(Noted((IF Saving THEN {"leave"} ELSE {})
                     \union IF cache[r] = Empty THEN {} ELSE Stale(r, cache[r])))

Replaced ==
  /\ going # Nothing
  /\ Enter(going)
  /\ UNCHANGED <<rows, cache, save, steps>>

(* The user follows a link to another workflow or to a new one. *)
Go(r) ==
  /\ Shown /\ r # route /\ Step
  /\ IF r = Nothing
     THEN /\ route' = r /\ going' = Nothing /\ loading' = FALSE /\ fetch' = NoFetch
          /\ canvas' = Empty /\ dirty' = FALSE /\ lastSavedId' = Nothing
          /\ source' = "user_edit" /\ Track
          /\ Unmount(Noted(IF Saving THEN {"leave"} ELSE {}))
     ELSE rows[r] # NoRow /\ Enter(r)
  /\ UNCHANGED <<rows, cache, save>>

Answer ==
  /\ fetch.st = "sent"
  /\ fetch' = [st |-> "answered", canvas |-> rows[route].canvas]
  /\ UNCHANGED <<chatVars, canvas, dirty, lastSavedId, source, past, future, rows, cache,
                 route, going, loading, save, steps>>

(* The answer goes to the cache, and on to the canvas if any of it is news *)
(* (data, editor.tsx:35): the canvas, or else updated_at or is_active.     *)
Fetched ==
  /\ fetch.st = "answered"
  /\ fetch' = NoFetch
  /\ loading' = FALSE
  /\ cache' = [cache EXCEPT ![route] = fetch.canvas]
  /\ \/ /\ cache[route] = fetch.canvas
        /\ UNCHANGED <<canvas, dirty, lastSavedId, source, past, future, chatVars>>
     \/ /\ Load(route, fetch.canvas)
        /\ Note(Stale(route, fetch.canvas) \union Overlap)
        /\ UNCHANGED offered
  /\ UNCHANGED <<rows, route, going, save, steps>>

-----------------------------------------------------------------------------
ChatNext ==
  /\ \/ Serve \/ Break \/ Cut \/ Read
     \/ Shown /\ (Submit \/ Toggle \/ Reject)
  /\ UNCHANGED editorVars

EditorNext ==
  \/ \E c \in Drawn : Edit(c)
  \/ Touch \/ Undo \/ Redo \/ Apply
  \/ Save \/ Store \/ SaveFails \/ Saved \/ Replaced
  \/ \E r \in Ids \union {Nothing} : Go(r)
  \/ Answer \/ Fetched
  \/ ChatNext

(* The browser reads what has come, and the server answers what it was     *)
(* asked: its calls to the backend have a time limit.                      *)
EditorFairness ==
  /\ WF_<<chatVars, editorVars>>(Serve /\ UNCHANGED editorVars)
  /\ WF_<<chatVars, editorVars>>(Read /\ UNCHANGED editorVars)

EditorSpec ==
  EditorInit /\ [][EditorNext]_<<chatVars, editorVars>> /\ EditorFairness

-----------------------------------------------------------------------------
CanExecute == Shown /\ lastSavedId # Nothing /\ ~dirty

(* "so the server actually runs what the user sees on canvas"              *)
(* (toolbar.tsx:106-107).                                                  *)
ExecuteRunsCanvas == CanExecute => rows[lastSavedId].canvas = canvas

(* So it does as long as the user does not undo, change the canvas or      *)
(* leave while a save is under way, or come back to a workflow whose       *)
(* cached copy is older than the last save (toolbar.tsx:45-117,            *)
(* editor.tsx:23-35).                                                      *)
ShownIsSaved ==
  did \intersect {"undo", "overlap", "leave", "revisit"} = {} => ExecuteRunsCanvas

(* A revision is recorded as the composer's only when it is just what the  *)
(* composer drew, as long as the user does not undo or open another        *)
(* workflow with a draft unsaved                                           *)
(* (editor-store.ts:42-47, toolbar.tsx:45-56).                             *)
DraftHonest ==
  did \intersect {"undo", "switch"} = {} =>
    \A i \in Ids : rows[i].source = "ai_draft" => rows[i].canvas = Draft
=============================================================================
