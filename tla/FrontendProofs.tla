----------------------------- MODULE FrontendProofs -----------------------------
(***************************************************************************)
(* The editor and the skill wizard, for any workflows, canvases, domains,  *)
(* policies and calls.                                                     *)
(***************************************************************************)
EXTENDS EditorSession, SkillWizard, FiniteSetTheorems, TLAPS

-----------------------------------------------------------------------------
(* The skill wizard. *)
Waited == {"extract", "bootstrap", "answers"}    \* the page waits for these
Decisions == {"approve", "reject"}
Questions == [domain : Domains \union {Other}, policy : Nat, followUp : BOOLEAN]

CallSet == [n : Nat, kind : Waited \union Decisions, st : {"sent", "checked", "done"},
            heard : BOOLEAN, ok : BOOLEAN, session : Nat, domain : Domains \union {Other},
            some : BOOLEAN, turn : Questions, skill : Nat, gaps : Seq(Questions), unclear : BOOLEAN]
SkillSet == [session : Nat, turn : Questions, status : {"pending_review", "active", "rejected"}]
CardSet == [skill : Nat, turn : Questions, unclear : BOOLEAN, followUpAsked : BOOLEAN,
            status : {"pending", "deciding", "failed", "active", "rejected"}]

WizardTypes ==
  /\ queue \in Seq(Questions) /\ index \in Nat \ {0}
  /\ drafts \in Seq(CardSet) /\ skills \in Seq(SkillSet) /\ calls \subseteq CallSet
  /\ asked \in Nat /\ sessions \in Nat /\ session \in Nat
  /\ domain \in Domains \union {Other} /\ selected \in BOOLEAN

Owed(c)    == c.heard /\ c.kind \in Waited
Decides(c) == c.kind \in Decisions
Written(c) == c.kind = "answers" /\ c.st = "done" /\ c.ok

(* A call or a card that names a skill names a row, with its own turn; no  *)
(* two answers made the same row, and what an answer has yet to bring is   *)
(* on no card and under no decision.                                       *)
Rows ==
  /\ \A c \in calls : Decides(c) \/ Written(c) => c.skill \in DOMAIN skills
  /\ \A c \in calls : c.st = "checked" => Decides(c)
  /\ \A c \in calls : Written(c) =>
       skills[c.skill].session = c.session /\ skills[c.skill].turn = c.turn
  /\ \A i \in DOMAIN drafts :
       drafts[i].skill \in DOMAIN skills /\ skills[drafts[i].skill].turn = drafts[i].turn

Apart ==
  /\ \A c, d \in calls : Written(c) /\ Written(d) /\ c.skill = d.skill => c = d
  /\ \A c, d \in calls : Written(c) /\ Decides(d) => c.skill # d.skill
  /\ \A c \in calls : \A i \in DOMAIN drafts : Written(c) => drafts[i].skill # c.skill

(* One decision at a time on a skill, and the card knows. *)
OneDecision ==
  "abandoned" \notin mishaps =>
    /\ \A c, d \in calls : Decides(c) /\ Decides(d) /\ c.skill = d.skill => c = d
    /\ \A c \in calls : \A i \in DOMAIN drafts :
         Decides(c) /\ drafts[i].skill = c.skill => drafts[i].status = "deciding"
    /\ \A c \in calls : c.st = "checked" => skills[c.skill].status = "pending_review"

(* One call at a time for which the page waits, and the cards answer the   *)
(* questions before the one that is asked.                                 *)
Answered ==
  /\ index = Len(drafts) + 1 /\ Len(drafts) <= Len(queue)
  /\ \A i \in DOMAIN drafts :
       drafts[i].turn = queue[i] /\ skills[drafts[i].skill].session = session

InOrder ==
  "late" \notin mishaps =>
    /\ \A c, d \in calls : Owed(c) /\ Owed(d) => c = d
    /\ \A c \in calls : Owed(c) =>
         /\ phase = IF c.kind = "extract" THEN "extracting" ELSE "loading"
         /\ c.session = session
         /\ c.kind = "answers" => Answered /\ index <= Len(queue) /\ c.turn = queue[index]
    /\ phase = "asking" => Answered /\ index <= Len(queue)
    /\ phase = "done" => Answered /\ index = Len(queue) + 1

WizardInv == WizardTypes /\ Rows /\ Apart /\ OneDecision /\ InOrder

-----------------------------------------------------------------------------
(* The editor. *)
Free(id) == rows[id] = NoRow

EditorTypes ==
  /\ rows = [i \in Ids |-> [canvas |-> rows[i].canvas, source |-> rows[i].source]]
  /\ cache = [i \in Ids |-> cache[i]]
  /\ save = [st |-> save.st, new |-> save.new, id |-> save.id, canvas |-> save.canvas,
             source |-> save.source]
  /\ fetch = [st |-> fetch.st, canvas |-> fetch.canvas]
  /\ save.st \in {"none", "sent", "done", "failed"} /\ save.new \in BOOLEAN
  /\ {lastSavedId, route, going} \subseteq Ids \union {Nothing}
  /\ loading \in BOOLEAN /\ dirty \in BOOLEAN

(* What is stored is no empty canvas, what is cached or asked for is       *)
(* stored, and a save has where to go.                                     *)
Stored ==
  /\ \A i \in Ids : ~Free(i) => rows[i].canvas # Empty
  /\ \A i \in Ids : cache[i] # Empty => ~Free(i)
  /\ fetch.st # "none" => route \in Ids /\ ~Free(route)
  /\ going # Nothing => ~Free(going)
  /\ fetch.st = "answered" => fetch.canvas # Empty
  /\ Saving => save.canvas # Empty
  /\ save.st = "sent" => IF save.new THEN \E i \in Ids : Free(i) ELSE save.id \in Ids
  /\ save.st = "done" => save.id \in Ids /\ ~Free(save.id)

Orderly == did \intersect {"undo", "overlap", "leave", "revisit"} = {}

(* The page shows the workflow that was saved last, a save holds what is   *)
(* on the canvas, and a page that waits knows nothing yet.                 *)
Matched ==
  Orderly =>
    /\ ExecuteRunsCanvas
    /\ Shown => lastSavedId = (IF going = Nothing THEN route ELSE going)
    /\ going # Nothing => Shown /\ route = Nothing /\ cache[going] = Empty
    /\ loading => route \in Ids /\ cache[route] = Empty /\ fetch.st # "none"
    /\ Saving => Shown /\ save.canvas = canvas /\ (save.new <=> lastSavedId = Nothing)
    /\ Saving /\ ~save.new => save.id = lastSavedId
    /\ save.st = "done" => rows[save.id].canvas = save.canvas
    /\ save.st = "done" /\ save.new => cache[save.id] = Empty

Drafted ==
  did \intersect {"undo", "switch"} = {} =>
    /\ source = "ai_draft" => canvas = Draft
    /\ Saving /\ save.source = "ai_draft" => save.canvas = Draft
    /\ \A i \in Ids : rows[i].source = "ai_draft" => rows[i].canvas = Draft

EditorInv == EditorTypes /\ Stored /\ Matched /\ Drafted
-----------------------------------------------------------------------------
(* What is noted stays noted, and an undo hides what comes with it. *)
LEMMA NoteAdds ==
  ASSUME NEW what, Note(what)
  PROVE  did \subseteq did' /\ ("undo" \notin did' => what \subseteq did')
BY DEF Note, Noted

LEMMA UnmountAdds ==
  ASSUME NEW what, Unmount(Noted(what))
  PROVE  did \subseteq did' /\ ("undo" \notin did' => what \subseteq did')
BY DEF Unmount, Noted

LEMMA EditorBegins ==
  ASSUME EditorInit
  PROVE  EditorInv
  <1>1. /\ did = {} /\ dirty = FALSE /\ lastSavedId = Nothing /\ source = "user_edit"
        /\ rows = [i \in Ids |-> NoRow] /\ cache = [i \in Ids |-> Empty]
        /\ route = Nothing /\ going = Nothing /\ loading = FALSE /\ fetch = NoFetch /\ save = NoSave
    BY DEF EditorInit, ChatInit
  <1>2. EditorTypes
    BY <1>1 DEF EditorTypes, NoRow, NoSave, NoFetch
  <1>3. Stored
    BY <1>1 DEF Stored, Free, NoRow, NoSave, NoFetch, Saving, Empty
  <1>4. Matched
    BY <1>1 DEF Matched, ExecuteRunsCanvas, CanExecute, Shown, NoSave, Saving
  <1>5. Drafted
    BY <1>1 DEF Drafted, NoRow, NoSave, Saving
  <1> QED
    BY <1>2, <1>3, <1>4, <1>5 DEF EditorInv

(* A step that leaves the server, the page and the save alone. *)
LEMMA StoredStays ==
  ASSUME EditorInv, UNCHANGED <<rows, cache, save, fetch, route, going, loading, lastSavedId>>,
         dirty' \in BOOLEAN
  PROVE  EditorTypes' /\ Stored'
  <1>1. /\ rows' = rows /\ cache' = cache /\ save' = save /\ fetch' = fetch /\ route' = route /\ going' = going
        /\ loading' = loading /\ lastSavedId' = lastSavedId
    OBVIOUS
  <1>2. EditorTypes'
    BY <1>1 DEF EditorInv, EditorTypes
  <1>3. Stored'
    BY <1>1 DEF EditorInv, Stored, Free, Saving
  <1> QED
    BY <1>2, <1>3

LEMMA EditKeeps ==
  ASSUME EditorInv,
         UNCHANGED <<rows, cache, save, fetch, route, going, loading, lastSavedId>>,
         Note(Overlap), dirty' = TRUE,
         \/ source' = "user_edit"
         \/ source' = "ai_draft" /\ canvas' = Draft
  PROVE  EditorInv'
  <1>1. did \subseteq did' /\ ("undo" \notin did' => Overlap \subseteq did')
    BY NoteAdds
  <1>2. /\ rows' = rows /\ cache' = cache /\ save' = save /\ fetch' = fetch /\ route' = route /\ going' = going
        /\ loading' = loading /\ lastSavedId' = lastSavedId
    OBVIOUS
  <1>3. Matched'
    <2> SUFFICES ASSUME Orderly'
                 PROVE  Matched'
      BY DEF Matched
    <2>1. Orderly /\ ~Saving
      BY <1>1 DEF Orderly, Overlap
    <2>2. Matched
      BY DEF EditorInv
    <2> QED
      BY <1>2, <2>1, <2>2 DEF Matched, ExecuteRunsCanvas, CanExecute, Shown, Saving
  <1>4. Drafted'
    BY <1>1, <1>2 DEF EditorInv, Drafted, Saving
  <1> QED
    BY <1>3, <1>4, StoredStays DEF EditorInv

(* Nothing that the invariant speaks of changes, or an undo is noted. *)
LEMMA OthersKeep ==
  ASSUME EditorInv,
         UNCHANGED <<rows, cache, save, fetch, route, going, loading, lastSavedId, dirty, source>>,
         did \subseteq did', "undo" \in did' \/ UNCHANGED canvas
  PROVE  EditorInv'
  <1>1. /\ rows' = rows /\ cache' = cache /\ save' = save /\ fetch' = fetch /\ route' = route /\ going' = going
        /\ loading' = loading /\ lastSavedId' = lastSavedId /\ dirty' = dirty /\ source' = source
    OBVIOUS
  <1>2. EditorTypes' /\ Stored'
    BY <1>1, StoredStays DEF EditorInv, EditorTypes
  <1>3. Matched'
    <2> SUFFICES ASSUME Orderly'
                 PROVE  Matched'
      BY DEF Matched
    <2>1. Orderly /\ canvas' = canvas
      BY DEF Orderly
    <2>2. Matched
      BY DEF EditorInv
    <2> QED
      BY <1>1, <2>1, <2>2 DEF Matched, ExecuteRunsCanvas, CanExecute, Shown, Saving
  <1>4. Drafted'
    BY <1>1 DEF EditorInv, Drafted, Saving
  <1> QED
    BY <1>2, <1>3, <1>4 DEF EditorInv

LEMMA ChatKeeps ==
  ASSUME EditorInv, Touch \/ Undo \/ Redo \/ ChatNext \/ UNCHANGED <<chatVars, editorVars>>
  PROVE  EditorInv'
  <1>1. ASSUME Undo \/ Redo
        PROVE  EditorInv'
    <2>1. Note({"undo"})
      BY <1>1 DEF Undo, Redo
    <2>2. did \subseteq did' /\ "undo" \in did'
      BY <2>1, NoteAdds
    <2>3. UNCHANGED <<rows, cache, save, fetch, route, going, loading, lastSavedId, dirty, source>>
      BY <1>1 DEF Undo, Redo
    <2> QED
      BY <2>2, <2>3, OthersKeep
  <1>2. ASSUME Touch \/ UNCHANGED <<chatVars, editorVars>>
        PROVE  EditorInv'
    <2>1. /\ UNCHANGED <<rows, cache, save, fetch, route, going, loading, lastSavedId, dirty, source>>
          /\ did' = did /\ canvas' = canvas
      BY <1>2 DEF Touch, chatVars, editorVars
    <2> QED
      BY <2>1, OthersKeep
  <1>3. ASSUME ChatNext
        PROVE  EditorInv'
    <2>1. /\ UNCHANGED <<rows, cache, save, fetch, route, going, loading, lastSavedId, dirty, source>>
          /\ canvas' = canvas
      BY <1>3 DEF ChatNext, editorVars
    <2>2. did \subseteq did'
      <3>1. ASSUME Serve \/ Break \/ Submit \/ Toggle \/ Reject
            PROVE  did' = did
        BY <3>1 DEF Serve, OpenReply, SendError, SendDelta, SendResult, Send, Break, Submit,
                    Toggle, Reject
      <3>2. ASSUME Read
            PROVE  did' = did
        BY <3>2 DEF Read, ReadFrame, ReadEnd
      <3>3. ASSUME Cut
            PROVE  did \subseteq did'
        BY <3>3 DEF Cut
      <3> QED
        BY <1>3, <3>1, <3>2, <3>3 DEF ChatNext
    <2> QED
      BY <2>1, <2>2, OthersKeep
  <1> QED
    BY <1>1, <1>2, <1>3

LEMMA SaveKeeps ==
  ASSUME EditorInv, Save
  PROVE  EditorInv'
  <1>1. /\ rows' = rows /\ cache' = cache /\ fetch' = fetch /\ route' = route /\ going' = going /\ did' = did
        /\ loading' = loading /\ lastSavedId' = lastSavedId /\ dirty' = dirty /\ source' = source
        /\ canvas' = canvas
        /\ Shown /\ ~Saving /\ canvas # Empty
    BY DEF Save, chatVars
  <1>2. /\ save' = [st |-> "sent", new |-> (lastSavedId = Nothing), id |-> lastSavedId,
                    canvas |-> canvas, source |-> source]
        /\ lastSavedId = Nothing => \E i \in Ids : rows[i] = NoRow
    BY DEF Save
  <1>3. EditorTypes'
    BY <1>1, <1>2 DEF EditorInv, EditorTypes
  <1>4. /\ save'.st = "sent" /\ save'.canvas = canvas /\ save'.source = source /\ save'.id = lastSavedId
        /\ save'.new <=> lastSavedId = Nothing
    BY <1>2
  <1>5. Stored'
    BY <1>1, <1>2, <1>4 DEF EditorInv, EditorTypes, Stored, Free, Saving
  <1>6. Matched'
    BY <1>1, <1>4 DEF EditorInv, Matched, Orderly, ExecuteRunsCanvas, CanExecute, Shown, Saving
  <1>7. Drafted'
    BY <1>1, <1>4 DEF EditorInv, Drafted, Saving
  <1> QED
    BY <1>3, <1>5, <1>6, <1>7 DEF EditorInv

(* A set of naturals has a least element.                                 *)
LEMMA LeastOf ==
  ASSUME NEW live \in SUBSET Nat, live # {}
  PROVE  \E i \in live : \A j \in live : i <= j
  <1> DEFINE below == {0..i : i \in live}
  <1>1. below \subseteq FiniteSubsetsOf(Nat) /\ below # {}
    <2>1. ASSUME NEW i \in live PROVE 0..i \in FiniteSubsetsOf(Nat)
      <3>1. i \in Int /\ 0 \in Int /\ 0..i \in SUBSET Nat
        OBVIOUS
      <3>2. IsFiniteSet(0..i)
        BY <3>1, FS_Interval
      <3>3. QED
        BY <3>1, <3>2 DEF FiniteSubsetsOf
    <2>2. QED
      BY <2>1
  <1>2. \E x \in below : \A y \in below : <<y, x>> \notin StrictSubsetOrdering(Nat)
    <2> HIDE DEF below
    <2> QED
      BY <1>1, FS_StrictSubsetOrderingWellFounded, WFMin
  <1>3. PICK i \in live : \A y \in below : <<y, 0..i>> \notin StrictSubsetOrdering(Nat)
    BY <1>2
  <1>4. ASSUME NEW j \in live PROVE i <= j
    <2>1. 0..j \in SUBSET Nat /\ 0..i \in SUBSET Nat
      OBVIOUS
    <2>2. ~(0..j \subseteq 0..i /\ 0..j # 0..i)
      BY <1>3, <2>1 DEF StrictSubsetOrdering
    <2>3. ASSUME j < i PROVE FALSE
      BY <2>2, <2>3
    <2> QED
      BY <2>3
  <1>5. QED
    BY <1>4 

(* Of the ids not yet given out there is a least one. *)
LEMMA FreshIsFree ==
  ASSUME \E i \in Ids : Free(i)
  PROVE  Fresh \in Ids /\ Free(Fresh)
  <1> DEFINE free == {i \in Ids : Free(i)}
  <1>1. \E m \in free : \A k \in free : m <= k
    <2>1. free \in SUBSET Nat /\ free # {}
      BY EditorAssumption
    <2> HIDE DEF free
    <2> QED
      BY <2>1, LeastOf
  <1>2. \E m \in Ids : rows[m] = NoRow /\ \A j \in Ids : rows[j] = NoRow => m <= j
    BY <1>1 DEF Free
  <1> QED
    BY <1>2 DEF Fresh, Free

LEMMA StoreKeeps ==
  ASSUME EditorInv, Store
  PROVE  EditorInv'
  <1> DEFINE to == IF save.new THEN Fresh ELSE save.id
  <1>1. /\ cache' = cache /\ fetch' = fetch /\ route' = route /\ going' = going /\ did' = did
        /\ loading' = loading /\ lastSavedId' = lastSavedId /\ dirty' = dirty /\ source' = source
        /\ canvas' = canvas /\ save.st = "sent"
    BY DEF Store, chatVars
  <1>2. to \in Ids /\ (save.new => Free(to)) /\ (~save.new => to = save.id)
    BY <1>1, FreshIsFree DEF EditorInv, EditorTypes, Stored
  <1>3. PICK stored \in BOOLEAN, heard \in BOOLEAN :
          /\ heard => stored
          /\ rows' = IF stored
                     THEN [rows EXCEPT ![to] = [canvas |-> save.canvas, source |-> save.source]]
                     ELSE rows
          /\ save' = [save EXCEPT !.st = IF heard THEN "done" ELSE "failed",
                                  !.id = IF heard THEN to ELSE @]
    BY DEF Store
  <1> HIDE DEF to
  <1>4. /\ save'.canvas = save.canvas /\ save'.source = save.source /\ save'.new = save.new
        /\ save'.st \in {"done", "failed"}
        /\ save' = [st |-> save'.st, new |-> save'.new, id |-> save'.id, canvas |-> save'.canvas,
                    source |-> save'.source]
        /\ save'.st = "done" => stored /\ save'.id = to
        /\ save'.st = "failed" => save'.id = save.id
    BY <1>3 DEF EditorInv, EditorTypes
  <1>5. /\ \A i \in Ids : rows'[i] = rows[i] \/ (stored /\ i = to)
        /\ stored => rows'[to] = [canvas |-> save.canvas, source |-> save.source]
    BY <1>2, <1>3 DEF EditorInv, EditorTypes
  <1>6. save.canvas # Empty /\ Saving
    BY <1>1 DEF EditorInv, Stored, Saving
  <1>7. stored => rows'[to].canvas = save.canvas /\ rows'[to].source = save.source /\ rows'[to] # NoRow
    BY <1>5, <1>6 DEF NoRow
  <1>8. EditorTypes'
    <2>1. rows' = [i \in Ids |-> [canvas |-> rows'[i].canvas, source |-> rows'[i].source]]
      BY <1>2, <1>3 DEF EditorInv, EditorTypes
    <2> QED
      BY <1>1, <1>4, <2>1 DEF EditorInv, EditorTypes
  <1>9. \A i \in Ids : ~Free(i) => ~(Free(i)') /\ (rows'[i] = rows[i] \/ (stored /\ i = to))
    BY <1>5, <1>7 DEF Free
  <1>10. Stored'
    <2>1. {lastSavedId, route, going} \subseteq Ids \union {Nothing}
      BY DEF EditorInv, EditorTypes
    <2> QED
      BY <1>1, <1>2, <1>4, <1>5, <1>6, <1>7, <1>9, <2>1 DEF EditorInv, Stored, Free, Saving
  <1>11. Matched'
    <2> SUFFICES ASSUME Orderly'
                 PROVE  Matched'
      BY DEF Matched
    <2>1. /\ Orderly /\ Matched /\ Saving'
      BY <1>1, <1>4 DEF EditorInv, Orderly, Saving
    <2>2. save.canvas = canvas /\ (save.new <=> lastSavedId = Nothing) /\ Shown
          /\ (~save.new => save.id = lastSavedId)
      BY <1>6, <2>1 DEF Matched
    <2>3. ExecuteRunsCanvas'
      <3>1. lastSavedId \in Ids \union {Nothing}
        BY DEF EditorInv, EditorTypes
      <3>2. lastSavedId # Nothing => rows'[lastSavedId] = rows[lastSavedId]
                                       \/ rows'[lastSavedId].canvas = canvas
        BY <1>5, <1>7, <2>2, <3>1
      <3> QED
        BY <1>1, <2>1, <3>2 DEF Matched, ExecuteRunsCanvas, CanExecute, Shown
    <2>4. save'.st = "done" /\ save'.new => cache[save'.id] = Empty
      BY <1>2, <1>4 DEF EditorInv, Stored
    <2> QED
      BY <1>1, <1>2, <1>4, <1>7, <2>1, <2>2, <2>3, <2>4 DEF Matched, Shown, Saving
  <1>12. Drafted'
    BY <1>1, <1>4, <1>5, <1>6, <1>7 DEF EditorInv, Drafted, Saving
  <1> QED
    BY <1>8, <1>10, <1>11, <1>12 DEF EditorInv

LEMMA SaveFailsKeeps ==
  ASSUME EditorInv, SaveFails
  PROVE  EditorInv'
  <1>1. /\ rows' = rows /\ cache' = cache /\ fetch' = fetch /\ route' = route /\ going' = going /\ did' = did
        /\ loading' = loading /\ lastSavedId' = lastSavedId /\ dirty' = dirty /\ source' = source
        /\ canvas' = canvas /\ save' = NoSave
    BY DEF SaveFails, chatVars
  <1>2. save'.st = "none"
    BY <1>1 DEF NoSave
  <1>3. EditorTypes'
    BY <1>1 DEF EditorInv, EditorTypes, NoSave
  <1>4. Stored'
    BY <1>1, <1>2 DEF EditorInv, Stored, Free, Saving
  <1>5. Matched' /\ Drafted'
    BY <1>1, <1>2 DEF EditorInv, Matched, Drafted, Orderly, ExecuteRunsCanvas, CanExecute, Shown, Saving
  <1> QED
    BY <1>3, <1>4, <1>5 DEF EditorInv

LEMMA SavedKeeps ==
  ASSUME EditorInv, Saved
  PROVE  EditorInv'
  <1>1. /\ rows' = rows /\ cache' = cache /\ canvas' = canvas /\ save' = NoSave
        /\ route' = route /\ loading' = loading /\ fetch' = fetch /\ did' = did
        /\ dirty' = FALSE /\ source' = "user_edit" /\ lastSavedId' = save.id
        /\ save.st = "done" /\ save.id \in Ids /\ ~Free(save.id) /\ Saving
    BY DEF Saved, EditorInv, Stored, Saving, chatVars
  <1>2. /\ save.new => going' = save.id
        /\ ~save.new => going' = going
        /\ save.new \in BOOLEAN
    BY DEF Saved, EditorInv, EditorTypes
  <1>4. save'.st = "none"
    BY <1>1 DEF NoSave
  <1>5. EditorTypes'
    BY <1>1, <1>2 DEF EditorInv, EditorTypes, NoSave
  <1>6. Stored'
    BY <1>1, <1>2, <1>4 DEF EditorInv, Stored, EditorTypes, Free, Saving
  <1>7. Matched'
    <2> SUFFICES ASSUME Orderly'
                 PROVE  Matched'
      BY DEF Matched
    <2>1. Orderly /\ Matched /\ save.new \in BOOLEAN
      BY <1>1, <1>2 DEF EditorInv, Orderly
    <2>2. /\ save.canvas = canvas /\ rows[save.id].canvas = canvas /\ Shown
          /\ lastSavedId = (IF going = Nothing THEN route ELSE going)
          /\ (save.new <=> lastSavedId = Nothing) /\ (~save.new => save.id = lastSavedId)
          /\ (save.new => cache[save.id] = Empty)
          /\ (going # Nothing => route = Nothing /\ cache[going] = Empty)
      BY <1>1, <2>1 DEF Matched
    <2>3. CASE save.new
      <3>1. save.id # Nothing
        BY <1>1, EditorAssumption DEF Nothing
      <3> QED
        BY <1>1, <1>2, <1>4, <2>2, <2>3, <3>1 DEF Matched, ExecuteRunsCanvas, CanExecute, Shown, Saving
    <2>4. CASE ~save.new
      BY <1>1, <1>2, <1>4, <2>2, <2>4 DEF Matched, ExecuteRunsCanvas, CanExecute, Shown, Saving
    <2> QED
      BY <2>1, <2>3, <2>4
  <1>8. Drafted'
    BY <1>1, <1>4 DEF EditorInv, Drafted, Saving
  <1> QED
    BY <1>5, <1>6, <1>7, <1>8 DEF EditorInv

(* A workflow is put on the canvas, or waited for: what of it is not as it *)
(* was saved is noted.                                                     *)
LEMMA EnterKeeps ==
  ASSUME EditorInv, NEW r \in Ids, ~Free(r), Enter(r), UNCHANGED <<rows, cache, save>>
  PROVE  EditorInv'
  <1>0. rows' = rows /\ cache' = cache /\ save' = save /\ going' = Nothing
    BY DEF Enter
  <1> DEFINE seen == IF cache[r] = Empty THEN {} ELSE Stale(r, cache[r])
  <1>1. /\ rows[r] # NoRow /\ r \in Ids /\ Show(r, cache[r])
        /\ Unmount(Noted((IF Saving THEN {"leave"} ELSE {}) \union seen))
    BY DEF Enter, Free
  <1>2. /\ cache[r] = Empty => UNCHANGED <<canvas, dirty, lastSavedId, source>>
        /\ cache[r] # Empty => /\ canvas' = cache[r] /\ dirty' = FALSE /\ lastSavedId' = r
                               /\ source' = source
    BY DEF Enter, Load
  <1>3. did \subseteq did' /\ ("undo" \notin did' => (IF Saving THEN {"leave"} ELSE {}) \union seen \subseteq did')
    <2> HIDE DEF seen
    <2> QED
      BY <1>1, UnmountAdds
  <1>4. /\ route' = r /\ loading' = (cache[r] = Empty)
        /\ fetch' \in {NoFetch, [st |-> "sent", canvas |-> Empty]}
        /\ cache[r] = Empty => fetch'.st = "sent"
    BY <1>1 DEF Show
  <1>5. fetch' = [st |-> fetch'.st, canvas |-> fetch'.canvas] /\ fetch'.st \in {"none", "sent"}
    BY <1>4 DEF NoFetch
  <1>6. EditorTypes'
    BY <1>0, <1>1, <1>2, <1>4, <1>5 DEF EditorInv, EditorTypes
  <1>7. Stored'
    BY <1>0, <1>1, <1>4, <1>5 DEF EditorInv, Stored, Free, Saving
  <1>8. Matched'
    <2> SUFFICES ASSUME Orderly'
                 PROVE  Matched'
      BY DEF Matched
    <2>1. Orderly /\ ~Saving /\ "revisit" \notin seen
      BY <1>3 DEF Orderly
    <2>2. CASE cache[r] = Empty
      BY <1>0, <1>1, <1>2, <1>4, <2>1, <2>2 DEF Matched, ExecuteRunsCanvas, CanExecute, Shown, Saving
    <2>3. CASE cache[r] # Empty
      <3>1. rows[r].canvas = cache[r]
        BY <2>1, <2>3 DEF Stale
      <3> QED
        BY <1>0, <1>1, <1>2, <1>4, <2>1, <2>3, <3>1
           DEF Matched, ExecuteRunsCanvas, CanExecute, Shown, Saving
    <2> QED
      BY <2>2, <2>3
  <1>9. Drafted'
    <2> SUFFICES ASSUME did' \intersect {"undo", "switch"} = {}
                 PROVE  Drafted'
      BY DEF Drafted
    <2>1. did \intersect {"undo", "switch"} = {} /\ "switch" \notin seen
      BY <1>3
    <2>2. CASE cache[r] = Empty
      BY <1>0, <1>2, <2>1, <2>2 DEF EditorInv, Drafted, Saving
    <2>3. CASE cache[r] # Empty
      <3>1. source # "ai_draft"
        BY <2>1, <2>3 DEF Stale
      <3> QED
        BY <1>0, <1>2, <2>1, <2>3, <3>1 DEF EditorInv, Drafted, Saving
    <2> QED
      BY <2>2, <2>3
  <1> QED
    BY <1>6, <1>7, <1>8, <1>9 DEF EditorInv

LEMMA GoKeeps ==
  ASSUME EditorInv, NEW r \in Ids \union {Nothing}, Go(r)
  PROVE  EditorInv'
  <1>1. rows' = rows /\ cache' = cache /\ save' = save /\ Shown /\ r # route
    BY DEF Go
  <1>2. CASE r = Nothing
    <2>1. /\ route' = r /\ going' = Nothing /\ loading' = FALSE /\ fetch' = NoFetch
          /\ canvas' = Empty /\ dirty' = FALSE /\ lastSavedId' = Nothing /\ source' = "user_edit"
          /\ Unmount(Noted(IF Saving THEN {"leave"} ELSE {}))
      BY <1>2 DEF Go
    <2>2. did \subseteq did' /\ ("undo" \notin did' /\ Saving => "leave" \in did')
      BY <2>1, UnmountAdds
    <2>3. fetch'.st = "none" /\ fetch'.canvas = Empty
      BY <2>1 DEF NoFetch
    <2>4. EditorTypes'
      BY <1>1, <1>2, <2>1 DEF EditorInv, EditorTypes, NoFetch
    <2>5. Stored'
      BY <1>1, <2>1, <2>3 DEF EditorInv, Stored, Free, Saving
    <2>6. Matched'
      BY <1>1, <1>2, <2>1, <2>2 DEF Matched, Orderly, ExecuteRunsCanvas, CanExecute, Shown, Saving
    <2>7. Drafted'
      BY <1>1, <2>1, <2>2 DEF EditorInv, Drafted, Saving
    <2> QED
      BY <2>4, <2>5, <2>6, <2>7 DEF EditorInv
  <1>3. CASE r # Nothing
    <2>1. r \in Ids /\ ~Free(r) /\ Enter(r)
      BY <1>3 DEF Go, Free
    <2> QED
      BY <1>1, <2>1, EnterKeeps
  <1> QED
    BY <1>2, <1>3

LEMMA AnswerKeeps ==
  ASSUME EditorInv, Answer
  PROVE  EditorInv'
  <1>1. /\ rows' = rows /\ cache' = cache /\ save' = save /\ route' = route /\ going' = going /\ did' = did
        /\ loading' = loading /\ lastSavedId' = lastSavedId /\ dirty' = dirty /\ source' = source
        /\ canvas' = canvas /\ fetch.st = "sent"
        /\ fetch' = [st |-> "answered", canvas |-> rows[route].canvas]
    BY DEF Answer, chatVars
  <1>2. EditorTypes'
    BY <1>1 DEF EditorInv, EditorTypes
  <1>3. fetch'.st = "answered" /\ fetch'.canvas = rows[route].canvas
    BY <1>1
  <1>4. Stored'
    BY <1>1, <1>3 DEF EditorInv, Stored, Free, Saving
  <1>5. Matched' /\ Drafted'
    BY <1>1, <1>3 DEF EditorInv, Matched, Drafted, Orderly, ExecuteRunsCanvas, CanExecute, Shown, Saving
  <1> QED
    BY <1>2, <1>4, <1>5 DEF EditorInv

LEMMA FetchedKeeps ==
  ASSUME EditorInv, Fetched
  PROVE  EditorInv'
  <1>1. /\ rows' = rows /\ save' = save /\ route' = route /\ going' = going /\ loading' = FALSE
        /\ fetch' = NoFetch /\ fetch.st = "answered" /\ fetch.canvas # Empty
        /\ route \in Ids /\ ~Free(route)
        /\ cache' = [cache EXCEPT ![route] = fetch.canvas]
    BY DEF Fetched, EditorInv, Stored
  <1>2. fetch'.st = "none"
    BY <1>1 DEF NoFetch
  <1>3. cache'[route] = fetch.canvas /\ \A i \in Ids : i # route => cache'[i] = cache[i]
    BY <1>1 DEF EditorInv, EditorTypes
  <1>4. Stored'
    BY <1>1, <1>2, <1>3 DEF EditorInv, Stored, Free, Saving
  <1>5. \/ /\ cache[route] = fetch.canvas /\ did' = did
           /\ UNCHANGED <<canvas, dirty, lastSavedId, source>>
        \/ /\ canvas' = fetch.canvas /\ dirty' = FALSE /\ lastSavedId' = route /\ source' = source
           /\ Note(Stale(route, fetch.canvas) \union Overlap)
    BY DEF Fetched, Load, chatVars
  <1>6. EditorTypes'
    BY <1>1, <1>3, <1>5 DEF EditorInv, EditorTypes, NoFetch
  <1>7. CASE cache[route] = fetch.canvas /\ did' = did
               /\ UNCHANGED <<canvas, dirty, lastSavedId, source>>
    <2>1. Matched'
      <3> SUFFICES ASSUME Orderly'
                   PROVE  Matched'
        BY DEF Matched
      <3>1. Orderly /\ Matched
        BY <1>7 DEF EditorInv, Orderly
      <3>2. ~loading /\ (save.st = "done" /\ save.new => save.id # route)
        BY <1>1, <1>7, <3>1 DEF Matched
      <3>3. save.st = "done" => save.id \in Ids
        BY DEF EditorInv, Stored
      <3>4. \A i \in Ids : cache'[i] = cache[i]
        BY <1>3, <1>7
      <3>5. going = Nothing
        <4>1. route # Nothing
          BY <1>1, EditorAssumption DEF Nothing
        <4> QED
          BY <3>1, <4>1 DEF Matched
      <3> QED
        BY <1>1, <1>2, <1>7, <3>1, <3>2, <3>3, <3>4, <3>5
           DEF Matched, ExecuteRunsCanvas, CanExecute, Shown, Saving
    <2>2. Drafted'
      BY <1>1, <1>7 DEF EditorInv, Drafted, Saving
    <2> QED
      BY <1>4, <1>6, <2>1, <2>2 DEF EditorInv
  <1>8. CASE /\ canvas' = fetch.canvas /\ dirty' = FALSE /\ lastSavedId' = route /\ source' = source
             /\ Note(Stale(route, fetch.canvas) \union Overlap)
    <2>1. did \subseteq did' /\ ("undo" \notin did' => Stale(route, fetch.canvas) \union Overlap \subseteq did')
      BY <1>8, NoteAdds
    <2>2. Matched'
      <3> SUFFICES ASSUME Orderly'
                   PROVE  Matched'
        BY DEF Matched
      <3>1. Orderly /\ Matched
        BY <2>1 DEF EditorInv, Orderly
      <3>2. ~Saving /\ rows[route].canvas = fetch.canvas
        BY <2>1 DEF Orderly, Stale, Overlap
      <3>3. going = Nothing
        <4>1. route # Nothing
          BY <1>1, EditorAssumption DEF Nothing
        <4> QED
          BY <3>1, <4>1 DEF Matched
      <3> QED
        BY <1>1, <1>2, <1>8, <3>2, <3>3 DEF Matched, ExecuteRunsCanvas, CanExecute, Shown, Saving
    <2>3. Drafted'
      <3> SUFFICES ASSUME did' \intersect {"undo", "switch"} = {}
                   PROVE  Drafted'
        BY DEF Drafted
      <3>1. source # "ai_draft" /\ did \intersect {"undo", "switch"} = {}
        BY <2>1 DEF Stale
      <3> QED
        BY <1>1, <1>8, <3>1 DEF EditorInv, Drafted, Saving
    <2> QED
      BY <1>4, <1>6, <2>2, <2>3 DEF EditorInv
  <1> QED
    BY <1>5, <1>7, <1>8

LEMMA EditorKeeps == EditorInv /\ [EditorNext]_<<chatVars, editorVars>> => EditorInv'
  <1> SUFFICES ASSUME EditorInv, [EditorNext]_<<chatVars, editorVars>>
               PROVE  EditorInv'
    OBVIOUS
  <1>1. ASSUME NEW c \in Drawn, Edit(c)
        PROVE  EditorInv'
    BY <1>1, EditKeeps DEF Edit
  <1>2. ASSUME Apply
        PROVE  EditorInv'
    BY <1>2, EditKeeps DEF Apply
  <1>3. ASSUME Save \/ Store \/ SaveFails \/ Saved
        PROVE  EditorInv'
    BY <1>3, SaveKeeps, StoreKeeps, SaveFailsKeeps, SavedKeeps
  <1>5. ASSUME Replaced
        PROVE  EditorInv'
    BY <1>5, EnterKeeps DEF Replaced, EditorInv, EditorTypes, Stored
  <1>4. ASSUME Answer \/ Fetched
        PROVE  EditorInv'
    BY <1>4, AnswerKeeps, FetchedKeeps
  <1> QED
    BY <1>1, <1>2, <1>3, <1>4, <1>5, ChatKeeps, GoKeeps DEF EditorNext

(* What Execute runs is what the user sees, as long as the user does not   *)
(* undo, change the canvas or leave while a save is under way, or come     *)
(* back to a workflow whose cached copy is older than the last save        *)
(* (toolbar.tsx:45-117, editor.tsx:23-35).                                 *)
THEOREM SavedIsShown == EditorSpec => []ShownIsSaved
  <1>1. EditorInv => ShownIsSaved
    BY DEF EditorInv, Matched, Orderly, ShownIsSaved
  <1> QED
    BY <1>1, EditorBegins, EditorKeeps, PTL DEF EditorSpec

(* A revision recorded as the composer's is what the composer drew, as     *)
(* long as the user does not undo or open another workflow with a draft    *)
(* unsaved (editor-store.ts:42-47, toolbar.tsx:45-56).                     *)
THEOREM DraftsAreHonest == EditorSpec => []DraftHonest
  <1>1. EditorInv => DraftHonest
    BY DEF EditorInv, Drafted, DraftHonest
  <1> QED
    BY <1>1, EditorBegins, EditorKeeps, PTL DEF EditorSpec

-----------------------------------------------------------------------------
(* The wizard's data. *)
LEMMA CallHasType ==
  ASSUME WizardTypes, NEW kind \in Waited \union Decisions, NEW turn \in Questions, NEW skill \in Nat
  PROVE  /\ Call(kind, turn, skill) \in CallSet
         /\ Call(kind, turn, skill).kind = kind /\ Call(kind, turn, skill).st = "sent"
         /\ Call(kind, turn, skill).heard /\ Call(kind, turn, skill).session = session
         /\ Call(kind, turn, skill).turn = turn /\ Call(kind, turn, skill).skill = skill
  <1>1. <<>> \in Seq(Questions)
    OBVIOUS
  <1> QED
    BY <1>1 DEF WizardTypes, Call, CallSet

LEMMA NoTurnHasType == NoTurn \in Questions
BY DEF NoTurn, Turn, Questions

LEMMA FieldsOfCall ==
  ASSUME NEW c \in CallSet
  PROVE  /\ c.kind \in Waited \union Decisions /\ c.heard \in BOOLEAN /\ c.ok \in BOOLEAN
         /\ c.st \in {"sent", "checked", "done"} /\ c.session \in Nat /\ c.turn \in Questions
         /\ c.skill \in Nat /\ c.gaps \in Seq(Questions) /\ c.domain \in Domains \union {Other}
         /\ c.some \in BOOLEAN /\ c.unclear \in BOOLEAN /\ c.n \in Nat
BY DEF CallSet

LEMMA FieldsOfRow ==
  ASSUME NEW s \in SkillSet
  PROVE  s.session \in Nat /\ s.turn \in Questions /\ s.status \in {"pending_review", "active", "rejected"}
BY DEF SkillSet

LEMMA FieldsOfCard ==
  ASSUME NEW d \in CardSet
  PROVE  /\ d.skill \in Nat /\ d.turn \in Questions /\ d.unclear \in BOOLEAN /\ d.followUpAsked \in BOOLEAN
         /\ d.status \in {"pending", "deciding", "failed", "active", "rejected"}
BY DEF CardSet

LEMMA StatusOfCards ==
  ASSUME WizardTypes, NEW k, NEW how \in {"deciding", "failed", "active", "rejected"},
         drafts' = WithStatus(k, how)
  PROVE  /\ drafts' \in Seq(CardSet) /\ Len(drafts') = Len(drafts) /\ DOMAIN drafts' = DOMAIN drafts
         /\ \A i \in DOMAIN drafts :
              /\ drafts'[i].skill = drafts[i].skill /\ drafts'[i].turn = drafts[i].turn
              /\ drafts'[i].status = IF drafts[i].skill = k THEN how ELSE drafts[i].status
  <1>1. /\ \A i \in DOMAIN drafts : drafts[i] \in CardSet
        /\ Len(drafts) \in Nat /\ DOMAIN drafts = 1..Len(drafts)
    BY DEF WizardTypes
  <1>2. DOMAIN drafts' = DOMAIN drafts
    BY DEF WithStatus
  <1>3. ASSUME NEW i \in DOMAIN drafts
        PROVE  /\ drafts'[i] \in CardSet
               /\ drafts'[i].skill = drafts[i].skill /\ drafts'[i].turn = drafts[i].turn
               /\ drafts'[i].status = IF drafts[i].skill = k THEN how ELSE drafts[i].status
    <2>1. drafts[i] \in CardSet
      BY <1>1
    <2>2. drafts'[i] = IF drafts[i].skill = k THEN [drafts[i] EXCEPT !.status = how] ELSE drafts[i]
      BY DEF WithStatus
    <2> QED
      BY <2>1, <2>2 DEF CardSet
  <1>4. drafts' \in [1..Len(drafts) -> CardSet]
    BY <1>1, <1>2, <1>3 DEF WithStatus
  <1>5. drafts' \in Seq(CardSet) /\ Len(drafts') = Len(drafts)
    BY <1>1, <1>4
  <1> QED
    BY <1>2, <1>3, <1>5

-----------------------------------------------------------------------------
(* Calls are over, or none changes; a card is as it was but for its        *)
(* status, or is made of the answer that has come.                         *)
LEMMA LessIsKept ==
  ASSUME WizardInv, calls' \subseteq calls, skills' = skills, mishaps \subseteq mishaps',
         \A j \in DOMAIN drafts' :
           \/ \E i \in DOMAIN drafts :
                /\ drafts'[j].skill = drafts[i].skill /\ drafts'[j].turn = drafts[i].turn
                /\ \/ drafts'[j].status = drafts[i].status
                   \/ "abandoned" \in mishaps'
                   \/ \A d \in calls' : Decides(d) => d.skill # drafts[i].skill
           \/ \E c \in calls \ calls' :
                Written(c) /\ drafts'[j].skill = c.skill /\ drafts'[j].turn = c.turn
  PROVE  Rows' /\ Apart' /\ OneDecision'
  <1>1. Rows /\ Apart /\ OneDecision
    BY DEF WizardInv
  <1>2. ASSUME NEW j \in DOMAIN drafts'
        PROVE  /\ drafts'[j].skill \in DOMAIN skills /\ skills[drafts'[j].skill].turn = drafts'[j].turn
               /\ \A c \in calls' : Written(c) => drafts'[j].skill # c.skill
               /\ "abandoned" \notin mishaps' =>
                    \A c \in calls' : Decides(c) /\ drafts'[j].skill = c.skill => drafts'[j].status = "deciding"
    <2>1. CASE \E i \in DOMAIN drafts :
                /\ drafts'[j].skill = drafts[i].skill /\ drafts'[j].turn = drafts[i].turn
                /\ \/ drafts'[j].status = drafts[i].status
                   \/ "abandoned" \in mishaps'
                   \/ \A d \in calls' : Decides(d) => d.skill # drafts[i].skill
      <3>1. PICK i \in DOMAIN drafts :
                /\ drafts'[j].skill = drafts[i].skill /\ drafts'[j].turn = drafts[i].turn
                /\ \/ drafts'[j].status = drafts[i].status
                   \/ "abandoned" \in mishaps'
                   \/ \A d \in calls' : Decides(d) => d.skill # drafts[i].skill
        BY <2>1
      <3>2. /\ drafts'[j].skill \in DOMAIN skills /\ skills[drafts'[j].skill].turn = drafts'[j].turn
            /\ \A c \in calls' : Written(c) => drafts'[j].skill # c.skill
        BY <1>1, <3>1 DEF Rows, Apart
      <3>3. ASSUME "abandoned" \notin mishaps', NEW c \in calls', Decides(c), drafts'[j].skill = c.skill
            PROVE  drafts'[j].status = "deciding"
        BY <1>1, <3>1, <3>3 DEF OneDecision
      <3> QED
        BY <3>2, <3>3
    <2>2. CASE \E c \in calls \ calls' :
                 Written(c) /\ drafts'[j].skill = c.skill /\ drafts'[j].turn = c.turn
      <3>1. PICK c \in calls \ calls' :
                 Written(c) /\ drafts'[j].skill = c.skill /\ drafts'[j].turn = c.turn
        BY <2>2
      <3>2. c.skill \in DOMAIN skills /\ skills[c.skill].turn = c.turn
        BY <1>1, <3>1 DEF Rows
      <3>3. \A d \in calls' : Written(d) => c.skill # d.skill
        BY <1>1, <3>1 DEF Apart
      <3>4. \A d \in calls' : Decides(d) => c.skill # d.skill
        BY <1>1, <3>1 DEF Apart
      <3> QED
        BY <3>1, <3>2, <3>3, <3>4
    <2> QED
      BY <2>1, <2>2
  <1>3. Rows'
    BY <1>1, <1>2 DEF Rows, Written, Decides
  <1>4. Apart'
    <2>1. \A c, d \in calls' : Written(c) /\ Written(d) /\ c.skill = d.skill => c = d
      BY <1>1 DEF Apart
    <2>2. \A c, d \in calls' : Written(c) /\ Decides(d) => c.skill # d.skill
      BY <1>1 DEF Apart
    <2> QED
      BY <1>2, <2>1, <2>2 DEF Apart, Written, Decides
  <1>5. OneDecision'
    <2> SUFFICES ASSUME "abandoned" \notin mishaps'
                 PROVE  OneDecision'
      BY DEF OneDecision
    <2>1. \A c, d \in calls' : Decides(c) /\ Decides(d) /\ c.skill = d.skill => c = d
      BY <1>1 DEF OneDecision
    <2>2. \A c \in calls' : c.st = "checked" => skills'[c.skill].status = "pending_review"
      BY <1>1 DEF OneDecision
    <2> QED
      BY <1>2, <2>1, <2>2 DEF OneDecision, Decides
  <1> QED
    BY <1>3, <1>4, <1>5

(* A new call: a decision on a card that is free, or one that is waited    *)
(* for.                                                                    *)
LEMMA PostKeeps ==
  ASSUME WizardInv, NEW d \in CallSet, calls' = calls \union {d}, skills' = skills, mishaps' = mishaps,
         d.st = "sent", DOMAIN drafts' = DOMAIN drafts,
         \A i \in DOMAIN drafts : drafts'[i].skill = drafts[i].skill /\ drafts'[i].turn = drafts[i].turn,
         \/ ~Decides(d) /\ \A i \in DOMAIN drafts : drafts'[i].status = drafts[i].status
         \/ /\ Decides(d) /\ \A i \in DOMAIN drafts : drafts'[i].status =
                               IF drafts[i].skill = d.skill THEN "deciding" ELSE drafts[i].status
            /\ \E i \in DOMAIN drafts : drafts[i].skill = d.skill /\ drafts[i].status # "deciding"
  PROVE  Rows' /\ Apart' /\ OneDecision'
  <1>1. Rows /\ Apart /\ OneDecision
    BY DEF WizardInv
  <1>2. ~Written(d) /\ d.st # "checked"
    BY DEF Written
  <1>3. Decides(d) => d.skill \in DOMAIN skills
    BY <1>1 DEF Rows
  <1>4. Rows'
    BY <1>1, <1>2, <1>3 DEF Rows, Written, Decides
  <1>5. Apart'
    <2>1. \A c \in calls : Written(c) => c.skill # d.skill \/ ~Decides(d)
      BY <1>1 DEF Apart
    <2> QED
      BY <1>1, <1>2, <2>1 DEF Apart, Written, Decides
  <1>6. OneDecision'
    <2> SUFFICES ASSUME "abandoned" \notin mishaps
                 PROVE  OneDecision'
      BY DEF OneDecision
    <2>1. Decides(d) => \A c \in calls : Decides(c) => c.skill # d.skill
      BY <1>1 DEF OneDecision
    <2>2. \A c, e \in calls' : Decides(c) /\ Decides(e) /\ c.skill = e.skill => c = e
      BY <1>1, <2>1 DEF OneDecision
    <2>3. ASSUME NEW c \in calls', NEW i \in DOMAIN drafts, Decides(c), drafts[i].skill = c.skill
          PROVE  drafts'[i].status = "deciding"
      <3>1. CASE c = d
        BY <2>3, <3>1
      <3>2. CASE c # d
        BY <1>1, <2>3, <3>2 DEF OneDecision
      <3> QED
        BY <3>1, <3>2
    <2>4. \A c \in calls' : c.st = "checked" => skills[c.skill].status = "pending_review"
      BY <1>1, <1>2 DEF OneDecision
    <2> QED
      BY <2>2, <2>3, <2>4 DEF OneDecision, Decides
  <1> QED
    BY <1>4, <1>5, <1>6

(* A call goes on and has written nothing. *)
LEMMA CallAdvances ==
  ASSUME WizardInv, NEW c \in calls, NEW d \in CallSet, Becomes(c, d),
         UNCHANGED <<store, asked, sessions, skills, mishaps>>,
         d.kind = c.kind, d.heard = c.heard, d.session = c.session, d.turn = c.turn, d.skill = c.skill,
         ~Written(d),
         d.st = "checked" =>
           Decides(d) /\ ("abandoned" \notin mishaps => skills[c.skill].status = "pending_review")
  PROVE  WizardInv'
  <1>1. /\ phase' = phase /\ session' = session /\ domain' = domain /\ queue' = queue /\ index' = index
        /\ drafts' = drafts /\ selected' = selected /\ asked' = asked /\ sessions' = sessions
        /\ skills' = skills /\ mishaps' = mishaps /\ calls' = (calls \ {c}) \union {d}
    BY DEF store, Becomes
  <1>2. Rows /\ Apart /\ OneDecision /\ InOrder /\ WizardTypes
    BY DEF WizardInv
  <1>3. WizardTypes'
    BY <1>1, <1>2 DEF WizardTypes
  <1>4. Decides(d) <=> Decides(c)
    BY DEF Decides
  <1>5. Rows'
    BY <1>1, <1>2, <1>4 DEF Rows, Written, Decides
  <1>6. Apart'
    BY <1>1, <1>2, <1>4 DEF Apart, Written, Decides
  <1>7. OneDecision'
    <2> SUFFICES ASSUME "abandoned" \notin mishaps
                 PROVE  OneDecision'
      BY <1>1 DEF OneDecision
    <2>1. \A e, f \in calls' : Decides(e) /\ Decides(f) /\ e.skill = f.skill => e = f
      BY <1>1, <1>2, <1>4 DEF OneDecision
    <2>2. \A e \in calls' : \A i \in DOMAIN drafts :
            Decides(e) /\ drafts[i].skill = e.skill => drafts[i].status = "deciding"
      BY <1>1, <1>2, <1>4 DEF OneDecision
    <2>3. \A e \in calls' : e.st = "checked" => skills[e.skill].status = "pending_review"
      BY <1>1, <1>2 DEF OneDecision
    <2> QED
      BY <1>1, <2>1, <2>2, <2>3 DEF OneDecision, Decides
  <1>8. InOrder'
    <2> SUFFICES ASSUME "late" \notin mishaps
                 PROVE  InOrder'
      BY <1>1 DEF InOrder
    <2>1. Owed(d) <=> Owed(c)
      BY DEF Owed
    <2>2. \A e, f \in calls' : Owed(e) /\ Owed(f) => e = f
      BY <1>1, <1>2, <2>1 DEF InOrder
    <2>3. Answered' <=> Answered
      BY <1>1 DEF Answered
    <2>4. ASSUME NEW e \in calls', Owed(e)
          PROVE  /\ phase = IF e.kind = "extract" THEN "extracting" ELSE "loading"
                 /\ e.session = session
                 /\ e.kind = "answers" => Answered /\ index <= Len(queue) /\ e.turn = queue[index]
      <3>1. CASE e = d
        <4>1. Owed(c)
          BY <2>1, <2>4, <3>1
        <4> QED
          BY <1>2, <3>1, <4>1 DEF InOrder
      <3>2. CASE e # d
        BY <1>1, <1>2, <2>4, <3>2 DEF InOrder
      <3> QED
        BY <3>1, <3>2
    <2> QED
      BY <1>1, <1>2, <2>2, <2>3, <2>4 DEF InOrder, Owed
  <1> QED
    BY <1>3, <1>5, <1>6, <1>7, <1>8 DEF WizardInv

-----------------------------------------------------------------------------
LEMMA WizardBegins ==
  ASSUME WizardInit
  PROVE  WizardInv
  <1>1. <<>> \in Seq(Questions) /\ <<>> \in Seq(CardSet) /\ <<>> \in Seq(SkillSet)
    OBVIOUS
  <1>2. WizardTypes
    <2>1. selected \in BOOLEAN
      BY DEF WizardInit
    <2>2. /\ queue \in Seq(Questions) /\ drafts \in Seq(CardSet) /\ skills \in Seq(SkillSet)
          /\ calls \subseteq CallSet /\ index = 1 /\ asked = 0 /\ sessions = 0 /\ session = 0
          /\ domain \in Domains \union {Other}
      BY <1>1 DEF WizardInit, NoSession
    <2> QED
      BY <2>1, <2>2 DEF WizardTypes
  <1>3. Rows /\ Apart /\ OneDecision
    BY DEF WizardInit, Rows, Apart, OneDecision
  <1>4. InOrder
    BY DEF WizardInit, InOrder
  <1> QED
    BY <1>2, <1>3, <1>4 DEF WizardInv

(* What the user does that posts no call. *)
LEMMA PageKeeps ==
  ASSUME WizardInv, PickDomain \/ ToggleCandidate \/ BackToDocChoice \/ Reset
  PROVE  WizardInv'
  <1>1. /\ calls' = calls /\ skills' = skills /\ asked' = asked
        /\ mishaps \subseteq mishaps'
        /\ drafts' \in {drafts, <<>>}
    BY DEF PickDomain, ToggleCandidate, BackToDocChoice, Reset
  <1>2. WizardTypes'
    <2>1. <<>> \in Seq(Questions) /\ <<>> \in Seq(CardSet)
      OBVIOUS
    <2>2. WizardTypes
      BY DEF WizardInv
    <2>3. selected' \in BOOLEAN
      BY <2>2 DEF WizardTypes, PickDomain, ToggleCandidate, BackToDocChoice, Reset
    <2>4. /\ queue' \in {queue, <<>>} /\ index' \in {index, 1} /\ domain' \in Domains \union {Other}
          /\ sessions' \in {sessions, sessions + 1} /\ session' \in {session, 0, sessions + 1}
      BY <2>2 DEF WizardTypes, PickDomain, ToggleCandidate, BackToDocChoice, Reset, NoSession
    <2>5. queue' \in Seq(Questions) /\ drafts' \in Seq(CardSet)
      BY <1>1, <2>1, <2>2, <2>4 DEF WizardTypes
    <2>6. index' \in Nat \ {0} /\ sessions' \in Nat /\ session' \in Nat
      BY <2>2, <2>4 DEF WizardTypes
    <2> QED
      BY <1>1, <2>2, <2>3, <2>4, <2>5, <2>6 DEF WizardTypes
  <1>3. Rows' /\ Apart' /\ OneDecision'
    BY <1>1, LessIsKept
  <1>4. InOrder'
    <2> SUFFICES ASSUME "late" \notin mishaps'
                 PROVE  InOrder'
      BY DEF InOrder
    <2>1. "late" \notin mishaps /\ InOrder
      BY <1>1 DEF WizardInv
    <2>2. \A c \in calls : ~Owed(c)
      <3>1. CASE Reset
        BY <3>1 DEF Reset, Owed, Waited
      <3>2. CASE PickDomain \/ ToggleCandidate \/ BackToDocChoice
        <4>1. phase \in {"domain", "extract-review"}
          BY <3>2 DEF PickDomain, ToggleCandidate, BackToDocChoice, Offers, Shows, DocChoice, ExtractReview
        <4> QED
          BY <2>1, <4>1 DEF InOrder
      <3> QED
        BY <3>1, <3>2
    <2>3. phase' \notin {"asking", "done"}
      BY DEF PickDomain, ToggleCandidate, BackToDocChoice, Reset, Offers, Shows, DocChoice, ExtractReview
    <2> QED
      BY <1>1, <2>2, <2>3 DEF InOrder, Owed
  <1> QED
    BY <1>2, <1>3, <1>4 DEF WizardInv

LEMMA PushFollowUpKeeps ==
  ASSUME WizardInv, PushFollowUpQuestion
  PROVE  WizardInv'
  <1>1. /\ calls' = calls /\ skills' = skills /\ asked' = asked /\ mishaps' = mishaps
        /\ session' = session /\ domain' = domain /\ selected' = selected /\ sessions' = sessions
        /\ index' = Len(queue) + 1 /\ phase' = "asking"
    BY DEF PushFollowUpQuestion
  <1>2. PICK i \in DOMAIN drafts :
          /\ queue' = Append(queue, [drafts[i].turn EXCEPT !.followUp = TRUE])
          /\ drafts' = [drafts EXCEPT ![i].followUpAsked = TRUE]
    BY DEF PushFollowUpQuestion
  <1>3. WizardTypes /\ InOrder
    BY DEF WizardInv
  <1>4. drafts \in Seq(CardSet) /\ queue \in Seq(Questions)
    BY <1>3 DEF WizardTypes
  <1>5. drafts[i] \in CardSet /\ drafts[i].turn \in Questions
    BY <1>4, FieldsOfCard
  <1>6. [drafts[i].turn EXCEPT !.followUp = TRUE] \in Questions
    BY <1>5 DEF Questions
  <1>7. /\ queue' \in Seq(Questions) /\ Len(queue') = Len(queue) + 1 /\ Len(queue) \in Nat
        /\ \A k \in 1..Len(queue) : queue'[k] = queue[k]
    BY <1>2, <1>4, <1>6
  <1>8. [drafts[i] EXCEPT !.followUpAsked = TRUE] \in CardSet
    BY <1>5 DEF CardSet
  <1>9. drafts' \in Seq(CardSet) /\ Len(drafts') = Len(drafts) /\ DOMAIN drafts' = DOMAIN drafts
    BY <1>2, <1>4, <1>8
  <1>10. \A k \in DOMAIN drafts : /\ drafts'[k].skill = drafts[k].skill
                                  /\ drafts'[k].turn = drafts[k].turn
                                  /\ drafts'[k].status = drafts[k].status
    <2> TAKE k \in DOMAIN drafts
    <2>1. CASE k = i
      <3>1. drafts'[k] = [drafts[i] EXCEPT !.followUpAsked = TRUE]
        BY <1>2, <1>4, <2>1
      <3> QED
        BY <1>5, <2>1, <3>1 DEF CardSet
    <2>2. CASE k # i
      BY <1>2, <1>4, <2>2
    <2> QED
      BY <2>1, <2>2
  <1>11. WizardTypes'
    BY <1>1, <1>3, <1>7, <1>9 DEF WizardTypes
  <1>12. Rows' /\ Apart' /\ OneDecision'
    BY <1>1, <1>9, <1>10, LessIsKept
  <1>13. InOrder'
    <2> SUFFICES ASSUME "late" \notin mishaps
                 PROVE  InOrder'
      BY <1>1 DEF InOrder
    <2>1. phase = "done"
      BY DEF PushFollowUpQuestion, Offers, Shows, DocChoice, ExtractReview
    <2>2. Answered /\ index = Len(queue) + 1 /\ \A c \in calls : ~Owed(c)
      BY <1>3, <2>1 DEF InOrder
    <2>3. Len(drafts) = Len(queue) /\ DOMAIN drafts = 1..Len(queue)
      BY <1>4, <1>7, <2>2 DEF Answered
    <2>4. Answered' /\ index' <= Len(queue')
      BY <1>1, <1>7, <1>9, <1>10, <2>2, <2>3 DEF Answered
    <2> QED
      BY <1>1, <2>2, <2>4 DEF InOrder, Owed
  <1> QED
    BY <1>11, <1>12, <1>13 DEF WizardInv

(* A call that the page waits for from now on. *)
LEMMA OwedIsPosted ==
  ASSUME WizardInv, NEW d \in CallSet, calls' = calls \union {d}, d.st = "sent", d.kind \in Waited,
         UNCHANGED <<session, domain, queue, index, drafts, selected, sessions, skills, mishaps>>,
         asked' \in Nat, d.session = session, phase \notin {"loading", "extracting"},
         phase' = IF d.kind = "extract" THEN "extracting" ELSE "loading",
         d.kind = "answers" => phase = "asking" /\ d.turn = queue[index]
  PROVE  WizardInv'
  <1>1. /\ session' = session /\ domain' = domain /\ queue' = queue /\ index' = index
        /\ drafts' = drafts /\ selected' = selected /\ sessions' = sessions
        /\ skills' = skills /\ mishaps' = mishaps
    OBVIOUS
  <1>2. WizardTypes' /\ InOrder
    BY <1>1 DEF WizardInv, WizardTypes
  <1>3. ~Decides(d)
    BY DEF Decides, Decisions, Waited
  <1>4. Rows' /\ Apart' /\ OneDecision'
    BY <1>1, <1>3, PostKeeps
  <1>5. InOrder'
    <2> SUFFICES ASSUME "late" \notin mishaps
                 PROVE  InOrder'
      BY <1>1 DEF InOrder
    <2>1. \A c \in calls : ~Owed(c)
      BY <1>2 DEF InOrder
    <2>2. Answered' <=> Answered
      BY <1>1 DEF Answered
    <2>3. d.kind = "answers" => Answered /\ index <= Len(queue)
      BY <1>2 DEF InOrder
    <2>4. \A c \in calls' : Owed(c) => c = d
      BY <2>1
    <2> QED
      BY <1>1, <2>2, <2>3, <2>4 DEF InOrder, Owed
  <1> QED
    BY <1>2, <1>4, <1>5 DEF WizardInv

LEMMA AsksKeep ==
  ASSUME WizardInv, Extract \/ Bootstrap \/ SubmitPolicyAnswers
  PROVE  WizardInv'
  <1>1. WizardTypes /\ asked \in Nat
    BY DEF WizardInv, WizardTypes
  <1>2. CASE Extract
    <2> DEFINE d == Call("extract", NoTurn, 0)
    <2>1. d \in CallSet /\ d.kind = "extract" /\ d.st = "sent" /\ d.session = session
      BY <1>1, CallHasType, NoTurnHasType DEF Waited
    <2>2. /\ calls' = calls \union {d} /\ asked' = asked + 1 /\ phase = "doc-choice" /\ phase' = "extracting"
          /\ UNCHANGED <<session, domain, queue, index, drafts, selected, sessions, skills, mishaps>>
      BY <1>2 DEF Extract, Post, Offers, Shows, DocChoice, ExtractReview
    <2> HIDE DEF d
    <2> QED
      BY <1>1, <2>1, <2>2, OwedIsPosted DEF Waited
  <1>3. CASE Bootstrap
    <2> DEFINE base == Call("bootstrap", NoTurn, 0)
               d == [base EXCEPT !.some = (Offers("continue") /\ selected)]
    <2>1. base \in CallSet /\ base.kind = "bootstrap" /\ base.st = "sent" /\ base.session = session
      BY <1>1, CallHasType, NoTurnHasType DEF Waited
    <2>2. /\ calls' = calls \union {d} /\ asked' = asked + 1 /\ phase' = "loading"
          /\ phase \in {"doc-choice", "extract-review"}
          /\ UNCHANGED <<session, domain, queue, index, drafts, selected, sessions, skills, mishaps>>
      BY <1>3 DEF Bootstrap, Post, Offers, Shows, DocChoice, ExtractReview
    <2>3. (Offers("continue") /\ selected) \in BOOLEAN
      BY <1>1 DEF WizardTypes, Offers
    <2> HIDE DEF base
    <2>4. d \in CallSet /\ d.kind = "bootstrap" /\ d.st = "sent" /\ d.session = session
      BY <2>1, <2>3 DEF CallSet
    <2> HIDE DEF d
    <2> QED
      BY <1>1, <2>2, <2>4, OwedIsPosted DEF Waited
  <1>4. CASE SubmitPolicyAnswers
    <2> DEFINE d == Call("answers", queue[index], 0)
    <2>1. /\ calls' = calls \union {d} /\ asked' = asked + 1 /\ phase = "asking" /\ phase' = "loading"
          /\ index <= Len(queue)
          /\ UNCHANGED <<session, domain, queue, index, drafts, selected, sessions, skills, mishaps>>
      BY <1>4 DEF SubmitPolicyAnswers, Post, Offers, Shows, DocChoice, ExtractReview
    <2>2. queue[index] \in Questions
      BY <1>1, <2>1 DEF WizardTypes
    <2>3. /\ d \in CallSet /\ d.kind = "answers" /\ d.st = "sent" /\ d.session = session
          /\ d.turn = queue[index]
      BY <1>1, <2>2, CallHasType DEF Waited
    <2> HIDE DEF d
    <2> QED
      BY <1>1, <2>1, <2>3, OwedIsPosted DEF Waited
  <1> QED
    BY <1>2, <1>3, <1>4

(* The cards' turns and skills are as they were: so is what they answer. *)
LEMMA OrderStays ==
  ASSUME WizardInv, "late" \in mishaps => "late" \in mishaps',
         \A c \in calls' : Owed(c) => c \in calls,
         UNCHANGED <<phase, session, queue, index>>,
         Len(drafts') = Len(drafts), DOMAIN drafts' = DOMAIN drafts,
         \A i \in DOMAIN drafts :
           /\ drafts'[i].skill = drafts[i].skill /\ drafts'[i].turn = drafts[i].turn
           /\ skills'[drafts[i].skill].session = skills[drafts[i].skill].session
  PROVE  InOrder'
  <1>1. phase' = phase /\ session' = session /\ queue' = queue /\ index' = index
    OBVIOUS
  <1>2. Answered => Answered'
    BY <1>1 DEF Answered
  <1>3. InOrder
    BY DEF WizardInv
  <1> SUFFICES ASSUME "late" \notin mishaps
               PROVE  InOrder'
    BY DEF InOrder
  <1>4. \A c, d \in calls' : Owed(c) /\ Owed(d) => c = d
    BY <1>3 DEF InOrder
  <1>5. \A c \in calls' : Owed(c) =>
          /\ phase = IF c.kind = "extract" THEN "extracting" ELSE "loading"
          /\ c.session = session
          /\ c.kind = "answers" => Answered /\ index <= Len(queue) /\ c.turn = queue[index]
    BY <1>3 DEF InOrder
  <1> QED
    BY <1>1, <1>2, <1>3, <1>4, <1>5 DEF InOrder, Owed

LEMMA DecideKeeps ==
  ASSUME WizardInv, Decide
  PROVE  WizardInv'
  <1>1. PICK i \in DOMAIN drafts, kind \in Decisions :
          /\ kind \in CardOffers(drafts[i])
          /\ Post(Call(kind, NoTurn, drafts[i].skill))
          /\ drafts' = WithStatus(drafts[i].skill, "deciding")
    BY DEF Decide, CardOffers, Decisions
  <1>2. /\ phase' = phase /\ session' = session /\ domain' = domain /\ queue' = queue /\ index' = index
        /\ selected' = selected /\ sessions' = sessions /\ skills' = skills /\ mishaps' = mishaps
    BY DEF Decide
  <1>3. WizardTypes
    BY DEF WizardInv
  <1>4. drafts[i] \in CardSet /\ drafts[i].skill \in Nat
    BY <1>3, FieldsOfCard DEF WizardTypes
  <1> DEFINE d == Call(kind, NoTurn, drafts[i].skill)
  <1>5. d \in CallSet /\ d.kind = kind /\ d.st = "sent" /\ d.skill = drafts[i].skill
    BY <1>3, <1>4, CallHasType, NoTurnHasType
  <1>6. calls' = calls \union {d} /\ asked' = asked + 1
    BY <1>1 DEF Post
  <1>7. drafts[i].status # "deciding"
    BY <1>1 DEF CardOffers, Decisions
  <1> HIDE DEF d
  <1>8. Decides(d) /\ ~Owed(d)
    BY <1>5 DEF Decides, Owed, Decisions, Waited
  <1>9. /\ drafts' \in Seq(CardSet) /\ Len(drafts') = Len(drafts) /\ DOMAIN drafts' = DOMAIN drafts
        /\ \A j \in DOMAIN drafts :
             /\ drafts'[j].skill = drafts[j].skill /\ drafts'[j].turn = drafts[j].turn
             /\ drafts'[j].status = IF drafts[j].skill = drafts[i].skill THEN "deciding" ELSE drafts[j].status
    BY <1>1, <1>3, StatusOfCards
  <1>10. WizardTypes'
    BY <1>2, <1>3, <1>5, <1>6, <1>9 DEF WizardTypes
  <1>11. Rows' /\ Apart' /\ OneDecision'
    BY <1>2, <1>5, <1>6, <1>7, <1>8, <1>9, PostKeeps
  <1>12. InOrder'
    BY <1>2, <1>6, <1>8, <1>9, OrderStays
  <1> QED
    BY <1>10, <1>11, <1>12 DEF WizardInv

-----------------------------------------------------------------------------
(* The services. *)
LEMMA FailKeeps ==
  ASSUME WizardInv, NEW c \in calls, Fail(c)
  PROVE  WizardInv'
  <1> DEFINE d == [c EXCEPT !.st = "done", !.ok = FALSE]
  <1>1. c \in CallSet
    BY DEF WizardInv, WizardTypes
  <1>2. /\ d \in CallSet /\ d.kind = c.kind /\ d.heard = c.heard /\ d.session = c.session
        /\ d.turn = c.turn /\ d.skill = c.skill /\ d.ok = FALSE /\ d.st = "done"
    BY <1>1 DEF CallSet
  <1>3. Becomes(c, d) /\ UNCHANGED <<store, asked, sessions, skills, mishaps>>
    BY DEF Fail
  <1> HIDE DEF d
  <1> QED
    BY <1>2, <1>3, CallAdvances DEF Written

LEMMA ServeExtractKeeps ==
  ASSUME WizardInv, NEW c \in calls, ServeExtract(c)
  PROVE  WizardInv'
  <1>1. c \in CallSet /\ c.kind = "extract"
    BY DEF WizardInv, WizardTypes, ServeExtract, Serving
  <1>2. PICK some \in BOOLEAN : Becomes(c, [c EXCEPT !.st = "done", !.some = some])
    BY DEF ServeExtract
  <1> DEFINE d == [c EXCEPT !.st = "done", !.some = some]
  <1>3. /\ d \in CallSet /\ d.kind = c.kind /\ d.heard = c.heard /\ d.session = c.session
        /\ d.turn = c.turn /\ d.skill = c.skill /\ d.st = "done"
    BY <1>1 DEF CallSet
  <1>4. Becomes(c, d) /\ UNCHANGED <<store, asked, sessions, skills, mishaps>>
    BY <1>2 DEF ServeExtract
  <1> HIDE DEF d
  <1> QED
    BY <1>1, <1>3, <1>4, CallAdvances DEF Written

LEMMA GapsHaveType ==
  ASSUME NEW c \in CallSet, NEW gaps \in Gaps(c)
  PROVE  gaps \in Seq(Questions)
  <1> DEFINE all == SeedPolicies(c.domain)
  <1>1. c.domain \in Domains \union {Other}
    BY FieldsOfCall
  <1>2. all \in Seq(Questions)
    <2>1. CASE c.domain = Other
      <3>1. <<>> \in Seq(Questions)
        OBVIOUS
      <3> QED
        BY <2>1, <3>1 DEF SeedPolicies
    <2>2. CASE c.domain # Other
      <3>1. all = [p \in 1..MaxPolicies |-> Turn(c.domain, p, FALSE)] /\ MaxPolicies \in Nat
        BY <2>2, WizardAssumption DEF SeedPolicies
      <3>2. \A p \in 1..MaxPolicies : Turn(c.domain, p, FALSE) \in Questions
        BY <1>1, <3>1 DEF Turn, Questions
      <3> HIDE DEF all
      <3>3. all \in [1..MaxPolicies -> Questions]
        BY <3>1, <3>2
      <3>4. MaxPolicies \in Nat
        BY <3>1
      <3> QED
        BY <3>3, <3>4
    <2> QED
      BY <2>1, <2>2
  <1>3. CASE gaps = all
    BY <1>2, <1>3
  <1>4. CASE gaps # all
    <2>1. c.domain # Other
      BY <1>4 DEF Gaps
    <2>2. PICK n \in 0..MaxPolicies : gaps \in [1..n -> {all[p] : p \in 1..MaxPolicies}]
      BY <1>4 DEF Gaps
    <2>3. all = [p \in 1..MaxPolicies |-> Turn(c.domain, p, FALSE)] /\ MaxPolicies \in Nat
      BY <2>1, WizardAssumption DEF SeedPolicies
    <2> HIDE DEF all
    <2>4. ASSUME NEW p \in 1..MaxPolicies
          PROVE  all[p] \in Questions
      <3>1. Turn(c.domain, p, FALSE) \in Questions
        BY <1>1, <2>3 DEF Turn, Questions
      <3> QED
        BY <2>3, <3>1
    <2>5. gaps \in [1..n -> Questions] /\ n \in Nat
      <3>1. \A k \in 1..n : gaps[k] \in Questions
        BY <2>2, <2>4
      <3> QED
        BY <2>2, <2>3, <3>1
    <2> QED
      BY <2>5
  <1> QED
    BY <1>3, <1>4

LEMMA ServeBootstrapKeeps ==
  ASSUME WizardInv, NEW c \in calls, ServeBootstrap(c)
  PROVE  WizardInv'
  <1>1. c \in CallSet /\ c.kind = "bootstrap"
    BY DEF WizardInv, WizardTypes, ServeBootstrap, Serving
  <1>2. PICK gaps \in Gaps(c) : Becomes(c, [c EXCEPT !.st = "done", !.gaps = gaps])
    BY DEF ServeBootstrap
  <1> DEFINE d == [c EXCEPT !.st = "done", !.gaps = gaps]
  <1>3. gaps \in Seq(Questions)
    BY <1>1, GapsHaveType
  <1>4. /\ d \in CallSet /\ d.kind = c.kind /\ d.heard = c.heard /\ d.session = c.session
        /\ d.turn = c.turn /\ d.skill = c.skill /\ d.st = "done"
    BY <1>1, <1>3 DEF CallSet
  <1>5. Becomes(c, d) /\ UNCHANGED <<store, asked, sessions, skills, mishaps>>
    BY <1>2 DEF ServeBootstrap
  <1> HIDE DEF d
  <1> QED
    BY <1>1, <1>4, <1>5, CallAdvances DEF Written

LEMMA TransitionKeeps ==
  ASSUME WizardInv, NEW c \in calls, Transition(c)
  PROVE  WizardInv'
  <1>1. c \in CallSet /\ Decides(c) /\ ~Written(c)
    BY DEF WizardInv, WizardTypes, Transition, Serving, Decides, Decisions, Written
  <1>2. UNCHANGED <<store, asked, sessions, skills, mishaps>>
    BY DEF Transition
  <1>3. CASE skills[c.skill].status = "pending_review"
    <2> DEFINE d == [c EXCEPT !.st = "checked"]
    <2>1. /\ d \in CallSet /\ d.kind = c.kind /\ d.heard = c.heard /\ d.session = c.session
          /\ d.turn = c.turn /\ d.skill = c.skill /\ d.st = "checked"
      BY <1>1 DEF CallSet
    <2>2. Becomes(c, d)
      BY <1>3 DEF Transition
    <2> HIDE DEF d
    <2>3. Decides(d) /\ ~Written(d)
      BY <1>1, <2>1 DEF Decides, Written
    <2> QED
      BY <1>2, <1>3, <2>1, <2>2, <2>3, CallAdvances
  <1>4. CASE skills[c.skill].status # "pending_review"
    <2> DEFINE d == [c EXCEPT !.st = "done", !.ok = FALSE]
    <2>1. /\ d \in CallSet /\ d.kind = c.kind /\ d.heard = c.heard /\ d.session = c.session
          /\ d.turn = c.turn /\ d.skill = c.skill /\ d.st = "done" /\ d.ok = FALSE
      BY <1>1 DEF CallSet
    <2>2. Becomes(c, d)
      BY <1>4 DEF Transition
    <2> HIDE DEF d
    <2> QED
      BY <1>2, <2>1, <2>2, CallAdvances DEF Written
  <1> QED
    BY <1>3, <1>4

LEMMA ServeAnswersKeeps ==
  ASSUME WizardInv, NEW c \in calls, ServeAnswers(c)
  PROVE  WizardInv'
  <1>1. c \in CallSet /\ c.kind = "answers" /\ c.st = "sent" /\ WizardTypes /\ Rows /\ Apart
    BY DEF WizardInv, WizardTypes, ServeAnswers, Serving
  <1>2. PICK unclear \in BOOLEAN :
          Becomes(c, [c EXCEPT !.st = "done", !.skill = Len(skills) + 1, !.unclear = unclear])
    BY DEF ServeAnswers, Parsed
  <1> DEFINE d == [c EXCEPT !.st = "done", !.skill = Len(skills) + 1, !.unclear = unclear]
             row == [session |-> c.session, turn |-> c.turn, status |-> "pending_review"]
  <1>3. skills \in Seq(SkillSet) /\ Len(skills) \in Nat /\ DOMAIN skills = 1..Len(skills)
    BY <1>1 DEF WizardTypes
  <1>4. /\ d \in CallSet /\ d.kind = c.kind /\ d.heard = c.heard /\ d.session = c.session
        /\ d.turn = c.turn /\ d.skill = Len(skills) + 1 /\ d.st = "done"
    <2>1. PICK k \in Nat : k = Len(skills) + 1
      BY <1>3
    <2>2. d = [c EXCEPT !.st = "done", !.skill = k, !.unclear = unclear]
      BY <2>1
    <2> HIDE DEF d
    <2>3. /\ d \in CallSet /\ d.kind = c.kind /\ d.heard = c.heard /\ d.session = c.session
          /\ d.turn = c.turn /\ d.skill = k /\ d.st = "done"
      BY <1>1, <2>2 DEF CallSet
    <2> QED
      BY <2>1, <2>3
  <1>5. row \in SkillSet /\ row.session = c.session /\ row.turn = c.turn
    BY <1>1, FieldsOfCall DEF SkillSet
  <1>6. /\ calls' = (calls \ {c}) \union {d} /\ skills' = Append(skills, row)
        /\ phase' = phase /\ session' = session /\ domain' = domain /\ queue' = queue /\ index' = index
        /\ drafts' = drafts /\ selected' = selected /\ asked' = asked /\ sessions' = sessions
        /\ mishaps' = mishaps
    BY <1>2 DEF ServeAnswers, Becomes, store
  <1> HIDE DEF d, row
  <1>7. /\ skills' \in Seq(SkillSet) /\ DOMAIN skills' = 1..(Len(skills) + 1)
        /\ \A k \in DOMAIN skills : skills'[k] = skills[k] /\ k # Len(skills) + 1
        /\ skills'[Len(skills) + 1] = row
    BY <1>3, <1>5, <1>6
  <1>8. WizardTypes'
    BY <1>1, <1>4, <1>6, <1>7 DEF WizardTypes
  <1>9. ~Decides(d) /\ ~Decides(c) /\ ~Written(c) /\ d.st # "checked" /\ (Owed(d) <=> Owed(c))
    BY <1>1, <1>4 DEF Decides, Decisions, Written, Owed
  <1>10. \A e \in calls : Decides(e) \/ Written(e) => e.skill \in DOMAIN skills
    BY <1>1 DEF Rows
  <1>11. d.skill \in DOMAIN skills' /\ DOMAIN skills \subseteq DOMAIN skills'
    BY <1>3, <1>4, <1>7
  <1>12. Rows'
    <2>1. ASSUME NEW e \in calls'
          PROVE  /\ Decides(e) \/ Written(e) => e.skill \in DOMAIN skills'
                 /\ e.st = "checked" => Decides(e)
                 /\ Written(e) => skills'[e.skill].session = e.session /\ skills'[e.skill].turn = e.turn
      <3>1. CASE e = d
        BY <1>4, <1>5, <1>7, <1>9, <1>11, <3>1
      <3>2. CASE e # d
        BY <1>1, <1>6, <1>7, <1>10, <1>11, <3>2 DEF Rows
      <3> QED
        BY <3>1, <3>2
    <2>2. \A i \in DOMAIN drafts : drafts[i].skill \in DOMAIN skills' /\ skills'[drafts[i].skill].turn = drafts[i].turn
      BY <1>1, <1>7, <1>11 DEF Rows
    <2> QED
      BY <1>6, <2>1, <2>2 DEF Rows, Written, Decides
  <1>13. Apart'
    <2>1. \A e \in calls : Written(e) \/ Decides(e) => e.skill # d.skill
      BY <1>4, <1>7, <1>10
    <2>2. \A i \in DOMAIN drafts : drafts[i].skill # d.skill
      BY <1>1, <1>4, <1>7 DEF Rows
    <2> QED
      BY <1>1, <1>6, <1>9, <2>1, <2>2 DEF Apart, Written, Decides
  <1>14. OneDecision'
    <2> SUFFICES ASSUME "abandoned" \notin mishaps
                 PROVE  OneDecision'
      BY <1>6 DEF OneDecision
    <2>1. OneDecision
      BY DEF WizardInv
    <2>2. \A e, f \in calls' : Decides(e) /\ Decides(f) /\ e.skill = f.skill => e = f
      BY <1>6, <1>9, <2>1 DEF OneDecision
    <2>3. \A e \in calls' : \A i \in DOMAIN drafts :
            Decides(e) /\ drafts[i].skill = e.skill => drafts[i].status = "deciding"
      BY <1>6, <1>9, <2>1 DEF OneDecision
    <2>4. \A e \in calls' : e.st = "checked" => skills'[e.skill].status = "pending_review"
      BY <1>1, <1>6, <1>7, <1>9, <1>10, <2>1 DEF OneDecision, Rows
    <2> QED
      BY <1>6, <2>2, <2>3, <2>4 DEF OneDecision, Decides
  <1>15. InOrder'
    <2> SUFFICES ASSUME "late" \notin mishaps
                 PROVE  InOrder'
      BY <1>6 DEF InOrder
    <2>1. InOrder
      BY DEF WizardInv
    <2>2. \A e, f \in calls' : Owed(e) /\ Owed(f) => e = f
      BY <1>6, <1>9, <2>1 DEF InOrder
    <2>3. Answered => Answered'
      BY <1>1, <1>6, <1>7 DEF Answered, Rows
    <2>4. ASSUME NEW e \in calls', Owed(e)
          PROVE  /\ phase = IF e.kind = "extract" THEN "extracting" ELSE "loading"
                 /\ e.session = session
                 /\ e.kind = "answers" => Answered /\ index <= Len(queue) /\ e.turn = queue[index]
      <3>1. CASE e = d
        BY <1>1, <1>4, <1>9, <2>1, <2>4, <3>1 DEF InOrder
      <3>2. CASE e # d
        BY <1>6, <2>1, <2>4, <3>2 DEF InOrder
      <3> QED
        BY <3>1, <3>2
    <2> QED
      BY <1>6, <2>1, <2>2, <2>3, <2>4 DEF InOrder, Owed
  <1> QED
    BY <1>8, <1>12, <1>13, <1>14, <1>15 DEF WizardInv

(* The decision is stored; no other is under way on the skill. *)
LEMMA UpdateStatusKeeps ==
  ASSUME WizardInv, NEW c \in calls, UpdateStatus(c)
  PROVE  WizardInv'
  <1> DEFINE d == [c EXCEPT !.st = "done"]
             how == IF c.kind = "approve" THEN "active" ELSE "rejected"
  <1>1. c \in CallSet /\ c.st = "checked" /\ Decides(c) /\ WizardTypes /\ Rows /\ Apart
    BY DEF WizardInv, WizardTypes, UpdateStatus, Rows
  <1>2. /\ calls' = (calls \ {c}) \union {d} /\ skills' = [skills EXCEPT ![c.skill].status = how]
        /\ phase' = phase /\ session' = session /\ domain' = domain /\ queue' = queue /\ index' = index
        /\ drafts' = drafts /\ selected' = selected /\ asked' = asked /\ sessions' = sessions
        /\ mishaps' = mishaps
    BY DEF UpdateStatus, Becomes, store
  <1>3. /\ d \in CallSet /\ d.kind = c.kind /\ d.heard = c.heard /\ d.session = c.session
        /\ d.turn = c.turn /\ d.skill = c.skill /\ d.st = "done"
    BY <1>1 DEF CallSet
  <1>4. how \in {"active", "rejected"}
    OBVIOUS
  <1> HIDE DEF d, how
  <1>5. skills \in Seq(SkillSet) /\ c.skill \in DOMAIN skills
    BY <1>1 DEF WizardTypes, Rows
  <1>6. skills[c.skill] \in SkillSet
    BY <1>5
  <1>7. [skills[c.skill] EXCEPT !.status = how] \in SkillSet
    BY <1>4, <1>6 DEF SkillSet
  <1>8. skills' \in Seq(SkillSet) /\ DOMAIN skills' = DOMAIN skills
    BY <1>2, <1>5, <1>7
  <1>9. \A k \in DOMAIN skills : /\ skills'[k].session = skills[k].session
                                 /\ skills'[k].turn = skills[k].turn
                                 /\ k # c.skill => skills'[k] = skills[k]
    <2> TAKE k \in DOMAIN skills
    <2>1. CASE k = c.skill
      <3>1. skills'[k] = [skills[k] EXCEPT !.status = how]
        BY <1>2, <1>5, <2>1
      <3> QED
        BY <1>6, <2>1, <3>1 DEF SkillSet
    <2>2. CASE k # c.skill
      BY <1>2, <1>5, <2>2
    <2> QED
      BY <2>1, <2>2
  <1>10. WizardTypes'
    BY <1>1, <1>2, <1>3, <1>8 DEF WizardTypes
  <1>11. Decides(d) /\ ~Written(d) /\ ~Written(c) /\ d.st # "checked" /\ ~Owed(d) /\ ~Owed(c)
    BY <1>1, <1>3 DEF Decides, Decisions, Written, Owed, Waited
  <1>12. Rows'
    <2>1. \A e \in calls' : Decides(e) \/ Written(e) => e.skill \in DOMAIN skills
      BY <1>1, <1>2, <1>3, <1>5 DEF Rows
    <2>2. \A e \in calls' : e.st = "checked" => Decides(e)
      BY <1>1, <1>2, <1>11 DEF Rows
    <2>3. \A e \in calls' : Written(e) => skills'[e.skill].session = e.session /\ skills'[e.skill].turn = e.turn
      BY <1>1, <1>2, <1>9, <1>11, <2>1 DEF Rows
    <2>4. \A i \in DOMAIN drafts : drafts[i].skill \in DOMAIN skills /\ skills'[drafts[i].skill].turn = drafts[i].turn
      BY <1>1, <1>9 DEF Rows
    <2> QED
      BY <1>2, <1>8, <2>1, <2>2, <2>3, <2>4 DEF Rows, Written, Decides
  <1>13. Apart'
    BY <1>1, <1>2, <1>3, <1>11 DEF Apart, Written, Decides
  <1>14. OneDecision'
    <2> SUFFICES ASSUME "abandoned" \notin mishaps
                 PROVE  OneDecision'
      BY <1>2 DEF OneDecision
    <2>1. OneDecision
      BY DEF WizardInv
    <2>2. \A e, f \in calls' : Decides(e) /\ Decides(f) /\ e.skill = f.skill => e = f
      BY <1>1, <1>2, <1>3, <2>1 DEF OneDecision
    <2>3. \A e \in calls' : \A i \in DOMAIN drafts :
            Decides(e) /\ drafts[i].skill = e.skill => drafts[i].status = "deciding"
      BY <1>1, <1>2, <1>3, <2>1 DEF OneDecision
    <2>4. ASSUME NEW e \in calls', e.st = "checked"
          PROVE  skills'[e.skill].status = "pending_review"
      <3>1. e \in calls /\ e # c /\ Decides(e)
        BY <1>1, <1>2, <1>11, <2>4 DEF Rows
      <3>2. e.skill # c.skill /\ e.skill \in DOMAIN skills
        BY <1>1, <2>1, <3>1 DEF OneDecision, Rows
      <3> QED
        BY <1>9, <2>1, <2>4, <3>1, <3>2 DEF OneDecision
    <2> QED
      BY <1>2, <2>2, <2>3, <2>4 DEF OneDecision, Decides
  <1>15. InOrder'
    <2>1. \A e \in calls' : Owed(e) => e \in calls
      BY <1>2, <1>11
    <2>2. \A i \in DOMAIN drafts : skills'[drafts[i].skill].session = skills[drafts[i].skill].session
      BY <1>1, <1>9 DEF Rows
    <2> QED
      BY <1>2, <2>1, <2>2, OrderStays
  <1> QED
    BY <1>10, <1>12, <1>13, <1>14, <1>15 DEF WizardInv

-----------------------------------------------------------------------------
(* The answers. *)
LEMMA SetErrorKeeps ==
  ASSUME WizardInv, NEW c \in calls, SetError(c)
  PROVE  WizardInv'
  <1>1. /\ calls' = calls \ {c} /\ c.heard /\ asked' = asked /\ sessions' = sessions
        /\ skills' = skills /\ mishaps' = mishaps /\ ShowError(c)
    BY DEF SetError, Over
  <1>2. WizardTypes /\ OneDecision /\ InOrder /\ c \in CallSet
    BY DEF WizardInv, WizardTypes
  <1>3. CASE Decides(c)
    <2>1. /\ drafts' = WithStatus(c.skill, "failed")
          /\ phase' = phase /\ session' = session /\ domain' = domain /\ queue' = queue
          /\ index' = index /\ selected' = selected
      BY <1>1, <1>3 DEF ShowError, Decides, Decisions
    <2>2. /\ drafts' \in Seq(CardSet) /\ Len(drafts') = Len(drafts) /\ DOMAIN drafts' = DOMAIN drafts
          /\ \A i \in DOMAIN drafts :
               /\ drafts'[i].skill = drafts[i].skill /\ drafts'[i].turn = drafts[i].turn
               /\ drafts'[i].status = IF drafts[i].skill = c.skill THEN "failed" ELSE drafts[i].status
      BY <1>2, <2>1, StatusOfCards
    <2>3. WizardTypes'
      BY <1>1, <1>2, <2>1, <2>2 DEF WizardTypes
    <2>4. "abandoned" \notin mishaps => \A e \in calls' : Decides(e) => e.skill # c.skill
      BY <1>1, <1>2, <1>3 DEF OneDecision
    <2>5. Rows' /\ Apart' /\ OneDecision'
      BY <1>1, <2>2, <2>4, LessIsKept
    <2>6. InOrder'
      BY <1>1, <2>1, <2>2, OrderStays
    <2> QED
      BY <2>3, <2>5, <2>6 DEF WizardInv
  <1>4. CASE ~Decides(c)
    <2>1. /\ phase' = "error" /\ session' = session /\ domain' = domain /\ queue' = queue
          /\ index' = index /\ selected' = selected /\ drafts' = drafts
      BY <1>1, <1>4 DEF ShowError, Decides, Decisions
    <2>2. WizardTypes'
      BY <1>1, <1>2, <2>1 DEF WizardTypes
    <2>3. Rows' /\ Apart' /\ OneDecision'
      BY <1>1, <2>1, LessIsKept
    <2>4. Owed(c)
      BY <1>1, <1>2, <1>4, FieldsOfCall DEF Owed, Decides
    <2>5. InOrder'
      BY <1>1, <1>2, <2>1, <2>4 DEF InOrder, Owed
    <2> QED
      BY <2>2, <2>3, <2>5 DEF WizardInv
  <1> QED
    BY <1>3, <1>4

LEMMA ForgottenKeeps ==
  ASSUME WizardInv, NEW c \in calls, Forgotten(c)
  PROVE  WizardInv'
  <1>1. /\ calls' = calls \ {c} /\ asked' = asked /\ sessions' = sessions
        /\ phase' = phase /\ session' = session /\ domain' = domain /\ queue' = queue
        /\ index' = index /\ selected' = selected /\ drafts' = drafts
        /\ skills' = skills /\ mishaps' = mishaps
    BY DEF Forgotten, store
  <1>2. WizardTypes'
    BY <1>1 DEF WizardInv, WizardTypes
  <1>3. Rows' /\ Apart' /\ OneDecision'
    BY <1>1, LessIsKept
  <1>4. InOrder'
    BY <1>1, OrderStays
  <1> QED
    BY <1>2, <1>3, <1>4 DEF WizardInv

LEMMA AbandonKeeps ==
  ASSUME WizardInv, NEW c \in calls, Abandon(c)
  PROVE  WizardInv'
  <1> DEFINE d == [c EXCEPT !.heard = FALSE]
  <1>1. /\ calls' = (calls \ {c}) \union (IF c.st = "done" THEN {} ELSE {d})
        /\ c.heard /\ asked' = asked /\ sessions' = sessions
        /\ skills' = skills /\ mishaps \subseteq mishaps' /\ ShowError(c)
        /\ c.st # "done" => "abandoned" \in mishaps'
    BY DEF Abandon
  <1>2. WizardTypes /\ Rows /\ Apart /\ OneDecision /\ InOrder /\ c \in CallSet
    BY DEF WizardInv, WizardTypes
  <1>3. d \in CallSet /\ d.st = c.st /\ d.kind = c.kind /\ ~d.heard /\ d.skill = c.skill
    BY <1>2 DEF CallSet
  <1> HIDE DEF d
  <1>4. /\ Len(drafts') = Len(drafts) /\ DOMAIN drafts' = DOMAIN drafts /\ drafts' \in Seq(CardSet)
        /\ \A i \in DOMAIN drafts :
             /\ drafts'[i].skill = drafts[i].skill /\ drafts'[i].turn = drafts[i].turn
             /\ \/ drafts'[i].status = drafts[i].status
                \/ Decides(c) /\ drafts[i].skill = c.skill
    <2>1. CASE Decides(c)
      <3>1. drafts' = WithStatus(c.skill, "failed")
        BY <1>1, <2>1 DEF ShowError, Decides, Decisions
      <3> QED
        BY <1>2, <2>1, <3>1, StatusOfCards
    <2>2. CASE ~Decides(c)
      <3>1. drafts' = drafts
        BY <1>1, <2>2 DEF ShowError, Decides, Decisions
      <3> QED
        BY <1>2, <3>1 DEF WizardTypes
    <2> QED
      BY <2>1, <2>2
  <1>5. /\ session' = session /\ domain' = domain /\ queue' = queue /\ index' = index /\ selected' = selected
        /\ phase' = IF Decides(c) THEN phase ELSE "error"
    BY <1>1 DEF ShowError, Decides, Decisions
  <1>6. WizardTypes'
    BY <1>1, <1>2, <1>3, <1>4, <1>5 DEF WizardTypes
  <1>7. ~Owed(d) /\ (Owed(c) <=> ~Decides(c))
    BY <1>1, <1>2, <1>3, FieldsOfCall DEF Owed, Decides, Decisions, Waited
  <1>8. Rows' /\ Apart' /\ OneDecision'
    <2>1. CASE c.st = "done"
      <3>1. calls' = calls \ {c}
        BY <1>1, <2>1
      <3>2. "abandoned" \notin mishaps => (Decides(c) => \A e \in calls' : Decides(e) => e.skill # c.skill)
        BY <1>2, <3>1 DEF OneDecision
      <3> QED
        BY <1>1, <1>4, <3>1, <3>2, LessIsKept
    <2>2. CASE c.st # "done"
      <3>1. calls' = (calls \ {c}) \union {d} /\ "abandoned" \in mishaps'
        BY <1>1, <2>2
      <3>2. ~Written(d) /\ (Decides(d) <=> Decides(c))
        BY <1>3, <2>2 DEF Written, Decides
      <3>3. Rows'
        <4>1. \A e \in calls' : Decides(e) \/ Written(e) => e.skill \in DOMAIN skills
          BY <1>2, <1>3, <3>1, <3>2 DEF Rows
        <4>2. \A e \in calls' : e.st = "checked" => Decides(e)
          BY <1>2, <1>3, <3>1, <3>2 DEF Rows
        <4> QED
          BY <1>1, <1>2, <1>4, <3>1, <3>2, <4>1, <4>2 DEF Rows, Written, Decides
      <3>4. Apart'
        BY <1>2, <1>3, <1>4, <3>1, <3>2 DEF Apart, Written, Decides
      <3>5. OneDecision'
        BY <3>1 DEF OneDecision
      <3> QED
        BY <3>3, <3>4, <3>5
    <2> QED
      BY <2>1, <2>2
  <1>9. InOrder'
    <2>1. \A e \in calls' : Owed(e) => e \in calls /\ e # c
      BY <1>1, <1>7
    <2>2. CASE Decides(c)
      BY <1>1, <1>4, <1>5, <2>1, <2>2, OrderStays
    <2>3. CASE ~Decides(c)
      <3>1. "late" \notin mishaps' => \A e \in calls' : ~Owed(e)
        BY <1>1, <1>2, <1>7, <2>1, <2>3 DEF InOrder
      <3> QED
        BY <1>5, <2>3, <3>1 DEF InOrder, Owed
    <2> QED
      BY <2>2, <2>3
  <1> QED
    BY <1>6, <1>8, <1>9 DEF WizardInv

LEMMA AcceptExtractKeeps ==
  ASSUME WizardInv, NEW c \in calls, AcceptExtract(c)
  PROVE  WizardInv'
  <1>1. /\ calls' = calls \ {c} /\ Owed(c) /\ asked' = asked /\ sessions' = sessions
        /\ phase' = "extract-review" /\ session' = session /\ domain' = domain /\ queue' = queue
        /\ index' = index /\ selected' = c.some /\ drafts' = drafts
        /\ skills' = skills /\ mishaps' = mishaps
    BY DEF AcceptExtract, Over, Owed, Waited
  <1>2. WizardTypes /\ InOrder /\ c \in CallSet
    BY DEF WizardInv, WizardTypes
  <1>3. c.some \in BOOLEAN
    BY <1>2, FieldsOfCall
  <1>4. WizardTypes'
    BY <1>1, <1>2, <1>3 DEF WizardTypes
  <1>5. Rows' /\ Apart' /\ OneDecision'
    BY <1>1, LessIsKept
  <1>6. InOrder'
    BY <1>1, <1>2 DEF InOrder, Owed
  <1> QED
    BY <1>4, <1>5, <1>6 DEF WizardInv

LEMMA AcceptBootstrapKeeps ==
  ASSUME WizardInv, NEW c \in calls, AcceptBootstrap(c)
  PROVE  WizardInv'
  <1>1. /\ calls' = calls \ {c} /\ Owed(c) /\ asked' = asked /\ sessions' = sessions
        /\ phase' = (IF c.gaps = <<>> THEN "done" ELSE "asking")
        /\ session' = c.session /\ domain' = c.domain /\ queue' = c.gaps
        /\ index' = 1 /\ selected' = selected /\ drafts' = <<>>
        /\ skills' = skills /\ mishaps' = mishaps
    BY DEF AcceptBootstrap, Over, Owed, Waited
  <1>2. WizardTypes /\ InOrder /\ c \in CallSet
    BY DEF WizardInv, WizardTypes
  <1>3. c.gaps \in Seq(Questions) /\ c.session \in Nat /\ c.domain \in Domains \union {Other}
    BY <1>2, FieldsOfCall
  <1>4. <<>> \in Seq(CardSet)
    OBVIOUS
  <1>5. WizardTypes'
    <2>1. queue' \in Seq(Questions) /\ drafts' \in Seq(CardSet) /\ index' \in Nat \ {0}
          /\ session' \in Nat /\ domain' \in Domains \union {Other}
      BY <1>1, <1>3, <1>4
    <2> QED
      BY <1>1, <1>2, <2>1 DEF WizardTypes
  <1>6. Rows' /\ Apart' /\ OneDecision'
    BY <1>1, LessIsKept
  <1>7. InOrder'
    <2>1. Len(c.gaps) \in Nat /\ (c.gaps # <<>> => Len(c.gaps) > 0) /\ (c.gaps = <<>> => Len(c.gaps) = 0)
      BY <1>3
    <2>2. Answered' /\ index' = 1
      BY <1>1, <2>1 DEF Answered
    <2>3. "late" \notin mishaps => \A e \in calls' : ~Owed(e)
      BY <1>1, <1>2 DEF InOrder
    <2> QED
      BY <1>1, <2>1, <2>2, <2>3 DEF InOrder, Owed
  <1> QED
    BY <1>5, <1>6, <1>7 DEF WizardInv

LEMMA AcceptAnswersKeeps ==
  ASSUME WizardInv, NEW c \in calls, AcceptAnswers(c)
  PROVE  WizardInv'
  <1> DEFINE card == [skill |-> c.skill, turn |-> c.turn, status |-> "pending",
                      unclear |-> c.unclear, followUpAsked |-> FALSE]
  <1>1. /\ calls' = calls \ {c} /\ Owed(c) /\ Written(c) /\ asked' = asked /\ sessions' = sessions
        /\ phase' = (IF index' <= Len(queue) THEN "asking" ELSE "done")
        /\ session' = c.session /\ domain' = domain /\ queue' = queue
        /\ index' = index + 1 /\ selected' = selected /\ drafts' = Append(drafts, card)
        /\ skills' = skills /\ mishaps' = mishaps
    BY DEF AcceptAnswers, Over, Owed, Waited, Written
  <1>2. WizardTypes /\ InOrder /\ Rows /\ c \in CallSet
    BY DEF WizardInv, WizardTypes
  <1>3. card \in CardSet /\ card.skill = c.skill /\ card.turn = c.turn /\ c.session \in Nat
    BY <1>2, FieldsOfCall DEF CardSet
  <1> HIDE DEF card
  <1>4. /\ drafts \in Seq(CardSet) /\ Len(drafts) \in Nat /\ DOMAIN drafts = 1..Len(drafts)
        /\ drafts' \in Seq(CardSet) /\ Len(drafts') = Len(drafts) + 1
        /\ DOMAIN drafts' = 1..(Len(drafts) + 1)
        /\ \A i \in DOMAIN drafts : drafts'[i] = drafts[i]
        /\ drafts'[Len(drafts) + 1] = card
    BY <1>1, <1>2, <1>3 DEF WizardTypes
  <1>5. WizardTypes'
    BY <1>1, <1>2, <1>3, <1>4 DEF WizardTypes
  <1>6. Rows' /\ Apart' /\ OneDecision'
    <2>1. ASSUME NEW j \in DOMAIN drafts'
          PROVE  \/ \E i \in DOMAIN drafts : drafts'[j] = drafts[i]
                 \/ drafts'[j].skill = c.skill /\ drafts'[j].turn = c.turn
      <3>1. j \in DOMAIN drafts \/ j = Len(drafts) + 1
        BY <1>4
      <3> QED
        BY <1>3, <1>4, <3>1
    <2>2. c \in calls \ calls'
      BY <1>1
    <2> QED
      BY <1>1, <2>1, <2>2, LessIsKept
  <1>7. InOrder'
    <2> SUFFICES ASSUME "late" \notin mishaps
                 PROVE  InOrder'
      BY <1>1 DEF InOrder
    <2>1. \A e \in calls' : ~Owed(e)
      BY <1>1, <1>2 DEF InOrder
    <2>2. c.session = session /\ Answered /\ index <= Len(queue) /\ c.turn = queue[index]
      BY <1>1, <1>2 DEF InOrder, Written
    <2>3. skills[c.skill].session = session
      BY <1>1, <1>2, <2>2 DEF Rows
    <2>4. Len(queue) \in Nat /\ index \in Nat /\ index = Len(drafts) + 1
      BY <1>2, <2>2 DEF WizardTypes, Answered
    <2>5. index' = Len(drafts') + 1 /\ Len(drafts') <= Len(queue)
      BY <1>1, <1>4, <2>2, <2>4
    <2>6. ASSUME NEW j \in DOMAIN drafts'
          PROVE  drafts'[j].turn = queue[j] /\ skills[drafts'[j].skill].session = session
      <3>1. j \in DOMAIN drafts \/ j = Len(drafts) + 1
        BY <1>4
      <3>2. CASE j \in DOMAIN drafts
        BY <1>4, <2>2, <3>2 DEF Answered
      <3>3. CASE j = Len(drafts) + 1
        BY <1>3, <1>4, <2>2, <2>3, <2>4, <3>3
      <3> QED
        BY <3>1, <3>2, <3>3
    <2>7. Answered'
      BY <1>1, <2>2, <2>5, <2>6 DEF Answered
    <2>8. index' <= Len(queue) \/ index' = Len(queue) + 1
      BY <1>1, <2>2, <2>4
    <2>9. index' <= Len(queue) => phase' = "asking"
      BY <1>1
    <2>10. ~(index' <= Len(queue)) => phase' = "done"
      BY <1>1
    <2>11. index' \in Nat
      BY <1>1, <2>4
    <2> QED
      BY <1>1, <2>1, <2>4, <2>7, <2>8, <2>9, <2>10, <2>11 DEF InOrder, Owed
  <1> QED
    BY <1>5, <1>6, <1>7 DEF WizardInv

LEMMA ApplyKeeps ==
  ASSUME WizardInv, NEW c \in calls, ApplyServerStatus(c)
  PROVE  WizardInv'
  <1> DEFINE how == IF c.kind = "approve" THEN "active" ELSE "rejected"
  <1>1. /\ calls' = calls \ {c} /\ Decides(c) /\ asked' = asked /\ sessions' = sessions
        /\ phase' = phase /\ session' = session /\ domain' = domain /\ queue' = queue
        /\ index' = index /\ selected' = selected /\ drafts' = WithStatus(c.skill, how)
        /\ skills' = skills /\ mishaps' = mishaps
    BY DEF ApplyServerStatus, Over, Decides, Decisions
  <1>2. WizardTypes /\ OneDecision
    BY DEF WizardInv
  <1>3. how \in {"deciding", "failed", "active", "rejected"}
    OBVIOUS
  <1> HIDE DEF how
  <1>4. /\ drafts' \in Seq(CardSet) /\ Len(drafts') = Len(drafts) /\ DOMAIN drafts' = DOMAIN drafts
        /\ \A i \in DOMAIN drafts :
             /\ drafts'[i].skill = drafts[i].skill /\ drafts'[i].turn = drafts[i].turn
             /\ drafts'[i].status = IF drafts[i].skill = c.skill THEN how ELSE drafts[i].status
    BY <1>1, <1>2, <1>3, StatusOfCards
  <1>5. WizardTypes'
    BY <1>1, <1>2, <1>4 DEF WizardTypes
  <1>6. "abandoned" \notin mishaps => \A e \in calls' : Decides(e) => e.skill # c.skill
    BY <1>1, <1>2 DEF OneDecision
  <1>7. Rows' /\ Apart' /\ OneDecision'
    BY <1>1, <1>4, <1>6, LessIsKept
  <1>8. InOrder'
    BY <1>1, <1>4, OrderStays
  <1> QED
    BY <1>5, <1>7, <1>8 DEF WizardInv

LEMMA NoWizardStep ==
  ASSUME WizardInv, UNCHANGED wizardVars
  PROVE  WizardInv'
  <1>1. /\ calls' = calls /\ asked' = asked /\ sessions' = sessions
        /\ phase' = phase /\ session' = session /\ domain' = domain /\ queue' = queue
        /\ index' = index /\ selected' = selected /\ drafts' = drafts
        /\ skills' = skills /\ mishaps' = mishaps
    BY DEF wizardVars
  <1>2. WizardTypes'
    BY <1>1 DEF WizardInv, WizardTypes
  <1>3. Rows' /\ Apart' /\ OneDecision'
    BY <1>1, LessIsKept
  <1>4. InOrder'
    BY <1>1, OrderStays
  <1> QED
    BY <1>2, <1>3, <1>4 DEF WizardInv

LEMMA WizardKeeps == WizardInv /\ [WizardNext]_wizardVars => WizardInv'
  <1> SUFFICES ASSUME WizardInv, WizardNext
               PROVE  WizardInv'
    BY NoWizardStep
  <1>1. CASE PickDomain \/ ToggleCandidate \/ BackToDocChoice \/ Reset
    BY <1>1, PageKeeps
  <1>2. CASE Extract \/ Bootstrap \/ SubmitPolicyAnswers
    BY <1>2, AsksKeep
  <1>3. CASE Decide \/ PushFollowUpQuestion
    BY <1>3, DecideKeeps, PushFollowUpKeeps
  <1>4. CASE Serves
    BY <1>4, FailKeeps, ServeExtractKeeps, ServeBootstrapKeeps, ServeAnswersKeeps, TransitionKeeps,
       UpdateStatusKeeps DEF Serves
  <1>5. CASE Arrives
    BY <1>5, SetErrorKeeps, AbandonKeeps, ForgottenKeeps, AcceptExtractKeeps, AcceptBootstrapKeeps,
       AcceptAnswersKeeps, ApplyKeeps DEF Arrives
  <1> QED
    BY <1>1, <1>2, <1>3, <1>4, <1>5 DEF WizardNext

(* When the review is shown every missing policy and every follow-up has   *)
(* been answered, in order and once, by a card whose skill is the row this *)
(* session stored for it (skill-wizard-store.ts:196-311).                  *)
THEOREM ReviewIsComplete == WizardSpec => []ReviewComplete
  <1>1. WizardInv => ReviewComplete
    <2> SUFFICES ASSUME WizardInv, phase = "done", "late" \notin mishaps
                 PROVE  /\ [i \in DOMAIN drafts |-> drafts[i].turn] = queue
                        /\ \A i \in DOMAIN drafts :
                             /\ skills[drafts[i].skill].session = session
                             /\ skills[drafts[i].skill].turn = drafts[i].turn
      BY DEF ReviewComplete
    <2>1. Answered /\ index = Len(queue) + 1
      BY DEF WizardInv, InOrder
    <2>2. /\ queue \in Seq(Questions) /\ Len(queue) \in Nat /\ Len(drafts) \in Nat
          /\ DOMAIN drafts = 1..Len(drafts)
      BY DEF WizardInv, WizardTypes
    <2>3. Len(drafts) = Len(queue) /\ \A i \in DOMAIN drafts : drafts[i].turn = queue[i]
      BY <2>1, <2>2 DEF Answered
    <2>4. [i \in DOMAIN drafts |-> drafts[i].turn] = queue
      BY <2>2, <2>3
    <2> QED
      BY <2>1, <2>4 DEF Answered, WizardInv, Rows
  <1> QED
    BY <1>1, WizardBegins, WizardKeeps, PTL DEF WizardSpec

(* A decision that is stored is never changed by a later one, unless the   *)
(* browser gave up on a call while the server was at it                    *)
(* (skill_bootstrap_service.py:197-219).                                   *)
THEOREM DecisionsStand == WizardSpec => DecisionStands
  <1> DEFINE Stands == \A k \in DOMAIN skills :
               skills[k].status # "pending_review" /\ "abandoned" \notin mishaps' =>
                 skills'[k].status = skills[k].status
  <1>1. WizardInv /\ [WizardNext]_wizardVars => [Stands]_wizardVars
    <2> SUFFICES ASSUME WizardInv, WizardNext
                 PROVE  Stands
      OBVIOUS
    <2>1. skills \in Seq(SkillSet)
      BY DEF WizardInv, WizardTypes
    <2>2. ASSUME NEW c \in calls, ServeAnswers(c)
          PROVE  Stands
      BY <2>1, <2>2 DEF ServeAnswers
    <2>3. ASSUME NEW c \in calls, UpdateStatus(c)
          PROVE  Stands
      <3> SUFFICES ASSUME NEW k \in DOMAIN skills, skills[k].status # "pending_review",
                          "abandoned" \notin mishaps'
                   PROVE  skills'[k].status = skills[k].status
        OBVIOUS
      <3>1. "abandoned" \notin mishaps /\ c.st = "checked"
        BY <2>3 DEF UpdateStatus
      <3>2. k # c.skill
        BY <3>1 DEF WizardInv, OneDecision
      <3> QED
        BY <2>1, <2>3, <3>2 DEF UpdateStatus
    <2>4. ASSUME skills' = skills
          PROVE  Stands
      BY <2>4
    <2>5. ASSUME NEW c \in calls, Fail(c) \/ ServeExtract(c) \/ ServeBootstrap(c) \/ Transition(c)
          PROVE  skills' = skills
      BY <2>5 DEF Fail, ServeExtract, ServeBootstrap, Transition
    <2>6. ASSUME NEW c \in calls, SetError(c) \/ Abandon(c) \/ Forgotten(c) \/ AcceptExtract(c)
                   \/ AcceptBootstrap(c) \/ AcceptAnswers(c) \/ ApplyServerStatus(c)
          PROVE  skills' = skills
      BY <2>6 DEF SetError, Abandon, Forgotten, AcceptExtract, AcceptBootstrap, AcceptAnswers,
                  ApplyServerStatus
    <2>7. ASSUME PickDomain \/ Extract \/ Bootstrap \/ ToggleCandidate \/ BackToDocChoice
                   \/ SubmitPolicyAnswers \/ Decide \/ PushFollowUpQuestion \/ Reset
          PROVE  skills' = skills
      BY <2>7 DEF PickDomain, Extract, Bootstrap, ToggleCandidate, BackToDocChoice,
                  SubmitPolicyAnswers, Decide, PushFollowUpQuestion, Reset
    <2> HIDE DEF Stands
    <2> QED
      BY <2>2, <2>3, <2>4, <2>5, <2>6, <2>7 DEF WizardNext, Serves, Arrives
  <1> QED
    BY <1>1, WizardBegins, WizardKeeps, PTL DEF WizardSpec, DecisionStands

=============================================================================
