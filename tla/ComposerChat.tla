------------------------------ MODULE ComposerChat ------------------------------
(***************************************************************************)
(* A turn of the composer's chat, from the form to the draft it offers:    *)
(* the panel posts the message, the server answers with frames (a session, *)
(* pieces of rationale, then one result or error), and the browser         *)
(* dispatches them into the composer store, which outlives the panel.      *)
(*                                                                         *)
(* One stream at a time is read: a submission aborts the one before.  How  *)
(* the rationale is cut out of the reply is in RationaleStream; here a     *)
(* piece is a frame.                                                       *)
(***************************************************************************)
EXTENDS Integers, Sequences

CONSTANTS MaxTurns,       \* bound on submissions
          MaxDeltas       \* bound on the pieces of one reply

VARIABLES open,           \* the panel is shown
          pending,        \* a turn is waiting for its end
          bubble,         \* pieces in the typing bubble
          offered,        \* a draft waits for Apply or Reject
          error,          \* lastError is set
          turns,          \* submissions so far
          server,         \* none, asked, talking, or how the reply was left:
                          \* ended (last chunk sent), broken (connection reset)
          said,           \* pieces the server has sent in this reply
          wire,           \* frames sent and not read
          did             \* history: what the user or the network has done

chatVars == <<open, pending, bubble, offered, error, turns, server, said, wire, did>>

Frames == {"session", "delta", "clarify", "draft", "error", "cut"}

ChatTypeOK ==
  /\ {open, pending, offered, error} \subseteq BOOLEAN
  /\ bubble \in 0..MaxDeltas /\ said \in 0..MaxDeltas /\ turns \in 0..MaxTurns
  /\ server \in {"none", "asked", "talking", "ended", "broken"}
  /\ wire \in Seq(Frames)

ChatInit ==
  /\ open = FALSE /\ pending = FALSE /\ bubble = 0
  /\ offered = FALSE /\ error = FALSE
  /\ turns = 0 /\ server = "none" /\ said = 0 /\ wire = <<>>
  /\ did = {}

-----------------------------------------------------------------------------
(* compose_stream and the router's _iter. *)
Send(f, next) ==
  /\ wire' = Append(wire, f)
  /\ server' = next
  /\ UNCHANGED <<open, pending, bubble, offered, error, turns, did>>

OpenReply == server = "asked" /\ Send("session", "talking") /\ UNCHANGED said

(* No backend, the budget spent, an answer that does not parse, or the     *)
(* backend failing: one error frame ends the reply.                        *)
SendError == server = "talking" /\ Send("error", "ended") /\ UNCHANGED said

SendDelta ==
  /\ server = "talking" /\ said < MaxDeltas
  /\ said' = said + 1
  /\ Send("delta", "talking")

(* A question back, or a draft or refinement to apply. *)
SendResult ==
  /\ server = "talking"
  /\ \E f \in {"clarify", "draft"} : Send(f, "ended")
  /\ UNCHANGED said

(* The request is refused, the node catalog cannot be read, the connection *)
(* goes: the browser's read throws.                                        *)
Break ==
  /\ server \in {"asked", "talking"}
  /\ server' = "broken"
  /\ UNCHANGED <<open, pending, bubble, offered, error, turns, said, wire, did>>

(* A proxy closes the reply without an error, perhaps within a frame.      *)
Cut ==
  /\ server = "talking"
  /\ did' = did \union {"cut"}
  /\ wire' = Append(wire, "cut")
  /\ server' = "ended"
  /\ UNCHANGED <<open, pending, bubble, offered, error, turns, said>>

Serve == OpenReply \/ SendError \/ SendDelta \/ SendResult

-----------------------------------------------------------------------------
(* The panel: its form, and the buttons below a draft. *)
CanSend == open /\ ~pending
CanDecide == open /\ offered

Submit ==
  /\ CanSend /\ turns < MaxTurns
  /\ turns' = turns + 1
  /\ pending' = TRUE /\ error' = FALSE /\ bubble' = 0
  /\ server' = "asked" /\ said' = 0 /\ wire' = <<>>
  /\ UNCHANGED <<open, offered, did>>

TurnOver == pending' = FALSE /\ bubble' = 0

OnError ==
  /\ error' = TRUE
  /\ TurnOver
  /\ UNCHANGED offered

(* dispatchFrame(): part of a frame is dropped like a comment. *)
ReadFrame ==
  /\ wire # <<>>
  /\ wire' = Tail(wire)
  /\ CASE Head(wire) = "error" -> OnError
       [] Head(wire) \in {"clarify", "draft"} ->
            offered' = (Head(wire) = "draft") /\ TurnOver /\ UNCHANGED error
       [] Head(wire) = "delta" ->
            bubble' = bubble + 1 /\ UNCHANGED <<pending, offered, error>>
       [] OTHER -> UNCHANGED <<pending, bubble, offered, error>>
  /\ UNCHANGED <<open, turns, server, said, did>>

(* The reader meets the end of the reply: nothing more is done if it was   *)
(* closed, and the error is shown if it broke.                             *)
ReadEnd ==
  /\ wire = <<>> /\ server \in {"ended", "broken"}
  /\ server' = "none" /\ said' = 0
  /\ IF server = "broken" THEN OnError ELSE UNCHANGED <<pending, bubble, offered, error>>
  /\ UNCHANGED <<open, turns, wire, did>>

Read == ReadFrame \/ ReadEnd

(* Mutant: closing the panel aborts the stream, as the comments have it.   *)
Toggle_Aborts ==
  /\ open' = ~open
  /\ IF open THEN server' = "none" /\ wire' = <<>> /\ said' = 0 ELSE UNCHANGED <<server, wire, said>>
  /\ UNCHANGED <<pending, bubble, offered, error, turns, did>>

(* The toolbar's button and the panel's cross.  The component stays        *)
(* mounted, though it shows nothing (editor.tsx:60, chat-panel.tsx:71):    *)
(* its cleanup does not run and it goes on reading.  The comments say      *)
(* otherwise ("Closing the panel also unmounts", chat-panel.tsx:52, and     *)
(* "panel close" among the aborts, :114).                                  *)
Toggle ==
  /\ open' = ~open
  /\ UNCHANGED <<pending, bubble, offered, error, turns, server, said, wire, did>>

Reject ==
  /\ CanDecide
  /\ offered' = FALSE
  /\ UNCHANGED <<open, pending, bubble, error, turns, server, said, wire, did>>

(* The editor goes away, and the panel with it: its cleanup aborts the     *)
(* stream, whose AbortError is swallowed.  The store keeps the rest.       *)
Unmount(more) ==
  /\ did' = did \union more \union IF pending THEN {"unmount"} ELSE {}
  /\ server' = "none" /\ wire' = <<>> /\ said' = 0
  /\ UNCHANGED <<open, pending, bubble, offered, error, turns>>

(* A turn that was submitted ends in a message, an error or a draft, and   *)
(* the form can be used again, unless the reply was closed without its     *)
(* last frame or the editor left the page (chat-panel.tsx:73-120).  That   *)
(* the user closes the panel meanwhile is no exception only because it     *)
(* does not abort the stream: the abort its comments (:52, :114) speak of  *)
(* is swallowed and would leave the turn pending (Toggle_Aborts).          *)
PendingEnds ==
  LET lost == did \intersect {"cut", "unmount"} # {}
  IN  (pending /\ ~lost) ~> (~pending \/ lost)
=============================================================================
