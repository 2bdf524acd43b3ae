----------------------------- MODULE ComposerRelay -----------------------------
(***************************************************************************)
(* One turn of the composer, from the model to the browser.  The reply     *)
(* crosses up to three connections, each read by one process:              *)
(*                                                                         *)
(*   1  llama-server or the Anthropic API, read by AI_Agent                *)
(*      (llamacpp_gemma.py, anthropic.py) or by the API server itself      *)
(*   2  AI_Agent, read by the API server (ai_agent_client.py)              *)
(*   3  the API server, read by the browser (routers/ai_composer.py)       *)
(*                                                                         *)
(* The reply is a number of pieces, the first ones rationale, the others   *)
(* JSON; how the pieces are cut does not matter (RationaleStream).  Either *)
(* every piece is passed on as it comes, or the reply as a whole.          *)
(***************************************************************************)
EXTENDS Integers, Sequences

CONSTANT MaxPieces        \* bound: pieces of a reply

ASSUME RelayAssumption == MaxPieces \in Nat

VARIABLES turn,           \* what is asked for, and what the model will say
          link,           \* per connection: what is on it, and its two ends
          said,           \* pieces the model has said
          agent, service, \* where the two processes are
          whole,          \* pieces AI_Agent keeps until it has them all
          got,            \* pieces the API server has read
          held,           \* rationale its parser holds back: it may start a tag
          read,           \* frames the browser has read
          failed,         \* history: something failed on the way
          garbled         \* history: a line of the model's was skipped

relayVars == <<turn, link, said, agent, service, whole, got, held, read, failed, garbled>>

Turns == {t \in [direct : BOOLEAN, streaming : BOOLEAN, sound : BOOLEAN,
                 gate : {"pass", "disabled", "rate_limit", "catalog"},
                 rationale : 0..MaxPieces, pieces : 1..MaxPieces] :
            IF t.sound THEN t.rationale < t.pieces ELSE t.rationale <= t.pieces}

Closed == [items |-> <<>>, end |-> "none", reader |-> FALSE]
Opened == [items |-> <<>>, end |-> "open", reader |-> TRUE]
Up == IF turn.direct THEN 1 ELSE 2

RelayInit ==
  /\ turn \in Turns
  /\ link = [h \in 1..3 |-> IF h = 3 THEN Opened ELSE Closed]
  /\ said = 0 /\ agent = "none" /\ service = "asked"
  /\ whole = <<>> /\ got = <<>> /\ held = <<>> /\ read = <<>>
  /\ failed = FALSE /\ garbled = FALSE

(* What is written to a connection nobody reads any more is gone. *)
Put(l, items) == IF l.reader THEN [l EXCEPT !.items = @ \o items] ELSE l
End(l, how)   == [l EXCEPT !.end = how]
Leave(l)      == [l EXCEPT !.reader = FALSE, !.items = <<>>]

Waiting(h) == link[h].reader /\ link[h].items = <<>>
Ahead(h)   == Head(link[h].items)
Took(h)    == [link[h] EXCEPT !.items = Tail(@)]

-----------------------------------------------------------------------------
(* The model: a piece more, or the end of its reply. *)
Generate ==
  /\ link[1].end = "open" /\ link[1].reader
  /\ IF said < turn.pieces
     THEN said' = said + 1 /\ link' = [link EXCEPT ![1] = Put(@, <<said + 1>>)]
     ELSE link' = [link EXCEPT ![1] = End(@, "done")] /\ UNCHANGED said
  /\ UNCHANGED <<turn, agent, service, whole, got, held, read, failed, garbled>>

(* The connection breaks; or it ends as if the reply were complete, which  *)
(* a stream of lines cannot tell from its end without a [DONE].            *)
ModelFails ==
  /\ link[1].end = "open" /\ link[1].reader
  /\ \E how \in {"reset"} \union (IF turn.streaming /\ ~turn.direct THEN {"done"} ELSE {}) :
       link' = [link EXCEPT ![1] = End(@, how)]
  /\ failed' = TRUE
  /\ UNCHANGED <<turn, said, agent, service, whole, got, held, read, garbled>>

-----------------------------------------------------------------------------
(* AI_Agent: the request is let in, or turned away for its token. *)
AgentStarts ==
  /\ agent = "called"
  /\ agent' = "reading"
  /\ link' = [link EXCEPT ![1] = Opened]
  /\ UNCHANGED <<turn, said, service, whole, got, held, read, failed, garbled>>

AgentStops(how) ==
  /\ agent' = "over"
  /\ link' = [link EXCEPT ![1] = Leave(@), ![2] = End(@, how)]
  /\ UNCHANGED <<turn, said, service, whole, got, held, read, garbled>>

AgentRefuses ==
  agent = "called" /\ failed' = TRUE /\ AgentStops("reset")

AgentReads ==
  /\ agent = "reading" /\ link[1].items # <<>>
  /\ IF turn.streaming
     THEN link' = [link EXCEPT ![1] = Took(1), ![2] = Put(@, <<Ahead(1)>>)] /\ UNCHANGED whole
     ELSE whole' = Append(whole, Ahead(1)) /\ link' = [link EXCEPT ![1] = Took(1)]
  /\ UNCHANGED <<turn, said, agent, service, got, held, read, failed, garbled>>

(* A data line that is no JSON is skipped. *)
AgentSkips ==
  /\ agent = "reading" /\ link[1].items # <<>> /\ turn.streaming /\ ~garbled
  /\ link' = [link EXCEPT ![1] = Took(1)]
  /\ garbled' = TRUE /\ failed' = TRUE
  /\ UNCHANGED <<turn, said, agent, service, whole, got, held, read>>

AgentEnds ==
  /\ agent = "reading" /\ Waiting(1) /\ link[1].end = "done"
  /\ agent' = "over"
  /\ link' = [link EXCEPT ![1] = Leave(@), ![2] = End(Put(@, whole), "done")]
  /\ UNCHANGED <<turn, said, service, whole, got, held, read, failed, garbled>>

(* The connection broke, a chunk had no choices, or nothing came in time:  *)
(* its own reply, begun with a 200 when it streams, breaks off.            *)
AgentFails ==
  /\ agent = "reading"
  /\ \/ Waiting(1) /\ link[1].end \in {"open", "reset"}
     \/ link[1].items # <<>>
  /\ failed' = TRUE /\ AgentStops("reset")

(* A streamed reply is cancelled when its reader has gone; one that is     *)
(* sent as a whole is worked out to the end.                               *)
AgentCancelled ==
  /\ agent \in {"called", "reading"} /\ turn.streaming /\ ~link[2].reader
  /\ UNCHANGED failed /\ AgentStops("reset")

-----------------------------------------------------------------------------
(* compose: a session frame, for a stream; then the gate, in the order of  *)
(* the code: not configured, over the limit, no catalog.  A failure in the *)
(* catalog is the only one that is raised: no frame says so.  Without the  *)
(* user's skills the turn goes on.                                         *)
Frame(f) == <<f>>
Greeting == IF turn.streaming THEN Frame(<<"session">>) ELSE <<>>

Gate ==
  /\ service = "asked"
  /\ CASE turn.gate = "pass" ->
            /\ service' = "reading"
            /\ agent' = IF turn.direct THEN "none" ELSE "called"
            /\ link' = [link EXCEPT ![Up] = Opened, ![3] = Put(@, Greeting)]
       [] turn.gate \in {"disabled", "rate_limit"} ->
            /\ service' = "over"
            /\ link' = [link EXCEPT ![3] = End(Put(@, Greeting \o Frame(<<"error", turn.gate>>)), "done")]
            /\ UNCHANGED agent
       [] OTHER ->
            /\ service' = "over"
            /\ link' = [link EXCEPT ![3] = End(Put(@, Greeting), "reset")]
            /\ UNCHANGED agent
  /\ failed' = (failed \/ turn.gate = "catalog")
  /\ UNCHANGED <<turn, said, whole, got, held, read, garbled>>

Deltas(ps) == [i \in DOMAIN ps |-> <<"delta", ps[i]>>]

(* A piece is fed to the parser; rationale is shown at once or held back.  *)
ServiceReads ==
  /\ service = "reading" /\ link[Up].items # <<>>
  /\ LET p == Ahead(Up)
         out == IF p <= turn.rationale THEN Append(held, p) ELSE held
     IN  /\ got' = Append(got, p)
         /\ \E n \in (IF p <= turn.rationale THEN {0, 1} ELSE {0}) :
              /\ held' = SubSeq(out, Len(out) - n + 1, Len(out))
              /\ link' = [link EXCEPT ![Up] = Took(Up),
                            ![3] = IF turn.streaming THEN Put(@, Deltas(SubSeq(out, 1, Len(out) - n))) ELSE @]
  /\ UNCHANGED <<turn, said, agent, service, whole, read, failed, garbled>>

ServiceStops(frames, how) ==
  /\ service' = "over"
  /\ link' = [link EXCEPT ![Up] = Leave(@), ![3] = End(Put(@, frames), how)]
  /\ UNCHANGED <<turn, said, agent, whole, got, held, read, garbled>>

(* _parse_result: JSON that is cut off does not parse; JSON that lacks a   *)
(* line in the middle may.                                                 *)
Json == {p \in {got[k] : k \in DOMAIN got} : p > turn.rationale}
Parsed ==
  IF turn.sound /\ turn.pieces \in Json
  THEN {<<"result">>} \union (IF Json = (turn.rationale + 1)..turn.pieces THEN {} ELSE {<<"error", "invalid">>})
  ELSE {<<"error", "invalid">>}

(* Mutant: what the parser still holds is dropped. *)
Flushed_Dropped(v) == Frame(v)

Flushed(v) == (IF turn.streaming THEN Deltas(held) ELSE <<>>) \o Frame(v)

ServiceEnds ==
  /\ service = "reading" /\ Waiting(Up) /\ link[Up].end = "done"
  /\ \E v \in Parsed : ServiceStops(Flushed(v), "done")
  /\ UNCHANGED failed

(* The read fails, or times out: an error frame; a 500 when it is a whole. *)
ServiceFails ==
  /\ service = "reading" /\ Waiting(Up) /\ link[Up].end \in {"open", "reset"}
  /\ failed' = TRUE
  /\ ServiceStops(Frame(<<"error", "upstream">>), "done")

(* The browser has gone: the stream is cancelled, which closes what it     *)
(* reads from.                                                             *)
ServiceCancelled ==
  /\ service = "reading" /\ turn.streaming /\ ~link[3].reader
  /\ UNCHANGED failed /\ ServiceStops(<<>>, "reset")

-----------------------------------------------------------------------------
BrowserReads ==
  /\ link[3].items # <<>>
  /\ read' = Append(read, Ahead(3))
  /\ link' = [link EXCEPT ![3] = Took(3)]
  /\ UNCHANGED <<turn, said, agent, service, whole, got, held, failed, garbled>>

BrowserLeaves ==
  /\ link[3].reader /\ link[3].end = "open"
  /\ link' = [link EXCEPT ![3] = Leave(@)]
  /\ UNCHANGED <<turn, said, agent, service, whole, got, held, read, failed, garbled>>

AgentStep == AgentStarts \/ AgentReads \/ AgentEnds \/ AgentFails \/ AgentCancelled
ServiceStep == Gate \/ ServiceReads \/ ServiceEnds \/ ServiceFails \/ ServiceCancelled

RelayNext ==
  \/ Generate \/ ModelFails \/ AgentRefuses \/ AgentSkips
  \/ AgentStep \/ ServiceStep \/ BrowserReads \/ BrowserLeaves

(* The two processes go on; a read that waits for a silent model times     *)
(* out.  The model owes nothing.                                           *)
RelayFairness == WF_relayVars(AgentStep) /\ WF_relayVars(ServiceStep) /\ WF_relayVars(BrowserReads)
RelaySpec == RelayInit /\ [][RelayNext]_relayVars /\ RelayFairness

-----------------------------------------------------------------------------
Terminal(f) == f[1] \in {"result", "error"}
Delta(f) == f[1] = "delta"
Pieces(frames) == {frames[i][2] : i \in {k \in DOMAIN frames : Delta(frames[k])}}
Ended == link[3].end = "done" /\ link[3].reader /\ link[3].items = <<>>

(* The browser reads a session frame, rationale in the model's order and   *)
(* one terminal frame, the last.  A result is never made of a reply that   *)
(* was cut short, and when nothing failed the turn shows all of the        *)
(* rationale, then the result if the reply was sound                       *)
(* (ai_composer_service.py:530-591).                                       *)
RelayExact ==
  /\ \A i \in DOMAIN read :
       /\ read[i] = <<"session">> <=> i = 1 /\ turn.streaming
       /\ Terminal(read[i]) => i = Len(read) /\ service = "over"
  /\ \A i, j \in DOMAIN read :
       i < j /\ Delta(read[i]) /\ Delta(read[j]) => read[i][2] < read[j][2]
  /\ <<"result">> \in {read[i] : i \in DOMAIN read} =>
       turn.sound /\ got[Len(got)] = turn.pieces
  /\ Ended => Terminal(read[Len(read)])
  /\ Ended /\ ~failed /\ turn.gate = "pass" =>
       /\ turn.streaming => Pieces(read) = 1..turn.rationale
       /\ turn.sound => read[Len(read)] = <<"result">>

(* The turn ends for everyone: whether the model stops halfway, a          *)
(* connection breaks or the browser goes, both processes get done and the  *)
(* model is left (ai_composer_service.py:572-576).                         *)
LetGo(h) == ~link[h].reader
RelayEnds == <>[](service = "over" /\ agent \in {"none", "over"} /\ LetGo(1) /\ LetGo(2))
=============================================================================
