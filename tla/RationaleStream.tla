---------------------------- MODULE RationaleStream ----------------------------
(***************************************************************************)
(* The reply of a streamed compose call, as the API server cuts it up:     *)
(* what stands inside the rationale tags goes to the browser at once, what *)
(* follows is collected and parsed as the result when the reply ends       *)
(* (_RationaleStreamParser and _parse_result).  A model breaks its reply   *)
(* into chunks wherever it likes, tags included, so a few characters are   *)
(* always held back.                                                       *)
(*                                                                         *)
(* A reply is a sequence of symbols.  The tags are shortened to OPEN and   *)
(* CLOSE, which share their first symbol as the real ones do; "_" is a     *)
(* blank and the braces delimit JSON.                                      *)
(***************************************************************************)
EXTENDS Integers, Sequences, SequencesExt

CONSTANT Replies          \* what a model may answer

(* A reply is a sequence, of any symbols. *)
ASSUME StreamAssumption == \A s \in Replies : s \in Seq({s[i] : i \in DOMAIN s})

OPEN  == <<"<", "r", ">">>
CLOSE == <<"<", "/", "r", ">">>

VARIABLES reply,          \* the whole answer of this call
          fed,            \* how much of it the backend has yielded
          st,             \* PRE, IN, POST; DONE once finish() has returned
          buf,            \* what the parser holds back
          shown,          \* the rationale the browser has been sent
          tail            \* json_tail

streamVars == <<reply, fed, st, buf, shown, tail>>

(* str.find: the position of the first occurrence of p in s, 0 if none. *)
Find(s, p) ==
  LET at == {i \in 1..(Len(s) - Len(p) + 1) : SubSeq(s, i, i + Len(p) - 1) = p}
  IN  IF at = {} THEN 0 ELSE CHOOSE i \in at : \A j \in at : i <= j

From(s, i)   == SubSeq(s, i, Len(s))
Newest(s, n) == IF Len(s) > n THEN From(s, Len(s) - n + 1) ELSE s
IsBlank(s)   == \A i \in 1..Len(s) : s[i] = "_"

(* The loop of feed() goes through the three states in order, each once. *)
InPre(p) ==
  LET i == Find(p.buf, OPEN)
  IN  IF p.st # "PRE" THEN p
      ELSE IF i = 0 THEN [p EXCEPT !.buf = Newest(p.buf, Len(OPEN) - 1)]
      ELSE [p EXCEPT !.buf = From(p.buf, i + Len(OPEN)), !.st = "IN"]

Kept_Short(b) == Newest(b, Len(CLOSE) - 2)
(* What IN holds back: the longest beginning of CLOSE that could be there. *)
Kept(b) == Newest(b, Len(CLOSE) - 1)

InIn(p) ==
  LET i == Find(p.buf, CLOSE)
      k == Kept(p.buf)
  IN  IF p.st # "IN" THEN p
      ELSE IF i = 0
      THEN [p EXCEPT !.buf = k,
                     !.shown = p.shown \o SubSeq(p.buf, 1, Len(p.buf) - Len(k))]
      ELSE [p EXCEPT !.buf = From(p.buf, i + Len(CLOSE)), !.st = "POST",
                     !.shown = p.shown \o SubSeq(p.buf, 1, i - 1)]

InPost(p) ==
  IF p.st # "POST" THEN p ELSE [p EXCEPT !.tail = p.tail \o p.buf, !.buf = <<>>]

Parser == [st |-> st, buf |-> buf, shown |-> shown, tail |-> tail]

Become(p) == st' = p.st /\ buf' = p.buf /\ shown' = p.shown /\ tail' = p.tail

StreamInit ==
  /\ reply \in Replies
  /\ fed = 0
  /\ st = "PRE"
  /\ buf = <<>>
  /\ shown = <<>>
  /\ tail = <<>>

(* The backend yields one more chunk, of any length. *)
Feed(n) ==
  /\ st # "DONE"
  /\ fed + n <= Len(reply)
  /\ fed' = fed + n
  /\ LET chunk == SubSeq(reply, fed + 1, fed + n)
     IN  Become(InPost(InIn(InPre([Parser EXCEPT !.buf = buf \o chunk]))))
  /\ UNCHANGED reply

(* From the first brace to the last one, when there are both in that order. *)
Clip(s) ==
  LET open  == {i \in 1..Len(s) : s[i] = "{"}
      close == {i \in 1..Len(s) : s[i] = "}"}
  IN  {SubSeq(s, i, j) : i \in {i \in open : \A k \in open : i <= k},
                         j \in {j \in close : \A k \in close : k <= j}} \ {<<>>}

(* The reply is over: what was held back is rationale after all, and a     *)
(* reply with nothing after the tags is searched for braces as a whole.    *)
Finish ==
  /\ st # "DONE" /\ fed = Len(reply)
  /\ shown' = IF st = "IN" THEN shown \o buf ELSE shown
  /\ tail' = IF IsBlank(tail) /\ Clip(reply) # {}
             THEN CHOOSE c \in Clip(reply) : TRUE ELSE tail
  /\ st' = "DONE"
  /\ buf' = <<>>
  /\ UNCHANGED <<reply, fed>>

StreamNext == (\E n \in 1..Len(reply) : Feed(n)) \/ Finish

StreamSpec == StreamInit /\ [][StreamNext]_streamVars

-----------------------------------------------------------------------------
(* What the prompt asks the model to write, read off the whole text. *)
Rationale(s) ==
  LET i == Find(s, OPEN)
      rest == From(s, i + Len(OPEN))
      j == Find(rest, CLOSE)
  IN  IF i = 0 THEN <<>> ELSE IF j = 0 THEN rest ELSE SubSeq(rest, 1, j - 1)

Closed(s) == Find(s, OPEN) # 0 /\ Find(From(s, Find(s, OPEN) + Len(OPEN)), CLOSE) # 0

AfterTags(s) ==
  From(s, Find(s, OPEN) + Len(OPEN) + Len(Rationale(s)) + Len(CLOSE))

(* However the reply is cut into chunks: no character of a tag is ever     *)
(* shown, at most the length of a tag is held back, and at the end the     *)
(* browser has the whole rationale and the parser all that follows it      *)
(* (ai_composer_service.py:334-405).                                       *)
NeverLeaks == IsPrefix(shown, Rationale(reply))

HoldsBackATag ==
  Len(Rationale(SubSeq(reply, 1, fed))) - Len(shown) < Len(CLOSE)

EndsWhole ==
  st = "DONE" =>
    /\ shown = Rationale(reply)
    /\ Closed(reply) /\ ~IsBlank(AfterTags(reply)) => tail = AfterTags(reply)
    /\ ~Closed(reply) => tail \in Clip(reply) \union {<<>>}

StreamExact == NeverLeaks /\ HoldsBackATag /\ EndsWhole
=============================================================================
