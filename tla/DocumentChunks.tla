---------------------------- MODULE DocumentChunks -----------------------------
(***************************************************************************)
(* The pieces a document is cut into before its policies are extracted     *)
(* (AI_Agent/app/services/document_parser.py).  A text is a sequence of    *)
(* characters, "n" a line break and "x" any that is not blank; a piece is  *)
(* where it begins and ends in the stripped text of its page.              *)
(***************************************************************************)
EXTENDS Integers, Sequences, FiniteSetsExt

CONSTANTS Documents       \* records of mime type, pages, size and overlap

ASSUME DocumentsAssumption ==
  \A d \in Documents : d.pages \in Seq(Seq(STRING)) /\ d.size \in Int /\ d.overlap \in Int

VARIABLES doc, parsed
chunkVars == <<doc, parsed>>

Supported == {"application/pdf", "text/markdown", "text/plain"}

-----------------------------------------------------------------------------
Solid(t) == {k \in DOMAIN t : t[k] # "n"}
Strip(t) == IF Solid(t) = {} THEN <<>> ELSE SubSeq(t, Min(Solid(t)), Max(Solid(t)))

(* Where a window that begins after start characters ends: at a blank line *)
(* in its last quarter, if there is one and the text goes on.              *)
WindowEnd(t, size, start) ==
  LET end    == start + size
      blanks == {p \in (start + (size * 3) \div 4)..(end - 2) :
                   p > start /\ t[p + 1] = "n" /\ t[p + 2] = "n"}
  IN  IF end < Len(t) /\ blanks # {} THEN Max(blanks) ELSE end

(* Mutant: the first character after the window is left out. *)
NextStart_Skips(start, end, overlap) ==
  IF overlap = 0 THEN end + 1 ELSE Max({end - overlap, start + 1})

NextStart(start, end, overlap) == Max({end - overlap, start + 1})

(* _chunk_text: stripped windows; one that is blank gives nothing. *)
Piece(t, start, end) ==
  LET solid == {k \in Solid(t) : k > start /\ k <= end}
  IN  IF solid = {} THEN <<>> ELSE <<[from |-> Min(solid), to |-> Max(solid)]>>

ChunkText(text, size, overlap) ==
  LET t == Strip(text)
      from[start \in 0..Len(t)] ==
        IF start >= Len(t) THEN <<>>
        ELSE LET end == WindowEnd(t, size, start)
             IN  Piece(t, start, end) \o
                 (IF end >= Len(t) \/ NextStart(start, end, overlap) >= Len(t) THEN <<>>
                  ELSE from[NextStart(start, end, overlap)])
  IN  IF Len(t) <= size THEN Piece(t, 0, Len(t)) ELSE from[0]

(* _parse_pdf: page after page, numbered throughout; a page without text   *)
(* gives nothing, and each piece goes with the image of its page.          *)
ParsePages(pages, size, overlap) ==
  LET upTo[n \in 0..Len(pages)] ==
        IF n = 0 THEN <<>>
        ELSE LET pieces == ChunkText(pages[n], size, overlap)
             IN  upTo[n - 1] \o
                 [k \in DOMAIN pieces |-> [index |-> Len(upTo[n - 1]) + k - 1, page |-> n,
                                           from |-> pieces[k].from, to |-> pieces[k].to]]
  IN  upTo[Len(pages)]

ChunksInit == doc \in Documents /\ parsed = [at |-> "received"]

(* parse_document: pages other than a PDF's are one, without an image.     *)
ParseDocument ==
  /\ parsed.at = "received"
  /\ parsed' =
       IF doc.mime \notin Supported THEN [at |-> "unsupported"]
       ELSE IF doc.size <= 0 \/ doc.overlap < 0 \/ doc.overlap >= doc.size THEN [at |-> "invalid"]
       ELSE [at |-> "done", chunks |-> ParsePages(doc.pages, doc.size, doc.overlap)]
  /\ UNCHANGED doc

ChunksSpec == ChunksInit /\ [][ParseDocument]_chunkVars

-----------------------------------------------------------------------------
(* Nothing of the document is lost: every character that is not blank is   *)
(* in a piece of its own page.  No piece is longer than asked for, begins  *)
(* or ends blank, or is listed out of order (document_parser.py:176-206).  *)
ChunksExact ==
  parsed.at = "done" =>
    LET cs == parsed.chunks
        Page(n) == Strip(doc.pages[n])
    IN  /\ \A n \in DOMAIN doc.pages : \A k \in Solid(Page(n)) :
             \E c \in DOMAIN cs : cs[c].page = n /\ k \in cs[c].from..cs[c].to
        /\ \A c \in DOMAIN cs :
             /\ cs[c].index = c - 1
             /\ cs[c].to - cs[c].from < doc.size
             /\ {cs[c].from, cs[c].to} \subseteq Solid(Page(cs[c].page))
        /\ \A c \in 2..Len(cs) :
             \/ cs[c].page > cs[c - 1].page
             \/ cs[c].page = cs[c - 1].page /\ cs[c].from >= cs[c - 1].from
=============================================================================
