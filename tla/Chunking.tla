------------------------------ MODULE Chunking -----------------------------
(***************************************************************************)
(* Cutting a document into chunks.  Every heading section is cut into      *)
(* parent windows and every parent window into child windows, which are    *)
(* what the index holds.  _split_by_size fills a buffer with paragraphs    *)
(* up to a target length, emits it, and keeps a tail of it as overlap; a   *)
(* paragraph above the maximum is cut by characters.  Here each turn of    *)
(* its loops is a step.                                                    *)
(*                                                                         *)
(* A text is a sequence of pieces, each a range of one paragraph of the    *)
(* section, joined by a separator of two characters.  Only lengths count,  *)
(* and where a paragraph has its line breaks.                              *)
(***************************************************************************)
EXTENDS Integers, Sequences, SequencesExt, FiniteSetsExt

CONSTANTS
  Lengths,     \* lengths of paragraphs (bound)
  MaxParas,    \* paragraphs of a section (bound)
  BreakAt,     \* where paragraphs may have line breaks (bound)
  Target,      \* PARENT_TARGET_CHARS, CHILD_TARGET_CHARS
  MaxChars,    \* PARENT_MAX_CHARS, CHILD_MAX_CHARS
  Overlap      \* PARENT_OVERLAP_CHARS, CHILD_OVERLAP_CHARS

Levels == {"parent", "child"}

Separator == 2

(* Of the overlap no more is needed than that it leaves room for a         *)
(* separator in the target; a paragraph is not empty.                      *)
ASSUME ChunkingAssumption ==
  /\ Lengths \subseteq Nat \ {0} /\ BreakAt \subseteq Nat /\ MaxParas \in Nat
  /\ {Target, MaxChars, Overlap} \subseteq [Levels -> Nat]
  /\ \A l \in Levels : Overlap[l] + Separator <= Target[l] /\ Target[l] <= MaxChars[l]

VARIABLES
  section,    \* the lengths of the section's paragraphs (input)
  breaks,     \* where its paragraphs have line breaks (input)
  level,      \* what is being cut: the section or a parent window
  rest,       \* pieces not looked at yet
  start,      \* where the hard split of the first of them goes on
  buf,        \* pieces of the window being filled
  buf_len,    \* its length, as the code keeps count of it
  phase,      \* "text", "paras", "hard", "done"
  parents,    \* parent windows to be cut into children
  children    \* child windows

chunkingVars == <<section, breaks, level, rest, start, buf, buf_len, phase, parents, children>>

Size(piece) == piece.to - piece.from

(* The characters of a text, each with the number of its piece, and its    *)
(* length with the separators.                                             *)
Characters(pieces) == UNION {{i} \X (pieces[i].from + 1 .. pieces[i].to) : i \in DOMAIN pieces}
Joined(pieces) == Cardinality(Characters(pieces))
                    + (IF pieces = <<>> THEN 0 ELSE Separator * (Len(pieces) - 1))

Paragraphs(lengths) ==
  [p \in 1 .. Len(lengths) |-> [para |-> p, from |-> 0, to |-> lengths[p]]]

Put(window) ==
  IF level = "parent"
  THEN parents' = Append(parents, window) /\ children' = children
  ELSE children' = Append(children, window) /\ parents' = parents

PutNone == UNCHANGED <<parents, children>>

(* The longest tail of the buffer that fits into the overlap.              *)
Last_(n, pieces) == SubSeq(pieces, Len(pieces) - n + 1, Len(pieces))
Fits(pieces) == {n \in 0 .. Len(pieces) : Joined(Last_(n, pieces)) <= Overlap[level]}
OverlapParts(pieces) == Last_(Max(Fits(pieces)), pieces)

---------------------------------------------------------------------------
(* A text within the maximum is one window.                                *)
Short ==
  /\ phase = "text" /\ Joined(rest) <= MaxChars[level]
  /\ Put(rest)
  /\ rest' = <<>>
  /\ phase' = "done"
  /\ UNCHANGED <<section, breaks, level, start, buf, buf_len>>

(* The text is cut when it is above the maximum.  The section counts with  *)
(* the blank lines between its paragraphs, which its windows leave out.    *)
Long ==
  /\ phase = "text"
  /\ Joined(rest) > MaxChars[level] \/ (level = "parent" /\ Len(rest) > 1)
  /\ phase' = "paras"
  /\ UNCHANGED <<section, breaks, level, rest, start, buf, buf_len, parents, children>>

(* emit() before a paragraph that would take the buffer over the target;   *)
(* the paragraph is added in any case.                                     *)
AddParagraph ==
  /\ phase = "paras" /\ rest # <<>> /\ Size(Head(rest)) <= MaxChars[level]
  /\ LET para == Head(rest)
         full == buf # <<>> /\ buf_len + Size(para) + Separator > Target[level]
         kept == IF full THEN OverlapParts(buf) ELSE buf
         len  == IF full THEN Joined(kept) ELSE buf_len
     IN  /\ IF full THEN Put(buf) ELSE PutNone
         /\ buf' = Append(kept, para)
         /\ buf_len' = len + Size(para) + (IF len > 0 THEN Separator ELSE 0)
  /\ rest' = Tail(rest)
  /\ UNCHANGED <<section, breaks, level, start, phase>>

(* Mutant: the buffer is dropped with the overlap.                         *)
LongParagraph_Drops ==
  /\ phase = "paras" /\ rest # <<>> /\ Size(Head(rest)) > MaxChars[level]
  /\ PutNone
  /\ buf' = OverlapParts(buf)
  /\ buf_len' = Joined(OverlapParts(buf))
  /\ start' = Head(rest).from
  /\ phase' = "hard"
  /\ UNCHANGED <<section, breaks, level, rest>>

(* emit() before a paragraph above the maximum, which is cut apart.        *)
LongParagraph ==
  /\ phase = "paras" /\ rest # <<>> /\ Size(Head(rest)) > MaxChars[level]
  /\ IF buf # <<>> THEN Put(buf) ELSE PutNone
  /\ buf' = OverlapParts(buf)
  /\ buf_len' = Joined(OverlapParts(buf))
  /\ start' = Head(rest).from
  /\ phase' = "hard"
  /\ UNCHANGED <<section, breaks, level, rest>>

(* A piece ends at the target, or at the last line break when that is in   *)
(* the second half of it.                                                  *)
PieceEnd(para) ==
  LET full == start + Target[level]
      late == {b \in breaks : start + (Target[level] \div 2) <= b /\ b < full}
  IN  IF full >= para.to THEN para.to
      ELSE IF late = {} THEN full ELSE Max(late)

(* One piece of a long paragraph; the next one starts an overlap earlier.  *)
HardSplit ==
  /\ phase = "hard"
  /\ LET para == Head(rest)
         end == PieceEnd(para)
     IN  /\ Put(<<[para EXCEPT !.from = start, !.to = end]>>)
         /\ IF end >= para.to
            THEN phase' = "paras" /\ rest' = Tail(rest) /\ start' = 0
            ELSE start' = Max({end - Overlap[level], start + 1}) /\ UNCHANGED <<phase, rest>>
  /\ UNCHANGED <<section, breaks, level, buf, buf_len>>

(* The emit() after the loop.                                              *)
LastEmit ==
  /\ phase = "paras" /\ rest = <<>>
  /\ IF buf # <<>> THEN Put(buf) ELSE PutNone
  /\ buf' = <<>> /\ buf_len' = 0
  /\ phase' = "done"
  /\ UNCHANGED <<section, breaks, level, rest, start>>

(* chunk_document goes on to the children of the next parent window.       *)
NextParent ==
  /\ phase = "done" /\ parents # <<>>
  /\ level' = "child"
  /\ rest' = Head(parents)
  /\ parents' = Tail(parents)
  /\ phase' = "text"
  /\ UNCHANGED <<section, breaks, start, buf, buf_len, children>>

Finished ==
  /\ phase = "done" /\ parents = <<>>
  /\ UNCHANGED chunkingVars

---------------------------------------------------------------------------
(* _split_by_heading leaves out sections without text.                     *)
Sections == UNION {[1 .. n -> Lengths] : n \in 1 .. MaxParas}

ChunkingInit ==
  /\ section \in Sections
  /\ breaks \in SUBSET BreakAt
  /\ level = "parent"
  /\ rest = Paragraphs(section)
  /\ start = 0
  /\ buf = <<>> /\ buf_len = 0
  /\ phase = "text"
  /\ parents = <<>> /\ children = <<>>

Step ==
  \/ Short \/ Long \/ AddParagraph \/ LongParagraph
  \/ HardSplit
  \/ LastEmit \/ NextParent

ChunkingNext == Step \/ Finished

ChunkingSpec == ChunkingInit /\ [][ChunkingNext]_chunkingVars

---------------------------------------------------------------------------
(* Properties.                                                             *)

Complete == phase = "done" /\ level = "child" /\ parents = <<>>

(* The count the code keeps of the buffer is the length of its text.       *)
ChunkingTypeOK ==
  /\ level \in Levels /\ phase \in {"text", "paras", "hard", "done"}
  /\ buf_len = Joined(buf)
  /\ \A window \in {rest, buf} \cup Range(parents) \cup Range(children) :
       \A i \in DOMAIN window :
         /\ window[i].para \in DOMAIN section
         /\ 0 <= window[i].from /\ window[i].from < window[i].to
         /\ window[i].to <= section[window[i].para]

(* Every character of the section can be found: the children hold all of   *)
(* every paragraph, through both levels of windows and hard splits.        *)
NothingIsLost ==
  Complete =>
    \A p \in DOMAIN section : \A at \in 0 .. section[p] - 1 :
      \E c \in Range(children) : \E piece \in Range(c) :
        piece.para = p /\ piece.from <= at /\ at < piece.to

(* A child is bounded, though not by CHILD_MAX_CHARS: the overlap comes on *)
(* top of a paragraph that may have that length by itself.                 *)
ChildrenAreBounded ==
  \A c \in Range(children) :
    Joined(c) <= MaxChars["child"] + Overlap["child"] + Separator

(* What retrieval finds of a section is all of it, in pieces a prompt can  *)
(* take: no character is lost in cutting, no child is too long.            *)
ChunksAreFaithful == NothingIsLost /\ ChildrenAreBounded

---------------------------------------------------------------------------
(* What the repository says and the code does not keep.                    *)

(* chunking.py:3: "Children are smaller windows of a parent": a window     *)
(* does not join paragraphs that do not follow each other.                 *)
WindowsAreContiguous ==
  \A c \in Range(children) : \A i \in 1 .. Len(c) - 1 : c[i + 1].para <= c[i].para + 1
===========================================================================
