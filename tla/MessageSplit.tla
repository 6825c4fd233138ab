---------------------------- MODULE MessageSplit ----------------------------
(***************************************************************************)
(* splitMessage of the Telegram gateway, which closes and reopens code      *)
(* blocks, and of the Signal gateway, which does not look at them.  A text  *)
(* is a sequence of bytes, of which only these are told apart: newlines,    *)
(* spaces and the ticks that fences are made of.                            *)
(***************************************************************************)
EXTENDS Integers, Sequences, SequencesExt, FiniteSetsExt

CONSTANTS
  MaxPieces,  \* bound: how many bytes and fences the texts looked at are made of
  MaxLens     \* the limits looked at

Fence == <<"tick", "tick", "tick">>
Pieces == {<<"x">>, <<"newline">>, <<"space">>, Fence}

VARIABLES
  fences,     \* whether code fences are tracked
  maxLen,
  text,
  remaining,
  chunks,
  inCode,     \* inCodeBlock
  lang        \* codeFenceLang

vars == <<fences, maxLen, text, remaining, chunks, inCode, lang>>

Init ==
  /\ fences \in BOOLEAN /\ maxLen \in MaxLens
  /\ \E n \in 1..MaxPieces : \E pieces \in [1..n -> Pieces] : text = FlattenSeq(pieces)
  /\ remaining = text /\ chunks = <<>> /\ inCode = FALSE /\ lang = <<>>

\* strings.LastIndex, from one and zero when there is none.
LastIndex(s, part) ==
  Max({0} \cup {i \in 1..(Len(s) - Len(part) + 1) : SubSeq(s, i, i + Len(part) - 1) = part})

\* Mutant: the cut is one further, past a separator that ends the candidate.
SplitAtMutant(s) ==
  LET at(part) == LastIndex(SubSeq(s, 1, maxLen), part)
  IN  CASE at(<<"newline", "newline">>) > 1 -> at(<<"newline", "newline">>) + 1
        [] at(<<"newline">>) > 1 -> at(<<"newline">>) + 1
        [] at(<<"space">>) > 1 -> at(<<"space">>) + 1
        [] OTHER -> maxLen

\* Where to cut: after the first newline of a paragraph's end, else after a line,
\* else after a word, else at the limit.  A separator in front does not count.
SplitAt(s) ==
  LET at(part) == LastIndex(SubSeq(s, 1, maxLen), part)
  IN  CASE at(<<"newline", "newline">>) > 1 -> at(<<"newline", "newline">>)
        [] at(<<"newline">>) > 1 -> at(<<"newline">>)
        [] at(<<"space">>) > 1 -> at(<<"space">>)
        [] OTHER -> maxLen

\* The fences of a chunk, one after the other.
FencesOf(s) ==
  LET from[i \in 1..(Len(s) + 1)] ==
        IF i + 2 > Len(s) THEN <<>>
        ELSE IF SubSeq(s, i, i + 2) = Fence THEN <<i>> \o from[i + 3]
        ELSE from[i + 1]
  IN  from[1]

TrimSpace(s) ==
  LET kept == {i \in DOMAIN s : s[i] \notin {"space", "newline"}}
  IN  IF kept = {} THEN <<>> ELSE SubSeq(s, Min(kept), Max(kept))

\* The language tag: what follows a fence on its line, as far as the chunk has it.
TagAt(s, i) ==
  LET after == SubSeq(s, i + 3, Len(s))
      ends == {k \in DOMAIN after : after[k] = "newline"}
  IN  TrimSpace(IF ends = {} THEN after ELSE SubSeq(after, 1, Min(ends) - 1))

\* Every other fence of a chunk that begins outside of a block opens one; the last of
\* them leaves its tag.
CaptureTag(s) ==
  LET found == FencesOf(s)
      opening == {k \in DOMAIN found : k % 2 = 1}
  IN  IF inCode \/ opening = {} THEN lang ELSE TagAt(s, found[Max(opening)])

\* One turn of the loop.  An odd number of fences flips inCodeBlock, the reopened
\* one included; inside a block the chunk is closed and the rest reopened.
Split ==
  /\ remaining # <<>> /\ Len(remaining) > maxLen
  /\ LET n == SplitAt(remaining)
         chunk == SubSeq(remaining, 1, n)
         rest == SubSeq(remaining, n + 1, Len(remaining))
         inside == inCode # (Len(FencesOf(chunk)) % 2 = 1)
     IN  IF ~fences
         THEN chunks' = Append(chunks, chunk) /\ remaining' = rest /\ UNCHANGED <<inCode, lang>>
         ELSE /\ lang' = CaptureTag(chunk) /\ inCode' = inside
              /\ chunks' = Append(chunks, IF inside THEN chunk \o <<"newline">> \o Fence ELSE chunk)
              /\ remaining' = IF inside THEN Fence \o lang' \o <<"newline">> \o rest ELSE rest
  /\ UNCHANGED <<fences, maxLen, text>>

\* What fits is the last chunk.
LastChunk ==
  /\ remaining # <<>> /\ Len(remaining) <= maxLen
  /\ chunks' = Append(chunks, remaining) /\ remaining' = <<>>
  /\ UNCHANGED <<fences, maxLen, text, inCode, lang>>

Next == Split \/ LastChunk

Spec == Init /\ [][Next]_vars

-----------------------------------------------------------------------------

Joined == FlattenSeq(chunks) \o remaining

\* How much of the text has been met when the sequence has been read.
Met(s) == FoldLeft(LAMBDA n, c : IF n < Len(text) /\ c = text[n + 1] THEN n + 1 ELSE n, 0, s)

\* Whatever is cut where, and whatever tag is taken from a fence and repeated: all of the
\* text is in the chunks and the rest, in order, and without fences nothing else is; no
\* chunk is empty or longer than the limit, but for a fence that closes it; and though
\* reopening a block puts text back, the cutting comes to an end.
SplitKeepsText ==
  /\ Met(Joined) = Len(text)
  /\ ~fences => Joined = text
  /\ \A k \in DOMAIN chunks : Len(chunks[k]) \in 1..(maxLen + IF fences THEN 4 ELSE 0)
  /\ Len(chunks) <= 2 * Len(text)

=============================================================================
