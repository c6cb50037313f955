------------------------------ MODULE TagLayout ------------------------------
(***************************************************************************)
(* The bytes of a file whose tag is rewritten (core/src/tags/write.rs and   *)
(* the writers of its containers): a writer names the sections of the file  *)
(* it replaces and copies the rest, and whatever points into the file must  *)
(* follow.                                                                  *)
(*                                                                         *)
(* A file is a sequence of cells: a piece of audio, of a tag or of          *)
(* something else, or a number the container keeps: the size of a chunk or  *)
(* an atom with all that is in it, the place of a piece of audio, the       *)
(* number of a page, the flag of a last block.  A cell is a pair of its     *)
(* kind and a number.  Places count from 0, as in the code.                 *)
(***************************************************************************)
EXTENDS Integers, Sequences, FiniteSets, SequencesExt

CONSTANTS Pieces,     \* pieces of audio of the file
          MaxTag,     \* largest tag, in cells
          MaxPlace    \* largest place an entry of a table can hold

ASSUME LayoutAssumption == Pieces \in Nat \ {0} /\ MaxTag \in Nat /\ MaxPlace \in Nat

Cell(kind, n) == <<kind, n>>
Kind(cell) == cell[1]
Number(cell) == cell[2]
Repeat(cell, n) == [i \in 1 .. n |-> cell]
Audio == [i \in 1 .. Pieces |-> Cell("audio", i)]
Indices(s, kind) == {i \in DOMAIN s : Kind(s[i]) = kind}

(* The first n entries of a file, and what follows the first n.              *)
Before(s, n) == SubSeq(s, 1, n)
After(s, n) == SubSeq(s, n + 1, Len(s))

Section(first, last, cells) == [start |-> first, end |-> last, data |-> cells]
----------------------------------------------------------------------------
(* FLAC: blocks, the last one flagged, then the frames.  The comment block   *)
(* is replaced where it is, or added; pictures are replaced by a new one.    *)
FlacBlocks(tag, pictures) ==
  <<Cell("block", 0)>> \o (IF tag > 0 THEN <<Cell("comment", tag)>> ELSE <<>>) \o Repeat(Cell("picture", 0), pictures)
Flagged(blocks) ==
  LET n == Len(blocks)
  IN [i \in 1 .. 2 * n |-> IF i % 2 = 1 THEN Cell("last", IF i = 2 * n - 1 THEN 1 ELSE 0) ELSE blocks[i \div 2]]
FlacFile(tag, pictures) == Flagged(FlacBlocks(tag, pictures)) \o Audio
FlacHeader(file, tag, cover) ==
  LET start  == Cardinality(Indices(file, "last")) * 2
      blocks == SelectSeq(Before(file, start), LAMBDA c : Kind(c) # "last")
      edited == IF Indices(blocks, "comment") = {} THEN Append(blocks, Cell("comment", tag))
                ELSE [i \in DOMAIN blocks |-> IF Kind(blocks[i]) = "comment" THEN Cell("comment", tag) ELSE blocks[i]]
      shown  == IF cover THEN Append(SelectSeq(edited, LAMBDA c : Kind(c) # "picture"), Cell("picture", 1)) ELSE edited
  IN <<Section(0, start, Flagged(shown))>>

(* MP3: a tag with its size, the audio, and perhaps an older tag that stays. *)
Mp3File(tag, old) ==
  (IF tag = 0 THEN <<>> ELSE <<Cell("size", tag + 1)>> \o Repeat(Cell("tag", 0), tag)) \o Audio \o Repeat(Cell("old", 0), old)
Mp3Header(file, tag) ==
  LET start == IF Kind(file[1]) = "size" THEN Number(file[1]) ELSE 0
  IN <<Section(0, start, <<Cell("size", tag + 1)>> \o Repeat(Cell("tag", 1), tag))>>

(* APE: the audio, the tag and its footer, and perhaps an older tag, which   *)
(* goes with the tag before it.                                             *)
ApeFile(tag, old) ==
  Audio \o (IF tag = 0 THEN <<>> ELSE Repeat(Cell("tag", 0), tag) \o <<Cell("footer", tag + 1)>>) \o Repeat(Cell("old", 0), old)
ApeEdit(file, tag) ==
  LET footer == Indices(file, "footer")
      end    == Len(file)
      start  == IF footer = {} THEN end
                ELSE LET f == CHOOSE f \in footer : TRUE IN f - Number(file[f])
  IN <<Section(start, end, Repeat(Cell("tag", 1), tag) \o <<Cell("footer", tag + 1)>>)>>

(* WAV and AIFF: the size of the whole, chunks, and perhaps the header of a  *)
(* chunk that is cut off.  Every tag chunk goes, a new one is appended.      *)
RiffTag(tag, new) == IF tag = 0 THEN <<>> ELSE <<Cell("size", tag + 1)>> \o Repeat(Cell("tag", new), tag)
RiffFile(tag, first, cut) ==
  LET body == (IF first THEN RiffTag(tag, 0) \o Audio ELSE Audio \o RiffTag(tag, 0)) \o Repeat(Cell("cut", 0), cut)
  IN <<Cell("riff", Len(body) - cut)>> \o body
RiffEdit(file, tag) ==
  LET chunks == Indices(file, "size")
      whole  == Len(file) - Cardinality(Indices(file, "cut"))
      gone   == {Section(i - 1, i - 1 + Number(file[i]), <<>>) : i \in chunks}
      left   == whole - 1 - MapThenSumSet(LAMBDA g : g.end - g.start, gone)
      new    == RiffTag(tag, 1)
  IN SetToSeq(gone) \o <<Section(0, 1, <<Cell("riff", left + Len(new))>>), Section(whole, Len(file), new)>>

(* Ogg: numbered pages; the comment takes as many as it needs.  When their   *)
(* number changes, every later page is numbered anew.                       *)
OggHeaders(tag) == [i \in 1 .. tag |-> Cell("page", i)]
OggFile(tag) ==
  <<Cell("page", 0)>> \o OggHeaders(tag)
    \o [i \in 1 .. 2 * Pieces |-> IF i % 2 = 1 THEN Cell("page", tag + 1 + i \div 2) ELSE Audio[i \div 2]]
OggRewrite(file, tag) ==
  LET pages  == Cardinality(Indices(file, "page")) - Pieces
      rest   == After(file, pages)
      new    == OggHeaders(tag)
      moved  == [i \in DOMAIN rest |-> IF Kind(rest[i]) = "page" THEN Cell("page", tag + 1 + i \div 2) ELSE rest[i]]
  IN IF tag + 1 = pages THEN <<Section(1, pages, new)>> ELSE <<Section(1, Len(file), new \o moved)>>

(* MP4: the moov atom, before or after the audio, with a table of places and *)
(* some or all of the atoms around the list of tags.  Every atom of that     *)
(* path ends where moov ends.                                               *)
Levels == {<<>>, <<"udta">>, <<"udta", "meta">>, <<"udta", "meta", "ilst">>, <<"meta", "ilst">>}
Mp4File(first, levels, tag) ==
  LET depth == Len(levels)
      held  == IF depth > 0 /\ levels[depth] = "ilst" THEN tag ELSE 0
      size  == 1 + Pieces + depth + held
      audio == 1 + (IF first THEN size ELSE 0) + 1
      moov  == <<Cell("moov", size)>> \o [i \in 1 .. Pieces |-> Cell("place", audio + i - 1)]
                 \o [j \in 1 .. depth |-> Cell(levels[j], depth - j + 1 + held)] \o Repeat(Cell("tag", 0), held)
      mdat  == <<Cell("mdat", 1 + Pieces)>> \o Audio
  IN <<Cell("ftyp", 1)>> \o (IF first THEN moov \o mdat ELSE mdat \o moov)

(* Places at or behind the change move with it.                             *)
ShiftOffsets(data, position, base, delta) ==
  [i \in DOMAIN data |-> IF Kind(data[i]) = "place" /\ Number(data[i]) >= base + position
                         THEN Cell("place", Number(data[i]) + delta) ELSE data[i]]
Grow(data, ancestors, delta) ==
  [i \in DOMAIN data |-> IF Kind(data[i]) \in ancestors THEN Cell(Kind(data[i]), Number(data[i]) + delta) ELSE data[i]]
Replace(data, first, last, new, ancestors, base) ==
  LET delta == Len(new) - (last - first)
  IN ShiftOffsets(Grow(Before(data, first), ancestors, delta) \o new \o After(data, last), first, base, delta)
EnsureIlst(data, base) ==
  LET present == {Kind(data[i]) : i \in DOMAIN data} \cap {"udta", "meta", "ilst"}
      missing == CASE present = {} -> <<"udta", "meta", "ilst">>
                   [] present = {"udta"} -> <<"meta", "ilst">>
                   [] present = {"udta", "meta"} -> <<"ilst">>
                   [] OTHER -> <<>>
      n == Len(missing)
  IN IF n = 0 THEN data
     ELSE Replace(data, Len(data), Len(data), [j \in 1 .. n |-> Cell(missing[j], n - j + 1)], {"moov"} \cup present, base)
Mp4Edit(file, tag) ==
  LET at   == CHOOSE i \in Indices(file, "moov") : TRUE
      base == at - 1
      end  == base + Number(file[at])
      data == EnsureIlst(SubSeq(file, at, end), base)
      ilst == CHOOSE i \in Indices(data, "ilst") : TRUE
      new  == <<Cell("ilst", tag + 1)>> \o Repeat(Cell("tag", 1), tag)
  IN <<Section(base, end, Replace(data, ilst - 1, Len(data), new, {"moov", "udta", "meta"}, base))>>
----------------------------------------------------------------------------
VARIABLES layout,      \* the format and the cells of the source
          sections,    \* the sections to replace, in order, not yet written
          position,    \* how far the source has been read
          output,      \* the staged file
          rewrite      \* "open", "writes", or how it ended
layoutVars == <<layout, sections, position, output, rewrite>>

Sources ==
  UNION {{[format |-> "flac", cells |-> FlacFile(t, p)] : p \in 0 .. 2} \cup
         {[format |-> "mp3", cells |-> Mp3File(t, p)] : p \in 0 .. 1} \cup
         {[format |-> "ape", cells |-> ApeFile(t, p)] : p \in 0 .. 1} \cup
         {[format |-> "wav", cells |-> RiffFile(t, b, p)] : b \in BOOLEAN, p \in 0 .. 1} \cup
         {[format |-> "m4a", cells |-> Mp4File(b, v, t)] : b \in BOOLEAN, v \in Levels} : t \in 0 .. MaxTag} \cup
  {[format |-> "ogg", cells |-> OggFile(t)] : t \in 1 .. MaxTag}
LayoutInit ==
  /\ layout \in Sources
  /\ sections = <<>> /\ position = 0 /\ output = <<>>
  /\ rewrite = "open"

SectionsOf(format, file, tag, cover) ==
  CASE format = "flac" -> FlacHeader(file, tag, cover)
    [] format = "mp3" -> Mp3Header(file, tag)
    [] format = "ape" -> ApeEdit(file, tag)
    [] format = "wav" -> RiffEdit(file, tag)
    [] format = "ogg" -> OggRewrite(file, tag)
    [] format = "m4a" -> Mp4Edit(file, tag)

(* A place too large for its table ends the rewrite, and so do sections that *)
(* overlap.                                                                 *)
Fits(s) == \A j \in DOMAIN s : \A i \in DOMAIN s[j].data : Kind(s[j].data[i]) = "place" => Number(s[j].data[i]) <= MaxPlace
InOrder(s) == /\ \A j \in DOMAIN s : s[j].start <= s[j].end
              /\ \A j \in 1 .. Len(s) - 1 : s[j].end <= s[j + 1].start
Plan ==
  /\ rewrite = "open"
  /\ \E tag \in 1 .. MaxTag, cover \in BOOLEAN :
       LET s == SortSeq(SectionsOf(layout.format, layout.cells, tag, cover), LAMBDA a, b : a.start < b.start)
       IN IF Fits(s) /\ InOrder(s) THEN sections' = s /\ rewrite' = "writes"
          ELSE rewrite' = "error" /\ UNCHANGED sections
  /\ UNCHANGED <<layout, position, output>>

(* One buffer of the source up to the next section, or to its end.           *)
CopyNext ==
  /\ rewrite = "writes"
  /\ position < (IF sections = <<>> THEN Len(layout.cells) ELSE Head(sections).start)
  /\ output' = Append(output, layout.cells[position + 1])
  /\ position' = position + 1
  /\ UNCHANGED <<layout, sections, rewrite>>
WriteSection ==
  /\ rewrite = "writes"
  /\ sections # <<>> /\ position = Head(sections).start
  /\ output' = output \o Head(sections).data
  /\ position' = Head(sections).end
  /\ sections' = Tail(sections)
  /\ UNCHANGED <<layout, rewrite>>
EndRewrite ==
  /\ rewrite = "writes" /\ sections = <<>> /\ position = Len(layout.cells)
  /\ rewrite' = "done"
  /\ UNCHANGED <<layout, sections, position, output>>
(* A check that fails between two buffers: the staged file is dropped.       *)
StopRewrite ==
  /\ rewrite = "writes"
  /\ rewrite' = "error" /\ output' = <<>> /\ position' = 0 /\ sections' = <<>>
  /\ UNCHANGED layout
LayoutNext == Plan \/ CopyNext \/ WriteSection \/ EndRewrite \/ StopRewrite
LayoutSpec == LayoutInit /\ [][LayoutNext]_layoutVars
----------------------------------------------------------------------------
AudioOf(s) == SelectSeq(s, LAMBDA c : Kind(c) = "audio")
(* Every atom of the path to the tags ends where moov ends, and moov before  *)
(* the audio or at the end of the file.                                     *)
SizesRight(s) ==
  /\ \A i \in Indices(s, "moov") :
       LET end == i + Number(s[i]) IN
       /\ end = Len(s) + 1 \/ Kind(s[end]) = "mdat"
       /\ \A j \in i + 1 .. end - 1 : Kind(s[j]) \in {"udta", "meta", "ilst"} => j + Number(s[j]) = end
  /\ \A i \in Indices(s, "riff") : Number(s[i]) = Len(s) - 1
(* A file that is written completely has all its audio in order and once,    *)
(* and everything in it that points or counts is right: the places of an     *)
(* MP4 table lead to the same audio as before, the sizes of atoms and of a    *)
(* WAV file are those of what they hold, the pages of an Ogg file have         *)
(* consecutive numbers, the last block of a FLAC file, and only it, is        *)
(* flagged (write_sections, shift_offsets, grow, riff::edit, ogg::rewrite,    *)
(* flac_header).                                                             *)
RewrittenSound ==
  rewrite = "done" =>
    /\ AudioOf(output) = Audio
    /\ \A i \in Indices(output, "place") :
         \E j \in Indices(layout.cells, "place") :
            /\ output[Number(output[i]) + 1] = layout.cells[Number(layout.cells[j]) + 1]
            /\ Cardinality({k \in Indices(output, "place") : k < i})
                 = Cardinality({k \in Indices(layout.cells, "place") : k < j})
    /\ SizesRight(output)
    /\ \A i \in Indices(output, "page") : Number(output[i]) = Cardinality({k \in Indices(output, "page") : k < i})
    /\ \A i \in Indices(output, "last") : Number(output[i]) = 1 <=> \A k \in Indices(output, "last") : k <= i
=============================================================================
