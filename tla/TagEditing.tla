----------------------------- MODULE TagEditing -----------------------------
(***************************************************************************)
(* The tags of one audio file, edited by several threads (the backend's    *)
(* edit_file_metadata and edit_audio_tags over core's tag writers) and read *)
(* back by core's tag readers.                                              *)
(*                                                                         *)
(* A tag is a sequence of items, each a key and a value.  A key stands for  *)
(* a Vorbis comment, an ID3 frame (with its description, for TXXX), an MP4  *)
(* atom or freeform name, or an APE item; keys are compared in upper case   *)
(* by the code.  A value is a pair: a text has its identity in the first    *)
(* place, an index its number and its total; Empty is the empty text.       *)
(* Readers know more keys than writers: the tables below are the point of   *)
(* the module.                                                              *)
(***************************************************************************)
EXTENDS Integers, Sequences, FiniteSets, SequencesExt

CONSTANTS Editors,      \* threads that edit the file
          Formats,      \* formats of the file
          EditFields,   \* fields an edit may name
          MaxText,      \* number of different texts, and the largest index
          MaxItems,     \* bound on the items of the first file
          MaxNamed      \* bound on the fields of one edit

ASSUME TagAssumption == MaxText \in Nat \ {0} /\ MaxItems \in Nat /\ MaxNamed \in Nat \ {0}

Empty == <<0, 0>>
Texts == {<<n, 0>> : n \in 1 .. MaxText}
TextFields == {"title", "album_artist", "date", "label", "comment", "lyrics", "upc", "album_type"}
Vorbis(format) == format \in {"flac", "ogg"}
Id3(format) == format \in {"mp3", "wav"}

(* The key an edited field is written under, by each writer.                *)
VorbisKeys ==
  [title |-> "TITLE", album_artist |-> "ALBUMARTIST", date |-> "DATE", label |-> "ORGANIZATION",
   comment |-> "COMMENT", lyrics |-> "LYRICS", upc |-> "BARCODE", album_type |-> "RELEASETYPE", track |-> "TRACKNUMBER"]
Id3Frames ==
  [title |-> "TIT2", album_artist |-> "TPE2", date |-> "TDRC", label |-> "TPUB", comment |-> "COMM",
   lyrics |-> "USLT", upc |-> "BARCODE", album_type |-> "RELEASETYPE", track |-> "TRCK"]
Mp4Atoms ==
  [title |-> "nam", album_artist |-> "aART", date |-> "day", label |-> "LABEL", comment |-> "cmt",
   lyrics |-> "lyr", upc |-> "BARCODE", album_type |-> "RELEASETYPE", track |-> "trkn"]
ApeKeys ==
  [title |-> "TITLE", album_artist |-> "ALBUM ARTIST", date |-> "YEAR", label |-> "LABEL", comment |-> "COMMENT",
   lyrics |-> "LYRICS", upc |-> "BARCODE", album_type |-> "RELEASETYPE", track |-> "TRACK"]
Written(format, field) ==
  CASE Vorbis(format) -> VorbisKeys[field]
    [] Id3(format) -> Id3Frames[field]
    [] format = "m4a" -> Mp4Atoms[field]
    [] format = "ape" -> ApeKeys[field]

(* The other keys an edit of the field takes away, by each writer.          *)
VorbisAliases(field) ==
  CASE field = "date" -> {"YEAR"}
    [] field = "label" -> {"LABEL", "PUBLISHER"}
    [] field = "album_artist" -> {"ALBUM ARTIST", "ALBUM_ARTIST"}
    [] field = "lyrics" -> {"UNSYNCEDLYRICS", "SYNCEDLYRICS"}
    [] field = "track" -> {"TRACK"}
    [] OTHER -> {}
Id3Aliases(field) == IF field = "date" THEN {"TYER", "TDAT", "TIME"} ELSE {}
Mp4Aliases(field) ==
  CASE field = "label" -> {"ORGANIZATION"}
    [] field = "lyrics" -> {"LYRICS", "UNSYNCEDLYRICS", "SYNCEDLYRICS"}
    [] OTHER -> {}
ApeAliases(field) ==
  CASE field = "date" -> {"DATE"}
    [] field = "label" -> {"PUBLISHER"}
    [] field = "album_artist" -> {"ALBUMARTIST"}
    [] field = "lyrics" -> {"UNSYNCEDLYRICS", "SYNCEDLYRICS"}
    [] field = "track" -> {"TRACKNUMBER"}
    [] OTHER -> {}
Aliases(format, field) ==
  CASE Vorbis(format) -> VorbisAliases(field)
    [] Id3(format) -> Id3Aliases(field)
    [] format = "m4a" -> Mp4Aliases(field)
    [] format = "ape" -> ApeAliases(field)

(* The keys a reader assigns the field from: the last item wins.            *)
OggSets(field) ==
  CASE field = "date" -> {"DATE", "YEAR"}
    [] field = "label" -> {"LABEL", "PUBLISHER", "ORGANIZATION"}
    [] field = "comment" -> {"COMMENT", "DESCRIPTION"}
    [] field = "track" -> {"TRACK", "TRACKNUMBER"}
    [] field = "upc" -> {"BARCODE", "UPC"}
    [] field = "lyrics" -> {}
    [] OTHER -> {VorbisKeys[field]}
Id3Sets(field) ==
  CASE field = "date" -> {"TYER", "TDRC"}
    [] field = "upc" -> {"BARCODE", "UPC"}
    [] field = "lyrics" -> {}
    [] OTHER -> {Id3Frames[field]}
Mp4Sets(field) ==
  CASE field = "label" -> {"LABEL", "ORGANIZATION"}
    [] field = "upc" -> {"BARCODE", "UPC"}
    [] OTHER -> {Mp4Atoms[field]}
ApeSets(field) ==
  CASE field = "label" -> {"LABEL", "PUBLISHER"}
    [] field = "album_artist" -> {"ALBUMARTIST", "ALBUM ARTIST"}
    [] field = "track" -> {"TRACK", "TRACKNUMBER"}
    [] field = "upc" -> {"BARCODE", "UPC"}
    [] field = "lyrics" -> {}
    [] OTHER -> {ApeKeys[field]}
Sets(format, field) ==
  CASE Vorbis(format) -> OggSets(field)
    [] Id3(format) -> Id3Sets(field)
    [] format = "m4a" -> Mp4Sets(field)
    [] format = "ape" -> ApeSets(field)

Compilation(format) == IF Id3(format) THEN "TCMP" ELSE IF format = "m4a" THEN "cpil" ELSE "COMPILATION"
(* The keys a reader takes only for a field that is still empty.            *)
Fills(format, field) ==
  CASE field = "lyrics" /\ Id3(format) -> {"USLT", "TXXX LYRICS"}
    [] field = "lyrics" /\ ~Id3(format) -> {"LYRICS", "UNSYNCEDLYRICS", "SYNCEDLYRICS"}
    [] field = "album_type" -> {Compilation(format)}
    [] field = "comment" /\ format = "m4a" -> {"COMMENT"}
    [] OTHER -> {}

(* The FLAC reader looks its keys up in an order, and so do the readers of  *)
(* dates of an APE file.                                                    *)
Ranks(format, field) ==
  CASE field = "date" -> <<"DATE", "YEAR">>
    [] field = "label" -> <<"ORGANIZATION", "LABEL", "PUBLISHER">>
    [] field = "album_artist" -> <<"ALBUMARTIST", "ALBUM ARTIST", "ALBUM_ARTIST">>
    [] field = "lyrics" -> <<"LYRICS", "UNSYNCEDLYRICS", "SYNCEDLYRICS">>
    [] field = "upc" -> <<"BARCODE", "UPC">>
    [] field = "album_type" -> <<"RELEASETYPE", "COMPILATION">>
    [] field = "track" -> <<"TRACKNUMBER", "TRACK">>
    [] OTHER -> <<Written(format, field)>>
Ranked(format, field) == format = "flac" \/ (format = "ape" /\ field = "date")
ReadKeys(format, field) ==
  IF format = "ogg" /\ field = "album_artist" THEN Range(Ranks(format, field)) ELSE
  IF Ranked(format, field) THEN Range(Ranks(format, field)) ELSE Sets(format, field) \cup Fills(format, field)
----------------------------------------------------------------------------
(* A compilation flag reads as the album type "compilation", the first text. *)
Means(key, value) ==
  IF key \in {"COMPILATION", "TCMP", "cpil"} THEN (IF value = Empty THEN Empty ELSE <<1, 0>>) ELSE value
ValueOf(items, key) ==
  IF \E i \in DOMAIN items : items[i].key = key
  THEN Means(key, items[CHOOSE i \in DOMAIN items : items[i].key = key].value) ELSE Empty
FirstOf(items, keys) ==
  LET found == SelectSeq(keys, LAMBDA k : ValueOf(items, k) # Empty)
  IN IF found = <<>> THEN Empty ELSE ValueOf(items, Head(found))
Scanned(format, items, field) ==
  FoldLeft(LAMBDA value, item :
             IF item.key \in Sets(format, field) THEN item.value
             ELSE IF item.key \in Fills(format, field) /\ value = Empty THEN Means(item.key, item.value)
             ELSE value,
           Empty, items)
(* The artists of several Ogg comments are joined, each once; two of them    *)
(* fill the two places of a value.                                          *)
Joined(items) ==
  LET names == SelectSeq(items, LAMBDA item : item.key \in {"ALBUMARTIST", "ALBUM ARTIST", "ALBUM_ARTIST"})
      first == names[1].value
      other == SelectSeq(names, LAMBDA item : item.value # first)
  IN IF names = <<>> THEN Empty ELSE IF other = <<>> THEN first ELSE <<first[1], other[1].value[1]>>
Read(format, items, field) ==
  IF format = "ogg" /\ field = "album_artist" THEN Joined(items) ELSE
  IF Ranked(format, field) THEN FirstOf(items, Ranks(format, field)) ELSE Scanned(format, items, field)

----------------------------------------------------------------------------
(* A number that is not positive takes the index away.                      *)
EditIndex(current, edit) ==
  LET number == IF "track_number" \in DOMAIN edit THEN edit["track_number"] ELSE current[1]
      total  == IF "track_total" \in DOMAIN edit THEN edit["track_total"] ELSE current[2]
  IN IF number = 0 THEN Empty ELSE <<number, total>>
EditsTrack(edit) == {"track_number", "track_total"} \cap DOMAIN edit # {}

(* The index an edit of one half of it starts from.  The APE writer has no  *)
(* file to start from.                                                      *)
CurrentIndex(format, items) ==
  IF format = "ape" THEN Empty
  ELSE IF Vorbis(format) THEN FirstOf(items, <<"TRACKNUMBER", "TRACK">>)
  ELSE Read(format, items, "track")

Item(key, value) == [key |-> key, value |-> value]
NewItems(format, items, edit) ==
  LET texts == SetToSeq({f \in TextFields : f \in DOMAIN edit /\ edit[f] # 0})
      index == EditIndex(CurrentIndex(format, items), edit)
  IN [i \in DOMAIN texts |-> Item(Written(format, texts[i]), <<edit[texts[i]], 0>>)]
     \o (IF Vorbis(format) /\ "lyrics" \in DOMAIN edit /\ edit["lyrics"] # 0
         THEN <<Item("UNSYNCEDLYRICS", <<edit["lyrics"], 0>>)>> ELSE <<>>)
     \o (IF format \in {"ape", "wav"} /\ "album_type" \in DOMAIN edit /\ edit["album_type"] = 1
         THEN <<Item(Compilation(format), <<1, 0>>)>> ELSE <<>>)
     \o (IF EditsTrack(edit) /\ index # Empty THEN <<Item(Written(format, "track"), index)>> ELSE <<>>)

(* Mutation: the aliases of an edited field stay.                           *)
RemovedAlone(format, edit) == {Written(format, f) : f \in TextFields \cap DOMAIN edit}

(* What an edit takes away.  The APE writer names DATE for a date that is   *)
(* cleared, and the old key of an index only when its number is given.      *)
Removed(format, edit) ==
  UNION {Aliases(format, f) \cup (IF format = "ape" /\ f = "date" THEN {} ELSE {Written(format, f)})
          : f \in TextFields \cap DOMAIN edit}
  \cup (IF EditsTrack(edit) THEN Aliases(format, "track") ELSE {})
  \cup (IF (format # "ape" /\ EditsTrack(edit)) \/ "track_number" \in DOMAIN edit
        THEN {Written(format, "track")} ELSE {})

Rewritten(format, items, edit) ==
  LET added == NewItems(format, items, edit)
      gone  == Removed(format, edit) \cup {added[i].key : i \in DOMAIN added}
  IN SelectSeq(items, LAMBDA item : item.key \notin gone) \o added

(* A WAV or AIFF file's tag is written anew from what was read.              *)
Rebuilt(items, edit) ==
  LET kept  == SetToSeq({f \in TextFields \ DOMAIN edit : Read("wav", items, f) # Empty})
      track == Read("wav", items, "track")
      old   == [i \in DOMAIN kept |-> Item(Written("wav", kept[i]), Read("wav", items, kept[i]))]
  IN Rewritten("wav", old \o (IF track = Empty THEN <<>> ELSE <<Item("TRCK", track)>>), edit)
EditTags(format, items, edit) ==
  IF format = "wav" THEN Rebuilt(items, edit) ELSE Rewritten(format, items, edit)
----------------------------------------------------------------------------
VARIABLES tagFile,    \* the format and the items of the file
          tagMeta,    \* what the edits so far promise a reader
          tagLock,    \* the editor that holds the path's output lock
          tagEdit,    \* the edit of each editor
          tagStage,   \* the items of each editor's staged file
          tagStep     \* where each editor is
tagVars == <<tagFile, tagMeta, tagLock, tagEdit, tagStage, tagStep>>

TagFields == TextFields \cup {"track"}
NamedFields == {f \in TextFields : f \in EditFields}
                 \cup (IF {"track_number", "track_total"} \cap EditFields # {} THEN {"track"} ELSE {})
ItemsOf(format) ==
  UNION {{Item(k, v) : k \in ReadKeys(format, f),
                       v \in IF f = "track" THEN (1 .. MaxText) \X (0 .. MaxText) ELSE Texts}
          : f \in NamedFields \ {"title"}}
FirstItems(format) ==
  {<<Item(Written(format, "title"), <<1, 0>>)>> \o s :
     s \in {t \in UNION {[1 .. n -> ItemsOf(format)] : n \in 0 .. MaxItems} :
              \A i, j \in DOMAIN t : i # j => t[i].key # t[j].key}}
TagInit ==
  /\ tagFile \in UNION {{[format |-> g, items |-> s] : s \in FirstItems(g)} : g \in Formats}
  /\ tagMeta = [f \in TagFields |-> Read(tagFile.format, tagFile.items, f)]
  /\ tagLock = {}
  /\ tagEdit = [e \in Editors |-> <<>>]
  /\ tagStage = [e \in Editors |-> <<>>]
  /\ tagStep = [e \in Editors |-> "idle"]

(* An edit names some fields; 0 clears a text and takes an index away.      *)
Edits == {edit \in UNION {[F -> 0 .. MaxText] : F \in {G \in SUBSET EditFields : Cardinality(G) \in 1 .. MaxNamed}} :
            "title" \in DOMAIN edit => edit["title"] # 0}

(* The lock of the path is held from before the source is opened until the  *)
(* staged file is published or dropped.                                     *)
Unlocked(e) == tagLock = {}
LockPath(e) ==
  /\ tagStep[e] = "idle"
  /\ Unlocked(e)
  /\ \E edit \in Edits : tagEdit' = [tagEdit EXCEPT ![e] = edit]
  /\ tagLock' = tagLock \cup {e}
  /\ tagStep' = [tagStep EXCEPT ![e] = "locked"]
  /\ UNCHANGED <<tagFile, tagMeta, tagStage>>

WriteStage(e) ==
  /\ tagStep[e] = "locked"
  /\ tagStage' = [tagStage EXCEPT ![e] = EditTags(tagFile.format, tagFile.items, tagEdit[e])]
  /\ tagStep' = [tagStep EXCEPT ![e] = "staged"]
  /\ UNCHANGED <<tagFile, tagMeta, tagLock, tagEdit>>

(* What an edit promises: the named fields, and nothing else, change.       *)
Promised(meta, edit) ==
  [f \in TagFields |-> IF f = "track" THEN (IF EditsTrack(edit) THEN EditIndex(meta["track"], edit) ELSE meta["track"])
                       ELSE IF f \in DOMAIN edit THEN <<edit[f], 0>> ELSE meta[f]]
LeaveEditor(e) ==
  /\ tagLock' = tagLock \ {e}
  /\ tagStep' = [tagStep EXCEPT ![e] = "done"]
  /\ tagEdit' = [tagEdit EXCEPT ![e] = <<>>]
  /\ tagStage' = [tagStage EXCEPT ![e] = <<>>]
PublishTags(e) ==
  /\ tagStep[e] = "staged"
  /\ tagFile' = [tagFile EXCEPT !.items = tagStage[e]]
  /\ tagMeta' = Promised(tagMeta, tagEdit[e])
  /\ LeaveEditor(e)
(* A check that fails, a file that is malformed or too large: the staged    *)
(* file is dropped.                                                         *)
AbandonEdit(e) ==
  /\ tagStep[e] \in {"locked", "staged"}
  /\ LeaveEditor(e)
  /\ UNCHANGED <<tagFile, tagMeta>>
TagNext ==
  \E e \in Editors : LockPath(e) \/ WriteStage(e) \/ PublishTags(e) \/ AbandonEdit(e)
TagSpec == TagInit /\ [][TagNext]_tagVars
----------------------------------------------------------------------------
(* Keys the readers know and an edit of the field does not take away.       *)
LeftBehind(format, items, field) ==
  LET cleared == Aliases(format, field)
                   \cup (IF format = "ape" /\ field = "date" THEN {} ELSE {Written(format, field)})
  IN \E i \in DOMAIN items : items[i].key \in ReadKeys(format, field) \ cleared

(* What the app's own readers find after any edits of several threads is     *)
(* what the edits asked for, field by field: no alias that a reader prefers  *)
(* hides the new value, no field that was not named changes, and no edit is  *)
(* lost to another one (edit_comments, id3::edit_header, mp4::edit,          *)
(* ape::edit, riff::edit against comments::flac, comments::apply,            *)
(* id3::apply, mp4::read).  Excepted are a field that was cleared while the  *)
(* file has a key only the reader knows, the lyrics of an MP3 file with a    *)
(* TXXX lyrics frame, and half an index of an APE file.                      *)
TagsExact ==
  \A f \in TagFields :
    \/ Read(tagFile.format, tagFile.items, f) = tagMeta[f]
    \/ /\ LeftBehind(tagFile.format, tagFile.items, f)
       /\ tagMeta[f] = Empty \/ (f = "lyrics" /\ tagFile.format = "mp3")
    \/ f = "track" /\ tagFile.format = "ape"
=============================================================================
