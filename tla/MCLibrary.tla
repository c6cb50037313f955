------------------------------ MODULE MCLibrary ------------------------------
(* The files of the music library: their tags, the bytes a tag is written    *)
(* into, the scans that read them, and the covers; and the health of the     *)
(* services they are downloaded from.                                        *)
EXTENDS TagEditing, TagLayout, LibraryScan, CoverCache, HealthService, ReEnrich, TLC

VARIABLE part   \* the component that runs; they do not interact

libraryVars == <<tagVars, layoutVars, scanVars, coverVars, healthVars, enrichVars, part>>
NoTagFile == [format |-> "flac", items |-> <<Item("TITLE", <<1, 0>>)>>]
LibraryInit ==
  /\ part \in {"tags", "layout", "scan", "covers", "health", "enrich"}
  /\ TagInit /\ (part # "tags" => tagFile = NoTagFile)
  /\ LayoutInit /\ (part # "layout" => layout.format = "ogg" /\ Len(layout.cells) = Pieces * 2 + 2)
  /\ ScanInit /\ (part # "scan" => \A p \in ScanPaths : disk[p] = Absent)
  /\ CoverInit
  /\ HealthInit /\ (part # "health" => \A t \in HealthThreads : healthCaller[t].exempt = {})
  /\ EnrichInit /\ (part # "enrich" => audioFile.had = "" /\ audioFile.known = {"isrc"})
LibraryNext ==
  /\ UNCHANGED part
  /\ \/ part = "tags" /\ TagNext /\ UNCHANGED <<layoutVars, scanVars, coverVars, healthVars, enrichVars>>
     \/ part = "layout" /\ LayoutNext /\ UNCHANGED <<tagVars, scanVars, coverVars, healthVars, enrichVars>>
     \/ part = "scan" /\ ScanNext /\ UNCHANGED <<tagVars, layoutVars, coverVars, healthVars, enrichVars>>
     \/ part = "covers" /\ CoverNext /\ UNCHANGED <<tagVars, layoutVars, scanVars, healthVars, enrichVars>>
     \/ part = "health" /\ HealthNext /\ UNCHANGED <<tagVars, layoutVars, scanVars, coverVars, enrichVars>>
     \/ part = "enrich" /\ EnrichNext /\ UNCHANGED <<tagVars, layoutVars, scanVars, coverVars, healthVars>>
LibrarySpec == LibraryInit /\ [][LibraryNext]_libraryVars

LibraryCoverBytes == [original |-> 2, resized |-> 1]
LibraryProviders == <<"x", "y">>
Answer(status, required) == [status |-> status, required |-> required]
LibraryAnswers ==
  {<<Answer("offline", TRUE), Answer("degraded", FALSE)>>, <<Answer("online", TRUE), Answer("unknown", TRUE)>>,
   <<Answer("offline", FALSE)>>}

FoundTrack(exact, named, length, album, has) ==
  [exact |-> exact, named |-> named, length |-> length, album |-> album, has |-> has]
LibraryTracks ==
  {FoundTrack(TRUE, TRUE, "preview", "x", {"isrc", "album_name", "total_tracks"}),
   FoundTrack(TRUE, TRUE, "near", "y", {"isrc", "album_name", "release_date", "track_number", "cover"}),
   FoundTrack(FALSE, TRUE, "near", "y", {"isrc", "album_name", "release_date", "genre"}),
   FoundTrack(FALSE, TRUE, "far", "x", {"album_name", "album_artist", "release_date", "track_number", "cover", "isrc"}),
   FoundTrack(FALSE, TRUE, "near", "", {"track_name", "release_date", "cover"})}
LibraryUpdates == {{}, {"release_info", "cover"}, {"total_tracks", "lyrics"}, {"basic_tags", "extra"}}
LibraryTags == {{"track_name", "album_name", "isrc", "track_number"}, {"track_name", "release_date"}, {"isrc"}}

LibrarySymmetry == Permutations(Editors)

(* A reader of the edited file finds the edited fields, the others as they   *)
(* were, and the audio where the container says it is (rewrite_audio_tags).  *)
TagFilesSound == TagsExact /\ RewrittenSound
=============================================================================
