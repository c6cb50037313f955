------------------------------ MODULE ReEnrich ------------------------------
(***************************************************************************)
(* The tags of a file in the library are completed from what the catalogues  *)
(* know of it (extensions/src/backend/reenrich.rs, with                      *)
(* core/src/metadata/reenrich.rs): which track is taken for it, which of its   *)
(* tags are replaced, and what becomes of lyrics and cover when one of many    *)
(* lookups fails or the request is cancelled.                               *)
(*                                                                         *)
(* The caller has filled the request from the file.  The value of a tag is    *)
(* where it comes from: "own" for the file's, the album of a track ("x", the   *)
(* file's album if it has one, "y" or "none"), or the service that was asked   *)
(* for it; "" is no value.                                                   *)
(***************************************************************************)
EXTENDS Integers, Sequences, FiniteSets, FiniteSetsExt, SequencesExt

CONSTANTS Tracks,    \* what lookups find
          Updates,   \* the tags and groups of tags a user may want updated; all of them if none
          KnownTags  \* the tags the file may have

Groups ==
  [track_name |-> "basic_tags", album_name |-> "basic_tags", album_artist |-> "basic_tags",
   release_date |-> "release_info", isrc |-> "release_info", genre |-> "extra",
   track_number |-> "track_info", total_tracks |-> "track_info", cover |-> "cover", lyrics |-> "lyrics"]
Fields == DOMAIN Groups \ {"lyrics"}
ReleaseFields == {"album_name", "album_artist", "release_date", "track_number", "total_tracks", "cover"}
TrackRecords == [exact : BOOLEAN, named : BOOLEAN, length : {"near", "far", "preview"}, album : {"x", "y", ""},
                 has : SUBSET Fields]
ASSUME ReEnrichAssumption ==
  /\ Tracks \subseteq TrackRecords
  /\ \A t \in Tracks : (t.exact => "isrc" \in t.has) /\ (t.album # "" => "album_name" \in t.has)

VARIABLES job,       \* one request
          audioFile  \* the file's tags and lyrics
enrichVars == <<job, audioFile>>

NoTrack == [exact |-> FALSE, named |-> FALSE, length |-> "near", album |-> "", has |-> {}]
FileTag(known, f) == IF f \notin known THEN "" ELSE IF f = "album_name" THEN "x" ELSE "own"
NoJob == [pc |-> "idle", update |-> {}, known |-> {}, replace |-> FALSE, req |-> [f \in Fields |-> ""], found |-> FALSE,
          failed |-> FALSE, list |-> <<>>, picked |-> 0, reading |-> "", fetching |-> "", lyrics |-> "", read |-> FALSE,
          embed |-> FALSE, cover |-> "none"]
EnrichInit ==
  /\ job = NoJob
  /\ \E known \in KnownTags, lyrics \in {"", "real", "marker"} :
       audioFile = [tags |-> [f \in Fields |-> FileTag(known, f)], known |-> known, had |-> lyrics, lyrics |-> lyrics]

Selected(f) == job.update = {} \/ Groups[f] \in job.update \/ f \in job.update
(* The names of the song are known, by which it is searched and compared.    *)
Named == "track_name" \in job.known

(* A failed check is remembered, so that what a step drops after one cannot   *)
(* be taken for something that does not exist.                              *)
(* Mutation: every check asks again.                                        *)
ChecksAgain(failed) == BOOLEAN
Checks(failed) == IF failed THEN {FALSE} ELSE BOOLEAN
Fails == job' = [NoJob EXCEPT !.pc = "failed", !.update = job.update]
(* A lookup that may fail, and is dropped with "none" when a check within it   *)
(* fails (inner); then the check of the request itself (outer).             *)
BestEffort(results, none) ==
  {a \in [result : results \cup {none}, inner : BOOLEAN, outer : BOOLEAN] :
     /\ a.inner \in Checks(job.failed) /\ a.outer \in Checks(job.failed \/ ~a.inner)
     /\ a.result \in IF a.inner THEN results ELSE {none}}
Proceed(a, next) == IF a.outer THEN job' = [next EXCEPT !.failed = @ \/ ~a.inner] ELSE Fails

StartEnrich ==
  /\ job.pc = "idle"
  /\ \E update \in Updates, replace, online \in BOOLEAN :
       job' = [NoJob EXCEPT !.pc = IF online THEN "identify" ELSE "resolved", !.update = update, !.replace = replace,
                            !.known = audioFile.known, !.req = audioFile.tags]
  /\ UNCHANGED audioFile
----------------------------------------------------------------------------
(* The track.                                                               *)
Exact(t) == t.exact /\ job.req["isrc"] # ""
Names(t) == t.named /\ Named
Verified(t) ==
  /\ Exact(t) \/ ~Named \/ t.named
  /\ t.length = "near" \/ (Exact(t) /\ Names(t) /\ t.length # "preview")
SameAlbum(t) == t.album # "" /\ t.album = job.req["album_name"]
SameRelease(t) == job.replace \/ job.req["album_name"] = "" \/ t.album = "" \/ SameAlbum(t)
TagOf(t, f) == IF f = "album_name" THEN t.album ELSE IF t.album = "" THEN "none" ELSE t.album
Applied(t) ==
  IF t = NoTrack THEN job ELSE
    [job EXCEPT !.found = TRUE,
                !.req = [f \in Fields |-> IF /\ f \in t.has /\ TagOf(t, f) # "" /\ Selected(f)
                                             /\ f \in ReleaseFields => SameRelease(t)
                                          THEN TagOf(t, f) ELSE @[f]]]
(* By ISRC or by a catalogue's id, and only if it is the song.               *)
Identify ==
  /\ job.pc = "identify"
  /\ \E a \in BestEffort({t \in Tracks : Verified(t)} \cup {NoTrack}, NoTrack) :
       Proceed(a, [Applied(a.result) EXCEPT !.pc = "search"])
  /\ UNCHANGED audioFile

(* Of several candidates the one with the best score; an ISRC counts more     *)
(* than all that is found in a name, and so on.                             *)
Eligible(t) == Exact(t) \/ IF Named THEN t.named ELSE IF job.req["album_name"] # "" THEN SameAlbum(t) ELSE Verified(t)
Points(holds, n) == IF holds THEN n ELSE 0
Score(t) ==
  Points(Verified(t), 2000) + Points(Exact(t), 10000) + Points(Names(t), 720) + Points(SameAlbum(t), 120)
  + Points(t.length = "near", 80) + Points("release_date" \in t.has, 70) + Points("track_number" \in t.has, 30)
  + Points("isrc" \in t.has, 40)
Select(list) ==
  LET good == {n \in DOMAIN list : Eligible(list[n])}
  IN IF good = {} THEN 0
     ELSE CHOOSE n \in good : \A m \in good : Score(list[m]) < Score(list[n]) \/ (Score(list[m]) = Score(list[n]) /\ n <= m)
HasQuery == Named \/ job.req["album_name"] # ""
Search ==
  /\ job.pc = "search"
  /\ IF HasQuery
     THEN \E a \in BestEffort(SeqOf(Tracks, 2), <<>>) :
            Proceed(a, [job EXCEPT !.pc = "picked", !.list = a.result, !.picked = Select(a.result)])
     ELSE job' = [job EXCEPT !.pc = "artist"]
  /\ UNCHANGED audioFile
Pick ==
  /\ job.pc = "picked"
  /\ job' = [IF job.picked = 0 THEN job ELSE Applied(job.list[job.picked])
             EXCEPT !.pc = "artist", !.list = <<>>, !.picked = 0]
  /\ UNCHANGED audioFile
(* What is still missing is asked of other services.                        *)
AlbumArtist ==
  /\ job.pc = "artist"
  /\ IF Selected("album_artist") /\ job.req["album_artist"] = "" /\ job.req["isrc"] # ""
     THEN \E a \in BestEffort({"", "brainz"}, "") :
            Proceed(a, [job EXCEPT !.pc = "extended", !.req["album_artist"] = a.result, !.found = @ \/ a.result # ""])
     ELSE job' = [job EXCEPT !.pc = "extended"]
  /\ UNCHANGED audioFile
Extended ==
  /\ job.pc = "extended"
  /\ IF job.found /\ job.req["isrc"] # "" /\ Selected("genre") /\ job.req["genre"] = ""
     THEN \E a \in BestEffort({"", "extended"}, "") : Proceed(a, [job EXCEPT !.pc = "genre", !.req["genre"] = a.result])
     ELSE job' = [job EXCEPT !.pc = "resolved"]
  /\ UNCHANGED audioFile
Genre ==
  /\ job.pc = "genre"
  /\ IF job.req["genre"] = ""
     THEN \E a \in BestEffort({"", "brainz"}, "") : Proceed(a, [job EXCEPT !.pc = "resolved", !.req["genre"] = a.result])
     ELSE job' = [job EXCEPT !.pc = "resolved"]
  /\ UNCHANGED audioFile
----------------------------------------------------------------------------
(* Lyrics and cover, at the same time when both are wanted.                  *)
WantsCover == job.req["cover"] # "" /\ Selected("cover")
Resolved ==
  /\ job.pc = "resolved"
  /\ \/ job' = [job EXCEPT !.pc = "preview"]
     \/ \E embed, parallel \in BOOLEAN :
          job' = [job EXCEPT !.pc = "fetch", !.embed = embed,
                             !.reading = IF Selected("lyrics") THEN "extract" ELSE "ready",
                             !.fetching = IF ~WantsCover THEN "ready"
                                          ELSE IF parallel /\ Selected("lyrics") THEN "download" ELSE "later"]
  /\ UNCHANGED audioFile
(* Lyrics the file has, then lyrics of the providers.                        *)
ExtractLyrics ==
  /\ job.pc = "fetch" /\ job.reading = "extract"
  /\ \E ok \in Checks(job.failed), lyrics \in {audioFile.lyrics, ""} :
       job' = IF ok THEN [job EXCEPT !.reading = IF job.embed THEN "lookup" ELSE "ready", !.lyrics = lyrics,
                                     !.read = lyrics = audioFile.lyrics]
              ELSE [job EXCEPT !.reading = "broken", !.failed = TRUE]
  /\ UNCHANGED audioFile
AfterFetch(response) ==
  CASE response = "instrumental" -> IF job.lyrics \in {"", "marker"} THEN "marker" ELSE job.lyrics
    [] response = "text" -> "fetched"
    [] OTHER -> job.lyrics
FetchLyrics ==
  /\ job.pc = "fetch" /\ job.reading = "lookup"
  /\ \E inner \in Checks(job.failed) :
       \E outer \in Checks(job.failed \/ ~inner), r \in IF inner THEN {"instrumental", "text", "error"} ELSE {"error"} :
         job' = [job EXCEPT !.reading = IF outer THEN "ready" ELSE "broken", !.lyrics = AfterFetch(r),
                            !.failed = @ \/ ~inner \/ ~outer]
  /\ UNCHANGED audioFile
DownloadCover ==
  /\ job.pc = "fetch"
  /\ job.fetching = "download" \/ (job.fetching = "later" /\ job.reading \in {"ready", "broken"})
  /\ \E ok \in Checks(job.failed), cover \in {"none", "image"} :
       job' = [job EXCEPT !.fetching = "ready", !.cover = IF ok THEN cover ELSE "none", !.failed = @ \/ ~ok]
  /\ UNCHANGED audioFile
Join ==
  /\ job.pc = "fetch" /\ job.fetching = "ready" /\ job.reading \in {"ready", "broken"}
  /\ \E ok \in Checks(job.failed) :
       IF ok /\ job.reading = "ready" THEN job' = [job EXCEPT !.pc = "write"] ELSE Fails
  /\ UNCHANGED audioFile

(* A tag is written if it is wanted and known; a number and its total are one  *)
(* tag of the file.                                                         *)
Writes(f) ==
  CASE f = "cover" -> job.cover = "image"
    [] f \in {"track_number", "total_tracks"} ->
         (Selected("track_number") \/ Selected("total_tracks")) /\ job.req["track_number"] # ""
    [] OTHER -> Selected(f) /\ job.req[f] # ""
(* A FLAC file is rewritten beside itself and replaced at the end; the cover   *)
(* is verified before.                                                      *)
WriteFlac ==
  /\ job.pc = "write"
  /\ \/ Fails /\ UNCHANGED audioFile
     \/ \E external \in BOOLEAN :
          /\ TRUE \in Checks(job.failed)
          /\ audioFile' = [audioFile EXCEPT
                             !.tags = [f \in Fields |-> IF Writes(f) THEN job.req[f] ELSE @[f]],
                             !.lyrics = IF Selected("lyrics") /\ ~external /\ job.lyrics # "" THEN job.lyrics ELSE @]
          /\ job' = [job EXCEPT !.pc = "done"]
(* Any other file is left to FFmpeg, with the cover in a file of its own that   *)
(* is the caller's once it is returned.                                      *)
PlanFfmpeg ==
  /\ job.pc = "write"
  /\ \E a \in BestEffort({job.cover, "none"}, "none") : Proceed(a, [job EXCEPT !.pc = "planned", !.cover = a.result])
  /\ UNCHANGED audioFile

EnrichNext ==
  \/ StartEnrich \/ Identify \/ Search \/ Pick \/ AlbumArtist \/ Extended \/ Genre \/ Resolved
  \/ ExtractLyrics \/ FetchLyrics \/ DownloadCover \/ Join \/ WriteFlac \/ PlanFfmpeg
EnrichSpec == EnrichInit /\ [][EnrichNext]_enrichVars
----------------------------------------------------------------------------
(* Nothing is written, and no plan is made, after a check has failed: what a   *)
(* cancelled lookup did not find would be missing from it (reenrich_file:     *)
(* check, failure).                                                         *)
NothingLost == job.failed => job.pc \notin {"done", "planned", "preview"}
(* The album, its artist, date, numbers and cover belong to one release, unless *)
(* the user lets them be replaced or keeps the name of an album that is not     *)
(* known (apply: same_release).                                              *)
OneRelease ==
  LET of(f) == IF job.req[f] # "own" THEN job.req[f] ELSE IF "album_name" \in job.known THEN "x" ELSE "none"
  IN ~job.replace /\ (Selected("album_name") \/ "album_name" \in job.known) =>
       Cardinality({of(f) : f \in ReleaseFields} \cap {"x", "y"}) <= 1
(* The track that is picked is the one the file's ISRC names, if any is, and    *)
(* of those the one that was verified (select).                              *)
BestCandidate ==
  job.picked # 0 =>
    \A n \in DOMAIN job.list : Eligible(job.list[n]) =>
      LET mine == job.list[job.picked] other == job.list[n] IN
      /\ Exact(other) => Exact(mine)
      /\ Exact(other) = Exact(mine) /\ Verified(other) => Verified(mine)
(* Lyrics that could be read are not replaced by the mark of a song without     *)
(* any, nor lost (fetch_lyrics), and only tags the user wants are touched        *)
(* (write_metadata).                                                        *)
FileKept ==
  /\ audioFile.had = "real" /\ (job.pc # "done" \/ job.read \/ ~Selected("lyrics")) => audioFile.lyrics \in {"real", "fetched"}
  /\ job.pc = "done" => \A f \in Fields : ~Selected(f) => audioFile.tags[f] = FileTag(audioFile.known, f)
(* All of these, of every request to enrich a file.                         *)
EnrichSound == NothingLost /\ OneRelease /\ BestCandidate /\ FileKept
=============================================================================
