------------------------------- MODULE Metadata -------------------------------
(***************************************************************************)
(* MetadataService (src/src/services/metadata/) and its requests           *)
(* (src/src/api/metadata.rs): lookups of a track's metadata by the task    *)
(* the transfer monitor spawns, by a refresh request and by the scan of    *)
(* the library, the cover backfill, the rate limit towards MusicBrainz     *)
(* they share, and the two flags that keep the jobs from running twice.    *)
(*                                                                         *)
(* Of a row the model has whether it was fetched, its art and whether a    *)
(* cover is cached; cover files are never removed but with their item, so  *)
(* they stand behind the flag.  External services may answer, fail or      *)
(* have nothing.  Left out: what a lookup finds but art and the recording, *)
(* its progress events, GetSongBPM (which changes nothing but a field) and *)
(* deleting items.  MaxLookups bounds the lookups begun.                   *)
(***************************************************************************)
EXTENDS Requests, SharedFolder, MetadataMatch

CONSTANTS Arts,         \* URLs of cover art
          QueryOf,      \* original_query of each track
          Precise,      \* tracks with original_artist and original_track
          Answers,      \* lists of recordings MusicBrainz may answer with
          MaxLookups

ASSUME MaxLookupsAssumption == MaxLookups \in Nat
ASSUME PreciseAssumption == Precise \subseteq Tracks

\* Names and answers are sequences.
ASSUME QueriesAssumption ==
  /\ \A t \in Tracks : IsName(QueryOf[t])
  /\ \A recs \in Answers :
       /\ recs \in Seq({recs[n] : n \in DOMAIN recs})
       /\ \A n \in DOMAIN recs : IsName(recs[n].artist) /\ IsName(recs[n].title)

Jobs    == {"scan", "backfill"}
Tasks   == Tracks \cup Jobs        \* a track stands for its spawned lookup
Workers == Requests \cup Tasks
NoArt   == "none"
Free    == "free"

ASSUME WorkersAssumption ==
  Tracks \cap Jobs = {} /\ Requests \cap Tasks = {} /\ Free \notin Workers

VARIABLES
  row, limited,     \* items and metadata_rate_limits (refreshed within the last day)
  running,          \* METADATA_JOB_RUNNING and COVER_BACKFILL_RUNNING
  todo,             \* what the jobs have yet to work on
  task,             \* place of each background task
  lock, recent,     \* last_mb_call: who holds the mutex, and whether it is less than a second old
  begun,            \* lookups begun
  listed, excused   \* history: tracks a job at work was to do, and those it
                    \* could not finish or that were cleared meanwhile

libraryVars  == <<row, limited, running, todo, task, lock, recent, begun, listed, excused>>
metadataVars == <<disk, libraryVars>>

Recordings == UNION {{recs[n] : n \in DOMAIN recs} : recs \in Answers}
Looking    == [at : {"wait", "sleep", "due", "call", "cover", "flag", "store"},
               for : {"search", "release"}, track : Tracks,
               match : Recordings \cup {NoMatch}, art : Arts \cup {NoArt}]
Work       == [track : Tracks, art : Arts \cup {NoArt}]

MetadataRequest ==
  {Idle} \cup Looking \cup [at : {"limit", "unlimit"}, track : Tracks] \cup [at : {"list"}, job : Jobs]

MetadataTypeOK ==
  /\ FilesTypeOK
  /\ row \in [Tracks -> [fetched : BOOLEAN, art : Arts \cup {NoArt}, cached : BOOLEAN]]
  /\ limited \subseteq Tracks
  /\ running \in [Jobs -> BOOLEAN]
  /\ todo \in [Jobs -> SUBSET Work]
  /\ task \in [Tasks -> {Idle} \cup Looking \cup [at : {"begin", "next"}]]
  /\ lock \in Workers \cup {Free} /\ recent \in BOOLEAN
  /\ begun \in 0..MaxLookups
  /\ listed \in [Jobs -> SUBSET Tracks] /\ excused \in [Jobs -> SUBSET Tracks]

MetadataInit ==
  /\ row = [t \in Tracks |-> [fetched |-> FALSE, art |-> NoArt, cached |-> FALSE]]
  /\ limited = {}
  /\ running = [j \in Jobs |-> FALSE] /\ todo = [j \in Jobs |-> {}]
  /\ task = [w \in Tasks |-> Idle]
  /\ lock = Free /\ recent = FALSE /\ begun = 0
  /\ listed = [j \in Jobs |-> {}] /\ excused = [j \in Jobs |-> {}]

Place(w) == IF w \in Requests THEN req[w] ELSE task[w]

To(w, state) ==
  IF w \in Requests THEN Goto(w, state) /\ UNCHANGED task
  ELSE task' = [task EXCEPT ![w] = state] /\ UNCHANGED req

On(w, label) == Place(w).at = label

-----------------------------------------------------------------------------
(* wait_for_rate_limit *)

\* Faulty variant: the mutex is given back before the sleep.
AcquireBriefly(w) ==
  /\ On(w, "wait") /\ lock = Free
  /\ IF recent
     THEN /\ To(w, [Place(w) EXCEPT !.at = "sleep"])
          /\ UNCHANGED recent
     ELSE /\ To(w, [Place(w) EXCEPT !.at = "call"])
          /\ recent' = TRUE
  /\ UNCHANGED <<disk, row, limited, running, todo, lock, begun, listed, excused>>

\* The mutex is held over the sleep.
Acquire(w) ==
  /\ On(w, "wait") /\ lock = Free
  /\ IF recent
     THEN /\ To(w, [Place(w) EXCEPT !.at = "sleep"])
          /\ lock' = w
          /\ UNCHANGED recent
     ELSE /\ To(w, [Place(w) EXCEPT !.at = "call"])
          /\ recent' = TRUE
          /\ UNCHANGED lock
  /\ UNCHANGED <<disk, row, limited, running, todo, begun, listed, excused>>

Slept(w) == IF On(w, "sleep") THEN [Place(w) EXCEPT !.at = "due"] ELSE Place(w)

\* A second has passed since the last call, and for those who slept it out.
Second ==
  /\ recent /\ recent' = FALSE
  /\ req'  = [w \in Requests |-> Slept(w)]
  /\ task' = [w \in Tasks |-> Slept(w)]
  /\ UNCHANGED <<disk, row, limited, running, todo, lock, begun, listed, excused>>

Wake(w) ==
  /\ On(w, "due")
  /\ To(w, [Place(w) EXCEPT !.at = "call"])
  /\ recent' = TRUE /\ lock' = Free
  /\ UNCHANGED <<disk, row, limited, running, todo, begun, listed, excused>>

-----------------------------------------------------------------------------
(* lookup_and_store *)

Begin(w, t) ==
  /\ begun < MaxLookups /\ begun' = begun + 1
  /\ To(w, [at |-> "wait", for |-> "search", track |-> t, match |-> NoMatch, art |-> NoArt])

WithArt(w, art) == [Place(w) EXCEPT !.at = IF art = NoArt THEN "store" ELSE "cover", !.art = art]

\* A lookup has ended: the refresh notes the time, the scan goes on.
After(w) == IF w \in Requests THEN [at |-> "limit", track |-> Place(w).track]
            ELSE IF w = "scan" THEN [at |-> "next"] ELSE Idle

Excuse(w, t) ==
  excused' = IF w \in Jobs /\ t \in listed[w] THEN [excused EXCEPT ![w] = @ \cup {t}] ELSE excused

\* What the Cover Art Archive has for a release, and Discogs for a query: a
\* URL, or nothing, which a failure is taken for.
CoverArt   == Arts \cup {NoArt}
DiscogsArt == Arts \cup {NoArt}

Matched(t, recs) == IF t \in Precise THEN FirstAnswer(recs) ELSE SelectBestMatch(QueryOf[t], recs)

\* Faulty variant: without an answer from MusicBrainz the lookup gives up.
SearchGivesUp(w) ==
  /\ On(w, "call") /\ Place(w).for = "search"
  /\ \E recs \in Answers :
       LET match == Matched(Place(w).track, recs)
       IN IF match # NoMatch
          THEN To(w, [Place(w) EXCEPT !.at = "wait", !.for = "release", !.match = match])
          ELSE To(w, After(w))
  /\ UNCHANGED <<disk, row, limited, running, todo, lock, recent, begun, listed, excused>>

\* MusicBrainz has a recording, or Discogs is asked.
SearchRecording(w) ==
  /\ On(w, "call") /\ Place(w).for = "search"
  /\ \E recs \in Answers :
       LET match == Matched(Place(w).track, recs)
       IN IF match # NoMatch
          THEN To(w, [Place(w) EXCEPT !.at = "wait", !.for = "release", !.match = match])
          ELSE \E art \in DiscogsArt : To(w, WithArt(w, art))
  /\ UNCHANGED <<disk, row, limited, running, todo, lock, recent, begun, listed, excused>>

\* The release of the recording, and its art at the Cover Art Archive.
GetRelease(w) ==
  /\ On(w, "call") /\ Place(w).for = "release"
  /\ \E art \in CoverArt : To(w, WithArt(w, art))
  /\ UNCHANGED <<disk, row, limited, running, todo, lock, recent, begun, listed, excused>>

\* Download, decode and write the cover; a failure of this is only noted, as
\* is one of setting the flag.
CacheCover(w) ==
  /\ On(w, "cover")
  /\ \/ To(w, [Place(w) EXCEPT !.at = "flag"]) /\ UNCHANGED excused
     \/ w # "backfill" /\ To(w, [Place(w) EXCEPT !.at = "store"]) /\ UNCHANGED excused
     \/ w = "backfill" /\ To(w, [at |-> "next"]) /\ Excuse(w, Place(w).track)
  /\ UNCHANGED <<disk, row, limited, running, todo, lock, recent, begun, listed>>

SetCoverCached(w) ==
  /\ On(w, "flag")
  /\ row' = [row EXCEPT ![Place(w).track].cached = TRUE]
  /\ To(w, IF w = "backfill" THEN [at |-> "next"] ELSE [Place(w) EXCEPT !.at = "store"])
  /\ UNCHANGED <<disk, limited, running, todo, lock, recent, begun, listed, excused>>

UpdateItem(t, art) == row' = [row EXCEPT ![t].fetched = TRUE, ![t].art = art]

\* update_item_metadata, then the tags; neither failure is an error.
Store(w) ==
  /\ On(w, "store")
  /\ LET t == Place(w).track
     IN /\ \/ UpdateItem(t, Place(w).art) /\ UNCHANGED excused
           \/ Excuse(w, t) /\ UNCHANGED row
        /\ (disk[t] \in {Whole, Tagged} /\ Write(t, Tagged)) \/ UNCHANGED disk
  /\ To(w, After(w))
  /\ UNCHANGED <<limited, running, todo, lock, recent, begun, listed>>

-----------------------------------------------------------------------------
(* Who looks up *)

SpawnLookup(t) ==
  /\ task[t] = Idle /\ disk[t] = Whole /\ ~row[t].fetched
  /\ Begin(t, t)
  /\ UNCHANGED <<disk, row, limited, running, todo, lock, recent, listed, excused>>

\* The limit is looked at twice before the lookup begins.
RefreshMetadata(r, t) ==
  /\ Arrives(r) /\ t \notin limited
  /\ Begin(r, t)
  /\ UNCHANGED <<disk, row, limited, running, todo, lock, recent, listed, excused>>

UpdateLimit(r) ==
  /\ On(r, "limit")
  /\ limited' = limited \cup {req[r].track}
  /\ To(r, Idle)
  /\ UNCHANGED <<disk, row, running, todo, lock, recent, begun, listed, excused>>

DayPasses(t) ==
  /\ t \in limited /\ limited' = limited \ {t}
  /\ UNCHANGED <<req, disk, row, running, todo, task, lock, recent, begun, listed, excused>>

\* Two statements: the fields, then the limit.  The cover stays.
ClearMetadata(r, t) ==
  /\ Arrives(r)
  /\ row' = [row EXCEPT ![t].fetched = FALSE, ![t].art = NoArt]
  /\ Excuse("scan", t)
  /\ To(r, [at |-> "unlimit", track |-> t])
  /\ UNCHANGED <<disk, limited, running, todo, lock, recent, begun, listed>>

ClearLimit(r) ==
  /\ On(r, "unlimit")
  /\ limited' = limited \ {req[r].track}
  /\ To(r, Idle)
  /\ UNCHANGED <<disk, row, running, todo, lock, recent, begun, listed, excused>>

-----------------------------------------------------------------------------
(* start_metadata_job, start_cover_backfill and the jobs *)

WithoutMetadata == {[track |-> t, art |-> NoArt] : t \in {u \in Tracks : ~row[u].fetched}}
UncachedCovers  ==
  {[track |-> t, art |-> row[t].art] : t \in {u \in Tracks : row[u].art # NoArt /\ ~row[u].cached}}

Listed(job) == IF job = "scan" THEN WithoutMetadata ELSE UncachedCovers

Take(job) ==
  /\ todo'   = [todo   EXCEPT ![job] = Listed(job)]
  /\ listed' = [listed EXCEPT ![job] = {work.track : work \in Listed(job)}]

StartJob(r, job) ==
  /\ Arrives(r) /\ ~running[job]
  /\ running' = [running EXCEPT ![job] = TRUE]
  /\ To(r, [at |-> "list", job |-> job])
  /\ UNCHANGED <<disk, row, limited, todo, lock, recent, begun, listed, excused>>

\* Nothing to do, or the query failed.
RefuseJob(r) ==
  /\ On(r, "list")
  /\ running' = [running EXCEPT ![req[r].job] = FALSE]
  /\ To(r, Idle)
  /\ UNCHANGED <<disk, row, limited, todo, lock, recent, begun, listed, excused>>

\* The backfill works on the list of its request, the scan makes its own.
SpawnJob(r) ==
  /\ On(r, "list")
  /\ LET job == req[r].job
     IN /\ Listed(job) # {}
        /\ task' = [task EXCEPT ![job] = [at |-> IF job = "scan" THEN "begin" ELSE "next"]]
        /\ IF job = "scan" THEN UNCHANGED <<todo, listed>> ELSE Take(job)
  /\ Finish(r)
  /\ UNCHANGED <<disk, row, limited, running, lock, recent, begun, excused>>

JobOver(job) ==
  /\ running' = [running EXCEPT ![job] = FALSE]
  /\ To(job, Idle)
  /\ listed' = [listed EXCEPT ![job] = {}] /\ excused' = [excused EXCEPT ![job] = {}]

\* run_library_scan lists anew; if that query fails the job is over.
ListLibrary ==
  /\ On("scan", "begin")
  /\ \/ /\ Take("scan")
        /\ To("scan", [at |-> "next"])
        /\ UNCHANGED <<running, excused>>
     \/ JobOver("scan") /\ UNCHANGED todo
  /\ UNCHANGED <<disk, row, limited, lock, recent, begun>>

NextTrack(work) ==
  /\ On("scan", "next") /\ work \in todo["scan"]
  /\ todo' = [todo EXCEPT !["scan"] = @ \ {work}]
  /\ Begin("scan", work.track)
  /\ UNCHANGED <<disk, row, limited, running, lock, recent, listed, excused>>

NextCover(work) ==
  /\ On("backfill", "next") /\ work \in todo["backfill"]
  /\ todo' = [todo EXCEPT !["backfill"] = @ \ {work}]
  /\ To("backfill", [at |-> "cover", for |-> "release", track |-> work.track,
                     match |-> NoMatch, art |-> work.art])
  /\ UNCHANGED <<disk, row, limited, running, lock, recent, begun, listed, excused>>

\* Faulty variant: the job ends with the first track it could not finish.
EndAtFailure(job) ==
  /\ On(job, "next") /\ (todo[job] = {} \/ excused[job] # {})
  /\ JobOver(job)
  /\ UNCHANGED <<disk, row, limited, todo, lock, recent, begun>>

EndJob(job) ==
  /\ On(job, "next") /\ todo[job] = {}
  /\ JobOver(job)
  /\ UNCHANGED <<disk, row, limited, todo, lock, recent, begun>>

\* The mutex of a dropped request is free again; the flag of a job it was
\* about to start stays set.
AbandonRefresh(r) ==
  /\ ~Arrives(r) /\ To(r, Idle)
  /\ lock' = IF lock = r THEN Free ELSE lock
  /\ UNCHANGED <<disk, row, limited, running, todo, recent, begun, listed, excused>>

-----------------------------------------------------------------------------
LookupStep(w) ==
  \/ Acquire(w) \/ Wake(w) \/ SearchRecording(w) \/ GetRelease(w)
  \/ CacheCover(w) \/ SetCoverCached(w) \/ Store(w)

MetadataNext ==
  \/ Second
  \/ \E w \in Workers : LookupStep(w)
  \/ \E t \in Tracks : SpawnLookup(t) \/ DayPasses(t)
  \/ \E r \in Requests, t \in Tracks : RefreshMetadata(r, t) \/ ClearMetadata(r, t)
  \/ \E r \in Requests, job \in Jobs : StartJob(r, job)
  \/ \E r \in Requests : UpdateLimit(r) \/ ClearLimit(r) \/ RefuseJob(r) \/ SpawnJob(r) \/ AbandonRefresh(r)
  \/ ListLibrary
  \/ \E work \in Work : NextTrack(work) \/ NextCover(work)
  \/ \E job \in Jobs : EndJob(job)

MetadataSpec == FullFolder /\ MetadataInit /\ RequestsInit /\ [][MetadataNext]_<<req, metadataVars>>

-----------------------------------------------------------------------------
(* Properties *)

\* "1 request per second": whoever looks up, a request is sent to MusicBrainz
\* only when a second has passed since the one before.
MusicBrainzRate ==
  [][\A w \in Workers : Place(w).at \in {"wait", "due"} /\ Place(w)'.at = "call" => ~recent]_<<req, metadataVars>>

\* A job that ends has been at every track it listed, whatever failed for one
\* of them: the scan has stored a result for each, but where the database
\* failed or the result was cleared meanwhile; the backfill has the cover of
\* each, but where it could not be downloaded.
HasResult(job, t) == IF job = "scan" THEN row[t].fetched ELSE row[t].cached

JobsReachEvery ==
  [][\A job \in Jobs : task[job] # Idle /\ task'[job] = Idle =>
       \A t \in listed[job] \ excused[job] : HasResult(job, t)]_<<req, metadataVars>>

\* "prevents selecting wrong tracks that happen to have matching titles": a
\* lookup that compares answers with its query takes none whose artist has not
\* one word of it.
NoWrongArtist ==
  \A w \in Workers : Place(w) \in Looking /\ Place(w).track \notin Precise =>
    LET rec == Place(w).match
    IN rec = NoMatch \/ ArtistMatched(rec, QueryOf[Place(w).track])
===============================================================================
