------------------------------ MODULE WorldLake ------------------------------
(***************************************************************************)
(* World Markets: the read-only client that pages through the provider,    *)
(* the source that lands each page before it parses it, the importer that  *)
(* lands one given payload, and the writer of the two (write_snapshot).    *)
(* A snapshot is named by its bytes alone; its Bronze row and manifest     *)
(* also hold what was asked for.                                           *)
(***************************************************************************)
EXTENDS Naturals, FiniteSets, ObjectStore

CONSTANTS
    Pages,        \* raw responses: [markets : a set of tickers, next : a cursor or NoCursor]
    MaxPages, MaxRetries,
    WorldDays, Snapshots   \* bounds: days, calls of write_snapshot

VARIABLES
    worldLake,
    day,
    source,     \* the pagination of fetch_markets
    importer,   \* a local payload being imported
    snapshots,  \* calls of write_snapshot, by caller
    calls

worldVars == <<worldLake, day, source, importer, snapshots, calls>>

Callers == {"source", "importer"}
NoCursor == "end"
Quiet == [pc |-> "quiet"]

\* A request is what a caller asked for: the cursor of the page, or the mode of
\* the import.
SnapshotKey(kind, raw, date) == <<kind, raw, date>>
SnapshotManifest(raw) == <<"manifest", raw>>
SnapshotCheckpoint(raw) == <<"checkpoint", raw>>

WorldInit ==
    /\ worldLake = EmptyStore
    /\ day = 0
    /\ source = [pc |-> "idle", markets |-> {}, landed |-> {}]
    /\ importer = [pc |-> "idle", markets |-> {}, landed |-> {}]
    /\ snapshots = [c \in Callers |-> Quiet]
    /\ calls = 0

WorldTypeOK ==
    /\ day \in 0 .. WorldDays /\ calls \in 0 .. Snapshots
    /\ source.pc \in {"idle", "request", "landing", "parse", "fetched", "raised"}
    /\ importer.pc \in {"idle", "landing", "parse", "reported", "raised"}
    /\ \A c \in Callers : snapshots[c].pc \in
         {"quiet", "manifest", "checkpoint", "claim", "raw", "bronze", "commit", "done", "failed"}

-----------------------------------------------------------------------------
(***************************************************************************)
(* write_snapshot                                                          *)
(***************************************************************************)
Write(c, raw, request) ==
    snapshots' = [snapshots EXCEPT ![c] =
        [pc |-> "manifest", raw |-> raw, request |-> request, date |-> day, at |-> <<day, c>>]]

Turn(c, pc) == snapshots' = [snapshots EXCEPT ![c].pc = pc]
WriterOnly == UNCHANGED <<day, source, importer, calls>>

\* _validate_manifest compares the event and the raw checksum, which are the
\* name of the manifest: a snapshot that was landed is answered from it.
SnapshotKnown(c) ==
    /\ snapshots[c].pc = "manifest"
    /\ Turn(c, IF Stored(worldLake, SnapshotManifest(snapshots[c].raw)) THEN "done" ELSE "checkpoint")
    /\ WriterOnly /\ UNCHANGED worldLake

\* The partition and the time are those of the call that began the landing.
SnapshotResumes(c) ==
    /\ snapshots[c].pc = "checkpoint"
    /\ LET key == SnapshotCheckpoint(snapshots[c].raw) IN
         IF ~Stored(worldLake, key) THEN Turn(c, "claim")
         ELSE snapshots' = [snapshots EXCEPT ![c].pc = "raw", ![c].date = worldLake[key].date,
                                             ![c].at = worldLake[key].at]
    /\ WriterOnly /\ UNCHANGED worldLake

WorldBronze(s) == [raw |-> s.raw, request |-> s.request, at |-> s.at]

Lineage(s) == [rawKey |-> SnapshotKey("raw", s.raw, s.date), raw |-> s.raw,
               bronzeKey |-> SnapshotKey("bronze", s.raw, s.date), bronze |-> WorldBronze(s),
               request |-> s.request, at |-> s.at]

\* A put of put_object_bytes; a conflict ends the call.
PutSnapshot(c, at, key, data, then) ==
    /\ snapshots[c].pc = at
    /\ IF Conflicts(worldLake, key, data) THEN Turn(c, "failed") /\ UNCHANGED worldLake
       ELSE worldLake' = PutBytes(worldLake, key, data) /\ Turn(c, then)
    /\ WriterOnly

SnapshotStep(c) ==
    LET s == snapshots[c] IN
    \/ SnapshotKnown(c)
    \/ SnapshotResumes(c)
    \/ PutSnapshot(c, "claim", SnapshotCheckpoint(s.raw), [date |-> s.date, at |-> s.at], "raw")
    \/ PutSnapshot(c, "raw", SnapshotKey("raw", s.raw, s.date), s.raw, "bronze")
    \/ PutSnapshot(c, "bronze", SnapshotKey("bronze", s.raw, s.date), WorldBronze(s), "commit")
    \/ PutSnapshot(c, "commit", SnapshotManifest(s.raw), Lineage(s), "done")

SnapshotStops(c) ==
    /\ snapshots[c].pc \notin {"quiet", "done", "failed"}
    /\ Turn(c, "failed")
    /\ WriterOnly /\ UNCHANGED worldLake

-----------------------------------------------------------------------------
(***************************************************************************)
(* fetch_markets over iter_event_pages.  _get_json retries what may pass   *)
(* and raises the rest.                                                    *)
(***************************************************************************)
Fetch ==
    /\ source.pc \in {"idle", "fetched", "raised"} /\ calls < Snapshots
    /\ source' = [pc |-> "request", cursor |-> NoCursor, seenCursors |-> {}, pages |-> 0,
                  tries |-> 0, markets |-> {}, landed |-> {}]
    /\ UNCHANGED <<worldLake, day, importer, snapshots, calls>>

RequestFails ==
    /\ source.pc = "request"
    /\ source' = IF source.tries < MaxRetries THEN [source EXCEPT !.tries = @ + 1]
                 ELSE [source EXCEPT !.pc = "raised", !.markets = {}]
    /\ UNCHANGED <<worldLake, day, importer, snapshots, calls>>

ListEvents(page) ==
    /\ source.pc = "request" /\ calls < Snapshots
    /\ calls' = calls + 1
    /\ source' = [pc |-> "landing", page |-> page, cursor |-> source.cursor,
                  seenCursors |-> source.seenCursors, pages |-> source.pages, tries |-> 0,
                  markets |-> source.markets, landed |-> source.landed]
    /\ Write("source", page, source.cursor)
    /\ UNCHANGED <<worldLake, day, importer>>

\* The markets of a page, once each; then the next page unless its cursor was
\* followed before.
ParsePage ==
    /\ source.pc = "landing" /\ snapshots["source"].pc = "done"
    /\ LET page == source.page
           more == /\ page.next \notin {NoCursor} \cup source.seenCursors
                   /\ source.pages + 1 < MaxPages
           read == [source EXCEPT !.markets = @ \cup page.markets, !.landed = @ \cup {page},
                                  !.pages = @ + 1]
       IN  source' = IF more
                     THEN [read EXCEPT !.pc = "request", !.cursor = page.next,
                                       !.seenCursors = @ \cup {page.next}]
                     ELSE [pc |-> "fetched", markets |-> read.markets, landed |-> read.landed]
    /\ Turn("source", "quiet")
    /\ UNCHANGED <<worldLake, day, importer, calls>>

\* Nothing of a fetch whose landing failed is returned.
LandingRaises ==
    /\ source.pc = "landing" /\ snapshots["source"].pc = "failed"
    /\ source' = [pc |-> "raised", markets |-> {}, landed |-> {}]
    /\ Turn("source", "quiet")
    /\ UNCHANGED <<worldLake, day, importer, calls>>

\* _build_import_report: land, then normalise and scan.
Import(page) ==
    /\ importer.pc \in {"idle", "reported", "raised"} /\ calls < Snapshots
    /\ calls' = calls + 1
    /\ importer' = [pc |-> "landing", page |-> page, markets |-> {}, landed |-> {}]
    /\ Write("importer", page, "import")
    /\ UNCHANGED <<worldLake, day, source>>

ImportEnds ==
    /\ importer.pc = "landing" /\ snapshots["importer"].pc \in {"done", "failed"}
    /\ importer' = IF snapshots["importer"].pc = "done"
                   THEN [pc |-> "reported", markets |-> importer.page.markets,
                         landed |-> {importer.page}]
                   ELSE [pc |-> "raised", markets |-> {}, landed |-> {}]
    /\ Turn("importer", "quiet")
    /\ UNCHANGED <<worldLake, day, source, calls>>

Midnight ==
    /\ day < WorldDays
    /\ day' = day + 1
    /\ UNCHANGED <<worldLake, source, importer, snapshots, calls>>

WorldNext ==
    \/ \E c \in Callers : SnapshotStep(c) \/ SnapshotStops(c)
    \/ Fetch \/ RequestFails \/ ParsePage \/ LandingRaises \/ ImportEnds \/ Midnight
    \/ \E page \in Pages : ListEvents(page) \/ Import(page)

-----------------------------------------------------------------------------
\* Every snapshot the lake vouches for can be restored, and what a fetch or an
\* import reports comes from snapshots that are in the lake, whatever the two
\* callers race for and wherever one stops.
ReportedIsLanded ==
    /\ \A k \in DOMAIN worldLake : k[1] = "manifest" =>
          LET m == worldLake[k] IN
          /\ Stored(worldLake, m.rawKey) /\ worldLake[m.rawKey] = m.raw
          /\ Stored(worldLake, m.bronzeKey) /\ worldLake[m.bronzeKey] = m.bronze
    /\ \A r \in {source, importer} : \A page \in r.landed : Stored(worldLake, SnapshotManifest(page))
    /\ source.markets \subseteq UNION {p.markets : p \in source.landed}
=============================================================================
