----------------------------- MODULE OnchainLake -----------------------------
(***************************************************************************)
(* Landing of raw stream frames (write_raw) by several writers, and runs   *)
(* that compact a day's Bronze parts.  Each may stop after any object: a   *)
(* crash, an error of the store, or an answer that was lost after the      *)
(* object was written.                                                     *)
(***************************************************************************)
EXTENDS Naturals, FiniteSets, ObjectStore

CONSTANTS
    Writers, EventIds, Frames,   \* Frames: raw bytes of a notification
    Compactors,                  \* runs of compact_bronze at once
    MinParts, MaxParts,          \* parts of a compaction
    LastDay, Landings            \* bounds: days, calls of write_raw

VARIABLES
    lake,      \* the object store
    today,
    landing,   \* each writer's call of write_raw
    landings,  \* calls begun
    compactor  \* each run of compact_bronze

lakeVars == <<lake, today, landing, landings, compactor>>

NoId == "none"
Notices == [id : EventIds \cup {NoId}, raw : Frames]
Days == 0 .. LastDay

\* _event_id: an event without an identity is named by the bytes of its frame.
EventId(n) == IF n.id = NoId THEN n.raw ELSE n.id

RawKey(id, date) == <<"raw", id, date>>
BronzeKey(id, date) == <<"bronze", id, date>>
ManifestKey(id) == <<"manifest", id>>
CheckpointKey(id) == <<"checkpoint", id>>
OutputKey(parts) == <<"output", parts>>
CompactionKey(parts) == <<"compaction", parts>>

Idle == [pc |-> "idle"]

LakeInit ==
    /\ lake = EmptyStore
    /\ today = 0
    /\ landing = [w \in Writers |-> Idle]
    /\ landings = 0
    /\ compactor = [c \in Compactors |-> Idle]

LakeTypeOK ==
    /\ today \in Days /\ landings \in 0 .. Landings
    /\ \A w \in Writers : landing[w].pc \in
         {"idle", "manifest", "checkpoint", "claim", "raw", "bronze", "commit", "landed", "failed"}
    /\ \A w \in Writers : landing[w] # Idle => /\ landing[w].notice \in Notices
                                               /\ landing[w].date \in Days
    /\ \A c \in Compactors : compactor[c].pc \in {"idle", "output", "manifest", "done", "failed"}

-----------------------------------------------------------------------------
(***************************************************************************)
(* write_raw                                                               *)
(***************************************************************************)
Goto(w, pc) == landing' = [landing EXCEPT ![w].pc = pc]

Id(w) == EventId(landing[w].notice)

\* observed_at is the moment of the call: the partition of both objects.
Begin(w, n) ==
    /\ landing[w].pc \in {"idle", "landed", "failed"}
    /\ landings < Landings
    /\ landings' = landings + 1
    /\ landing' = [landing EXCEPT ![w] =
          [pc |-> "manifest", notice |-> n, date |-> today, receivedAt |-> <<today, w>>]]
    /\ UNCHANGED <<lake, today, compactor>>

\* _validate_existing_manifest: the same frame in the same partition.
ManifestAgrees(m, w) ==
    /\ m.rawKey = RawKey(Id(w), landing[w].date)
    /\ m.raw = landing[w].notice.raw
    /\ m.bronzeKey = BronzeKey(Id(w), landing[w].date)

ReadManifest(w) ==
    /\ landing[w].pc = "manifest"
    /\ LET key == ManifestKey(Id(w)) IN
         IF ~Stored(lake, key) THEN Goto(w, "checkpoint")
         ELSE IF ManifestAgrees(lake[key], w) THEN Goto(w, "landed")
         ELSE Goto(w, "failed")
    /\ UNCHANGED <<lake, today, landings, compactor>>

\* _validate_checkpoint
CheckpointAgrees(c, w) ==
    /\ c.rawKey = RawKey(Id(w), landing[w].date)
    /\ c.raw = landing[w].notice.raw

\* A call that resumes takes the time of the call that began the landing.
ReadCheckpoint(w) ==
    /\ landing[w].pc = "checkpoint"
    /\ LET key == CheckpointKey(Id(w)) IN
         IF ~Stored(lake, key) THEN Goto(w, "claim")
         ELSE IF CheckpointAgrees(lake[key], w)
         THEN landing' = [landing EXCEPT ![w].pc = "raw",
                                         ![w].receivedAt = lake[key].receivedAt]
         ELSE Goto(w, "failed")
    /\ UNCHANGED <<lake, today, landings, compactor>>

Checkpoint(w) == [rawKey |-> RawKey(Id(w), landing[w].date), raw |-> landing[w].notice.raw,
                  receivedAt |-> landing[w].receivedAt]

\* _bronze_bytes
Bronze(w) == [id |-> Id(w), raw |-> landing[w].notice.raw,
              rawKey |-> RawKey(Id(w), landing[w].date), receivedAt |-> landing[w].receivedAt]

Manifest(w) == [rawKey |-> RawKey(Id(w), landing[w].date), raw |-> landing[w].notice.raw,
                bronzeKey |-> BronzeKey(Id(w), landing[w].date), bronze |-> Bronze(w),
                receivedAt |-> landing[w].receivedAt]

\* One put: it succeeds, or it conflicts and the call fails.
Put(w, at, key, data, then) ==
    /\ landing[w].pc = at
    /\ IF Conflicts(lake, key, data) THEN Goto(w, "failed") /\ UNCHANGED lake
       ELSE lake' = PutBytes(lake, key, data) /\ Goto(w, then)
    /\ UNCHANGED <<today, landings, compactor>>

PutCheckpoint(w) == Put(w, "claim", CheckpointKey(Id(w)), Checkpoint(w), "raw")
PutRaw(w) == Put(w, "raw", RawKey(Id(w), landing[w].date), landing[w].notice.raw, "bronze")
PutBronze(w) == Put(w, "bronze", BronzeKey(Id(w), landing[w].date), Bronze(w), "commit")

\* A manifest that another writer committed first is accepted when it agrees.
PutManifest(w) ==
    /\ landing[w].pc = "commit"
    /\ LET key == ManifestKey(Id(w)) IN
         IF ~Conflicts(lake, key, Manifest(w))
         THEN lake' = PutBytes(lake, key, Manifest(w)) /\ Goto(w, "landed")
         ELSE /\ Goto(w, IF ManifestAgrees(lake[key], w) THEN "landed" ELSE "failed")
              /\ UNCHANGED lake
    /\ UNCHANGED <<today, landings, compactor>>

\* A crash or an error of the store, whether or not the last object was written.
Stop(w) ==
    /\ landing[w].pc \in {"manifest", "checkpoint", "claim", "raw", "bronze", "commit"}
    /\ Goto(w, "failed")
    /\ UNCHANGED <<lake, today, landings, compactor>>

NextDay ==
    /\ today < LastDay
    /\ today' = today + 1
    /\ UNCHANGED <<lake, landing, landings, compactor>>

-----------------------------------------------------------------------------
(***************************************************************************)
(* compact_bronze: plan over the listed parts, then the output, then the   *)
(* manifest.  It deletes nothing.                                          *)
(***************************************************************************)
BronzeOf(day) == ListKeys(lake, "bronze", day)

\* The parts are immutable: what is read after the listing is what was listed.
Refs(keys) == {<<k, lake[k]>> : k \in keys}

\* A committed compaction of the same parts is only verified.
CompactPlan(c, day) ==
    /\ compactor[c].pc \in {"idle", "done", "failed"}
    /\ Cardinality(BronzeOf(day)) \in MinParts .. MaxParts
    /\ LET parts == Refs(BronzeOf(day)) IN
         compactor' = [compactor EXCEPT ![c] =
             IF Stored(lake, CompactionKey(parts)) THEN [pc |-> "done"]
             ELSE [pc |-> "output", parts |-> parts]]
    /\ UNCHANGED <<lake, today, landing, landings>>

RowsOf(parts) == {p[2] : p \in parts}

CompactOutput(c) ==
    /\ compactor[c].pc = "output"
    /\ LET parts == compactor[c].parts IN
         /\ ~Conflicts(lake, OutputKey(parts), RowsOf(parts))
         /\ lake' = PutBytes(lake, OutputKey(parts), RowsOf(parts))
         /\ compactor' = [compactor EXCEPT ![c] = [pc |-> "manifest", parts |-> parts]]
    /\ UNCHANGED <<today, landing, landings>>

\* Its created_at tells the manifests of two runs apart.
CompactionManifest(c, parts) == [parts |-> parts, rows |-> RowsOf(parts), createdBy |-> c]

\* _validate_existing_compaction
CompactionAgrees(m, parts) == m.parts = parts /\ m.rows = RowsOf(parts)

\* The manifest of a run that was faster is accepted when it agrees.
CompactCommit(c) ==
    /\ compactor[c].pc = "manifest"
    /\ LET parts == compactor[c].parts
           key == CompactionKey(parts)
           m == CompactionManifest(c, parts)
           agrees == ~Conflicts(lake, key, m) \/ CompactionAgrees(lake[key], parts)
       IN  /\ lake' = PutBytes(lake, key, m)
           /\ compactor' = [compactor EXCEPT ![c] = [pc |-> IF agrees THEN "done" ELSE "failed"]]
    /\ UNCHANGED <<today, landing, landings>>

CompactStop(c) ==
    /\ compactor[c].pc \in {"output", "manifest"}
    /\ compactor' = [compactor EXCEPT ![c] = Idle]
    /\ UNCHANGED <<lake, today, landing, landings>>

CompactStep(c) ==
    \/ \E day \in Days : CompactPlan(c, day)
    \/ CompactOutput(c) \/ CompactCommit(c) \/ CompactStop(c)

LakeNext ==
    \/ \E w \in Writers, n \in Notices : Begin(w, n)
    \/ \E w \in Writers : \/ ReadManifest(w) \/ ReadCheckpoint(w) \/ PutCheckpoint(w)
                          \/ PutRaw(w) \/ PutBronze(w) \/ PutManifest(w) \/ Stop(w)
    \/ NextDay
    \/ \E c \in Compactors : CompactStep(c)

-----------------------------------------------------------------------------
\* restore_manifest: both objects are there with the checksums of the manifest.
Restores(m) == /\ Stored(lake, m.rawKey) /\ lake[m.rawKey] = m.raw
               /\ Stored(lake, m.bronzeKey) /\ lake[m.bronzeKey] = m.bronze

\* verify_compaction_manifest: the output and every source part.
Verifies(key, m) == /\ Stored(lake, OutputKey(key[2])) /\ lake[OutputKey(key[2])] = m.rows
                    /\ \A p \in m.parts : Stored(lake, p[1]) /\ lake[p[1]] = p[2]

\* Whatever the writers race for and wherever they stop, each manifest restores
\* its frame and Bronze row, and a writer that was told so has landed its frame
\* with one Bronze row for the event ("exactly once").
LandedRestores ==
    /\ \A id \in EventIds \cup Frames :
          Stored(lake, ManifestKey(id)) => Restores(lake[ManifestKey(id)])
    /\ \A w \in Writers : landing[w].pc = "landed" =>
          /\ Stored(lake, ManifestKey(Id(w)))
          /\ lake[ManifestKey(Id(w))].raw = landing[w].notice.raw
    /\ \A k, l \in DOMAIN lake : k[1] = "bronze" /\ l[1] = "bronze" /\ k[2] = l[2] => k = l

\* A compaction that was committed verifies for ever, with writers still landing
\* parts of the same day.
CompactionsVerify ==
    \A k \in DOMAIN lake : k[1] = "compaction" => Verifies(k, lake[k])
=============================================================================
