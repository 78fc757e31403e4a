--------------------------- MODULE Landing_proofs ---------------------------
(***************************************************************************)
(* What holds of the landing for any number of writers, frames, pages and  *)
(* days: the two lakes, and what the on-chain stream owes its consumer.    *)
(***************************************************************************)
EXTENDS Lakes, OnchainStream, FiniteSetTheorems, WellFoundedInduction, TLAPS

Grows(store, later) ==
    \A k \in DOMAIN store : k \in DOMAIN later /\ later[k] = store[k]

\* put_bytes adds one object and changes none.
LEMMA PutAdds ==
    ASSUME NEW store, NEW key, NEW data
    PROVE  /\ DOMAIN PutBytes(store, key, data) = DOMAIN store \cup {key}
           /\ Grows(store, PutBytes(store, key, data))
           /\ ~Conflicts(store, key, data) => PutBytes(store, key, data)[key] = data
           /\ key \notin DOMAIN store => PutBytes(store, key, data)[key] = data
  <1>1. PutBytes(store, key, data) =
           [k \in DOMAIN store \cup {key} |-> IF k \in DOMAIN store THEN store[k] ELSE data]
    BY Zenon DEF PutBytes, Stored
  <1> DEFINE put == PutBytes(store, key, data)
  <1> HIDE DEF put
  <1>2. DOMAIN put = DOMAIN store \cup {key}
    BY <1>1 DEF put
  <1>3. \A k \in DOMAIN put : put[k] = IF k \in DOMAIN store THEN store[k] ELSE data
    BY <1>1 DEF put
  <1>4. ~Conflicts(store, key, data) => put[key] = data
    BY <1>2, <1>3 DEF Conflicts, Stored
  <1>5. Grows(store, put)
    BY <1>2, <1>3 DEF Grows
  <1>6. key \notin DOMAIN store => put[key] = data
    BY <1>2, <1>3
  <1> QED
    BY Zenon, <1>2, <1>4, <1>5, <1>6 DEF put

-----------------------------------------------------------------------------
(***************************************************************************)
(* The lake of world markets.                                              *)
(***************************************************************************)
SnapshotFields == {"pc", "raw", "request", "date", "at"}

Holds(store, key, data) == Stored(store, key) /\ store[key] = data

\* The objects a call of write_snapshot has put by its next step.
WriterSound(c) ==
    LET s == snapshots[c] IN
    /\ s.pc # "quiet" => SnapshotFields \subseteq DOMAIN s
    /\ s.pc \in {"bronze", "commit"} => Holds(worldLake, SnapshotKey("raw", s.raw, s.date), s.raw)
    /\ s.pc = "commit" => Holds(worldLake, SnapshotKey("bronze", s.raw, s.date), WorldBronze(s))
    /\ s.pc = "done" => Stored(worldLake, SnapshotManifest(s.raw))

Restorable(m) == Holds(worldLake, m.rawKey, m.raw) /\ Holds(worldLake, m.bronzeKey, m.bronze)

LakeVouches ==
    /\ DOMAIN snapshots = Callers
    /\ \A c \in Callers : WriterSound(c)
    /\ \A k \in DOMAIN worldLake : k[1] = "manifest" => Restorable(worldLake[k])

ReaderFields == {"pc", "markets", "landed"}

\* A caller that waits for its landing waits for the page it fetched; what it
\* has taken up was landed.
ReadersSound ==
    /\ ReaderFields \subseteq DOMAIN source
    /\ source.pc = "landing" => snapshots["source"].raw = source.page
    /\ importer.pc = "landing" => snapshots["importer"].raw = importer.page
    /\ \A page \in source.landed : Stored(worldLake, SnapshotManifest(page))
    /\ \A page \in importer.landed : Stored(worldLake, SnapshotManifest(page))
    /\ source.markets \subseteq UNION {p.markets : p \in source.landed}

WorldInv == LakeVouches /\ ReadersSound

LEMMA HoldsOn ==
    ASSUME NEW store, NEW later, Grows(store, later), NEW key, NEW data
    PROVE  /\ Holds(store, key, data) => Holds(later, key, data)
           /\ Stored(store, key) => Stored(later, key)
  BY DEF Grows, Holds, Stored

\* A writer's step: the lake grows, with manifests that restore, the other
\* writer stays, and the one that moved keeps its page.
LEMMA WriterStep ==
    ASSUME WorldInv, NEW c \in Callers, WriterOnly,
           DOMAIN snapshots' = Callers,
           \A d \in Callers : d # c => snapshots'[d] = snapshots[d],
           snapshots'[c].raw = snapshots[c].raw,
           WriterSound(c)',
           Grows(worldLake, worldLake'),
           \A k \in DOMAIN worldLake' : \/ k \in DOMAIN worldLake
                                        \/ k[1] = "manifest" => Restorable(worldLake'[k])
    PROVE  WorldInv'
  <1>1. ASSUME NEW d \in Callers PROVE WriterSound(d)'
    <2>1. CASE d = c
      BY <2>1
    <2>2. CASE d # c
      <3>1. WriterSound(d) /\ snapshots'[d] = snapshots[d]
        BY <2>2 DEF WorldInv, LakeVouches
      <3> QED
        BY <3>1, HoldsOn DEF WriterSound
    <2> QED
      BY <2>1, <2>2
  <1>2. ASSUME NEW m, Restorable(m) PROVE Holds(worldLake', m.rawKey, m.raw)
                                          /\ Holds(worldLake', m.bronzeKey, m.bronze)
    BY <1>2, HoldsOn DEF Restorable
  <1>3. ASSUME NEW k \in DOMAIN worldLake', k[1] = "manifest"
        PROVE  Restorable(worldLake[k])'
    <2>1. CASE k \in DOMAIN worldLake
      <3>1. Restorable(worldLake[k]) /\ worldLake'[k] = worldLake[k]
        BY <1>3, <2>1 DEF WorldInv, LakeVouches, Grows
      <3> QED
        BY <3>1, <1>2 DEF Restorable
    <2>2. CASE k \notin DOMAIN worldLake
      <3>1. Restorable(worldLake'[k])
        BY <1>3, <2>2
      <3> QED
        BY <3>1, <1>2 DEF Restorable
    <2> QED
      BY <2>1, <2>2
  <1>4. LakeVouches'
    BY <1>1, <1>3 DEF LakeVouches
  <1>5. ReadersSound'
    <2>1. UNCHANGED <<source, importer>>
      BY DEF WriterOnly
    <2>2. \A d \in Callers : snapshots'[d].raw = snapshots[d].raw
      OBVIOUS
    <2>3. /\ snapshots'["source"].raw = snapshots["source"].raw
          /\ snapshots'["importer"].raw = snapshots["importer"].raw
      BY <2>2 DEF Callers
    <2> QED
      BY <2>1, <2>3, HoldsOn DEF WorldInv, ReadersSound
  <1> QED
    BY <1>4, <1>5 DEF WorldInv

LEMMA TurnOf ==
    ASSUME WorldInv, NEW c \in Callers, NEW pc, Turn(c, pc)
    PROVE  /\ DOMAIN snapshots' = Callers
           /\ \A d \in Callers : d # c => snapshots'[d] = snapshots[d]
           /\ snapshots'[c] = [snapshots[c] EXCEPT !.pc = pc]
           /\ snapshots'[c].raw = snapshots[c].raw
  BY DEF Turn, WorldInv, LakeVouches

\* A put: the object is there and the call goes on, or the call has failed.
LEMMA PutStep ==
    ASSUME WorldInv, NEW c \in Callers, NEW at, NEW key, NEW data, NEW then,
           PutSnapshot(c, at, key, data, then),
           key[1] = "manifest" => Restorable(data),
           /\ Grows(worldLake, worldLake')
           /\ Holds(worldLake', key, data)
           /\ snapshots'[c] = [snapshots[c] EXCEPT !.pc = then]
           => WriterSound(c)',
           snapshots'[c] = [snapshots[c] EXCEPT !.pc = "failed"] => WriterSound(c)'
    PROVE  WorldInv'
  <1>1. CASE Conflicts(worldLake, key, data)
    <2>1. Turn(c, "failed") /\ UNCHANGED worldLake /\ WriterOnly
      BY <1>1 DEF PutSnapshot
    <2>2. Grows(worldLake, worldLake')
      BY <2>1 DEF Grows
    <2> QED
      BY <2>1, <2>2, TurnOf, WriterStep
  <1>2. CASE ~Conflicts(worldLake, key, data)
    <2>1. worldLake' = PutBytes(worldLake, key, data) /\ Turn(c, then) /\ WriterOnly
      BY <1>2 DEF PutSnapshot
    <2>2. Grows(worldLake, worldLake')
      BY <2>1, PutAdds
    <2>3. DOMAIN worldLake' = DOMAIN worldLake \cup {key} /\ worldLake'[key] = data
      BY <1>2, <2>1, PutAdds
    <2>4. Holds(worldLake', key, data)
      BY <2>3 DEF Holds, Stored
    <2>5. WriterSound(c)'
      BY <2>1, <2>2, <2>4, TurnOf
    <2>6. \A k \in DOMAIN worldLake' : \/ k \in DOMAIN worldLake
                                       \/ k[1] = "manifest" => Restorable(worldLake'[k])
      BY <2>3
    <2> QED
      BY <2>1, <2>2, <2>5, <2>6, TurnOf, WriterStep
  <1> QED
    BY <1>1, <1>2

LEMMA SnapshotSteps ==
    ASSUME WorldInv, NEW c \in Callers, SnapshotStep(c) \/ SnapshotStops(c)
    PROVE  WorldInv'
  <1> DEFINE s == snapshots[c]
  <1>0. WriterSound(c)
    BY DEF WorldInv, LakeVouches
  <1>1. CASE SnapshotKnown(c)
    <2>1. PICK pc \in {"done", "checkpoint"} :
             /\ Turn(c, pc) /\ UNCHANGED worldLake /\ WriterOnly
             /\ pc = "done" => Stored(worldLake, SnapshotManifest(s.raw))
      BY <1>1 DEF SnapshotKnown
    <2>2. Grows(worldLake, worldLake')
      BY <2>1 DEF Grows
    <2>3. s.pc = "manifest"
      BY <1>1 DEF SnapshotKnown
    <2>4. WriterSound(c)'
      <3>1. snapshots'[c] = [s EXCEPT !.pc = pc]
        BY <2>1, TurnOf
      <3> QED
        BY <1>0, <2>1, <2>3, <3>1 DEF WriterSound, SnapshotFields
    <2> QED
      BY <2>1, <2>2, <2>4, TurnOf, WriterStep
  <1>2. CASE SnapshotResumes(c)
    <2>1. s.pc = "checkpoint" /\ UNCHANGED worldLake /\ WriterOnly
      BY <1>2 DEF SnapshotResumes
    <2>2. Grows(worldLake, worldLake')
      BY <2>1 DEF Grows
    <2>3. CASE Turn(c, "claim")
      <3>1. WriterSound(c)'
        <4>1. snapshots'[c] = [s EXCEPT !.pc = "claim"]
          BY <2>3, TurnOf
        <4> QED
          BY <1>0, <2>1, <4>1 DEF WriterSound, SnapshotFields
      <3> QED
        BY <2>1, <2>2, <2>3, <3>1, TurnOf, WriterStep
    <2>4. CASE ~Turn(c, "claim")
      <3>1. PICK date, at : snapshots' = [snapshots EXCEPT ![c].pc = "raw", ![c].date = date,
                                                           ![c].at = at]
        BY <1>2, <2>4 DEF SnapshotResumes
      <3>2. DOMAIN snapshots = Callers
        BY DEF WorldInv, LakeVouches
      <3>3. /\ DOMAIN snapshots' = Callers
            /\ \A d \in Callers : d # c => snapshots'[d] = snapshots[d]
            /\ snapshots'[c] = [s EXCEPT !.pc = "raw", !.date = date, !.at = at]
        BY <3>1, <3>2
      <3>4. WriterSound(c)' /\ snapshots'[c].raw = s.raw
        BY <1>0, <2>1, <3>3 DEF WriterSound, SnapshotFields
      <3> QED
        BY <2>1, <2>2, <3>3, <3>4, WriterStep
    <2> QED
      BY <2>3, <2>4
  <1>3. CASE PutSnapshot(c, "claim", SnapshotCheckpoint(s.raw), [date |-> s.date, at |-> s.at], "raw")
    <2>1. s.pc = "claim"
      BY <1>3 DEF PutSnapshot
    <2>2. ASSUME NEW pc \in {"raw", "failed"}, snapshots'[c] = [s EXCEPT !.pc = pc]
          PROVE  WriterSound(c)'
      BY <1>0, <2>1, <2>2 DEF WriterSound, SnapshotFields
    <2>3. SnapshotCheckpoint(s.raw)[1] # "manifest"
      BY DEF SnapshotCheckpoint
    <2> QED
      BY <1>3, <2>2, <2>3, PutStep
  <1>4. CASE PutSnapshot(c, "raw", SnapshotKey("raw", s.raw, s.date), s.raw, "bronze")
    <2>1. s.pc = "raw"
      BY <1>4 DEF PutSnapshot
    <2>2. ASSUME Holds(worldLake', SnapshotKey("raw", s.raw, s.date), s.raw),
                 snapshots'[c] = [s EXCEPT !.pc = "bronze"]
          PROVE  WriterSound(c)'
      BY <1>0, <2>1, <2>2 DEF WriterSound, SnapshotFields
    <2>3. ASSUME snapshots'[c] = [s EXCEPT !.pc = "failed"] PROVE WriterSound(c)'
      BY <1>0, <2>1, <2>3 DEF WriterSound, SnapshotFields
    <2>4. SnapshotKey("raw", s.raw, s.date)[1] # "manifest"
      BY DEF SnapshotKey
    <2> QED
      BY <1>4, <2>2, <2>3, <2>4, PutStep
  <1>5. CASE PutSnapshot(c, "bronze", SnapshotKey("bronze", s.raw, s.date), WorldBronze(s), "commit")
    <2>1. s.pc = "bronze"
      BY <1>5 DEF PutSnapshot
    <2>2. ASSUME Grows(worldLake, worldLake'),
                 Holds(worldLake', SnapshotKey("bronze", s.raw, s.date), WorldBronze(s)),
                 snapshots'[c] = [s EXCEPT !.pc = "commit"]
          PROVE  WriterSound(c)'
      <3>1. Holds(worldLake', SnapshotKey("raw", s.raw, s.date), s.raw)
        BY <1>0, <2>1, <2>2, HoldsOn DEF WriterSound
      <3>2. /\ snapshots'[c].raw = s.raw /\ snapshots'[c].date = s.date
            /\ snapshots'[c].request = s.request /\ snapshots'[c].at = s.at
            /\ snapshots'[c].pc = "commit" /\ DOMAIN snapshots'[c] = DOMAIN s
        BY <1>0, <2>1, <2>2 DEF WriterSound, SnapshotFields
      <3> QED
        BY <1>0, <2>1, <2>2, <3>1, <3>2 DEF WriterSound, WorldBronze
    <2>3. ASSUME snapshots'[c] = [s EXCEPT !.pc = "failed"] PROVE WriterSound(c)'
      BY <1>0, <2>1, <2>3 DEF WriterSound, SnapshotFields
    <2>4. SnapshotKey("bronze", s.raw, s.date)[1] # "manifest"
      BY DEF SnapshotKey
    <2> QED
      BY <1>5, <2>2, <2>3, <2>4, PutStep
  <1>6. CASE PutSnapshot(c, "commit", SnapshotManifest(s.raw), Lineage(s), "done")
    <2>1. s.pc = "commit"
      BY <1>6 DEF PutSnapshot
    <2>2. ASSUME Holds(worldLake', SnapshotManifest(s.raw), Lineage(s)),
                 snapshots'[c] = [s EXCEPT !.pc = "done"]
          PROVE  WriterSound(c)'
      BY <1>0, <2>1, <2>2 DEF WriterSound, SnapshotFields, Holds
    <2>3. ASSUME snapshots'[c] = [s EXCEPT !.pc = "failed"] PROVE WriterSound(c)'
      BY <1>0, <2>1, <2>3 DEF WriterSound, SnapshotFields
    <2>4. Restorable(Lineage(s))
      BY <1>0, <2>1 DEF WriterSound, Restorable, Lineage
    <2> QED
      BY <1>6, <2>2, <2>3, <2>4, PutStep
  <1>7. CASE SnapshotStops(c)
    <2>1. s.pc # "quiet" /\ Turn(c, "failed") /\ UNCHANGED worldLake /\ WriterOnly
      BY <1>7 DEF SnapshotStops
    <2>2. Grows(worldLake, worldLake')
      BY <2>1 DEF Grows
    <2>3. WriterSound(c)'
      <3>1. snapshots'[c] = [s EXCEPT !.pc = "failed"]
        BY <2>1, TurnOf
      <3> QED
        BY <1>0, <2>1, <3>1 DEF WriterSound, SnapshotFields
    <2> QED
      BY <2>1, <2>2, <2>3, TurnOf, WriterStep
  <1> QED
    BY <1>1, <1>2, <1>3, <1>4, <1>5, <1>6, <1>7 DEF SnapshotStep

\* A caller begins a call of write_snapshot, or takes the answer of one.
LEMMA WriteSound ==
    ASSUME WorldInv, UNCHANGED worldLake, NEW c \in Callers, NEW raw, NEW request, Write(c, raw, request)
    PROVE  /\ LakeVouches'
           /\ snapshots'[c].raw = raw
           /\ \A d \in Callers : d # c => snapshots'[d] = snapshots[d]
  <1>1. /\ DOMAIN snapshots' = Callers
        /\ \A d \in Callers : d # c => snapshots'[d] = snapshots[d]
        /\ snapshots'[c] = [pc |-> "manifest", raw |-> raw, request |-> request, date |-> day,
                            at |-> <<day, c>>]
    BY DEF Write, WorldInv, LakeVouches
  <1>2. WriterSound(c)'
    BY <1>1 DEF WriterSound, SnapshotFields
  <1>3. \A d \in Callers : d # c => WriterSound(d)'
    BY <1>1 DEF WorldInv, LakeVouches, WriterSound
  <1>4. \A d \in Callers : WriterSound(d)'
    BY <1>2, <1>3
  <1>5. LakeVouches'
    BY <1>1, <1>4 DEF WorldInv, LakeVouches, Restorable
  <1> QED
    BY <1>1, <1>5

LEMMA AnswerTaken ==
    ASSUME WorldInv, UNCHANGED worldLake, NEW c \in Callers, snapshots[c].pc \in {"done", "failed"},
           Turn(c, "quiet")
    PROVE  /\ LakeVouches'
           /\ \A d \in Callers : snapshots'[d].raw = snapshots[d].raw
           /\ snapshots[c].pc = "done" => Stored(worldLake, SnapshotManifest(snapshots[c].raw))
  <1>0. WriterSound(c)
    BY DEF WorldInv, LakeVouches
  <1>1. /\ DOMAIN snapshots' = Callers
        /\ \A d \in Callers : d # c => snapshots'[d] = snapshots[d]
        /\ snapshots'[c] = [snapshots[c] EXCEPT !.pc = "quiet"]
        /\ snapshots'[c].raw = snapshots[c].raw
    BY TurnOf
  <1>2. WriterSound(c)'
    BY <1>0, <1>1 DEF WriterSound, SnapshotFields
  <1>3. \A d \in Callers : d # c => WriterSound(d)'
    BY <1>1 DEF WorldInv, LakeVouches, WriterSound
  <1>4. \A d \in Callers : WriterSound(d)'
    BY <1>2, <1>3
  <1>5. LakeVouches'
    BY <1>1, <1>4 DEF WorldInv, LakeVouches, Restorable
  <1>6. \A d \in Callers : snapshots'[d].raw = snapshots[d].raw
    BY <1>1
  <1>7. snapshots[c].pc = "done" => Stored(worldLake, SnapshotManifest(snapshots[c].raw))
    BY <1>0 DEF WriterSound
  <1> QED
    BY <1>5, <1>6, <1>7

\* fetch_markets and iter_event_pages.
LEMMA SourceSteps ==
    ASSUME WorldInv,
           Fetch \/ RequestFails \/ ParsePage \/ LandingRaises \/ \E page \in Pages : ListEvents(page)
    PROVE  WorldInv'
  <1>0. ReadersSound /\ LakeVouches
    BY DEF WorldInv
  <1>1. CASE Fetch \/ RequestFails
    <2>1. UNCHANGED <<worldLake, importer, snapshots>>
      BY <1>1 DEF Fetch, RequestFails
    <2>2. \/ /\ ReaderFields \subseteq DOMAIN source'
             /\ source'.pc # "landing"
             /\ source'.markets = {} /\ source'.landed = {}
          \/ source' = [source EXCEPT !.tries = @ + 1] /\ source.pc = "request"
          \/ source' = [source EXCEPT !.pc = "raised", !.markets = {}]
      BY <1>1 DEF Fetch, RequestFails, ReaderFields
    <2>3. /\ ReaderFields \subseteq DOMAIN source'
          /\ source'.pc # "landing"
          /\ \/ source'.markets = {} /\ source'.landed = {}
             \/ source'.markets = source.markets /\ source'.landed = source.landed
             \/ source'.markets = {} /\ source'.landed = source.landed
      BY <1>0, <2>2 DEF ReadersSound, ReaderFields
    <2>4. LakeVouches'
      BY <1>0, <2>1 DEF LakeVouches, WriterSound, Restorable
    <2>5. ReadersSound'
      BY <1>0, <2>1, <2>3 DEF ReadersSound
    <2> QED
      BY <2>4, <2>5 DEF WorldInv
  <1>2. CASE ParsePage
    <2>1. /\ source.pc = "landing" /\ snapshots["source"].pc = "done"
          /\ Turn("source", "quiet") /\ UNCHANGED <<worldLake, importer>>
      BY <1>2 DEF ParsePage
    <2> DEFINE page == source.page
    <2>2. /\ ReaderFields \subseteq DOMAIN source'
          /\ source'.pc # "landing"
          /\ source'.markets = source.markets \cup page.markets
          /\ source'.landed = source.landed \cup {page}
      BY <1>0, <1>2 DEF ParsePage, ReadersSound, ReaderFields
    <2>3. "source" \in Callers /\ "importer" \in Callers
      BY DEF Callers
    <2>4. LakeVouches' /\ Stored(worldLake, SnapshotManifest(page))
      BY <1>0, <2>1, <2>3, AnswerTaken DEF ReadersSound
    <2>5. snapshots'["importer"].raw = snapshots["importer"].raw
      BY <2>1, <2>3, AnswerTaken
    <2>6. ReadersSound'
      BY <1>0, <2>1, <2>2, <2>4, <2>5 DEF ReadersSound
    <2> QED
      BY <2>4, <2>6 DEF WorldInv
  <1>3. CASE LandingRaises
    <2>1. /\ snapshots["source"].pc = "failed"
          /\ Turn("source", "quiet") /\ UNCHANGED <<worldLake, importer>>
          /\ source' = [pc |-> "raised", markets |-> {}, landed |-> {}]
      BY <1>3 DEF LandingRaises
    <2>2. "source" \in Callers /\ "importer" \in Callers
      BY DEF Callers
    <2>3. LakeVouches' /\ snapshots'["importer"].raw = snapshots["importer"].raw
      BY <2>1, <2>2, AnswerTaken
    <2>4. ReadersSound'
      BY <1>0, <2>1, <2>3 DEF ReadersSound, ReaderFields
    <2> QED
      BY <2>3, <2>4 DEF WorldInv
  <1>4. ASSUME NEW page \in Pages, ListEvents(page) PROVE WorldInv'
    <2>1. Write("source", page, source.cursor) /\ UNCHANGED <<worldLake, importer>>
      BY <1>4 DEF ListEvents
    <2>2. /\ ReaderFields \subseteq DOMAIN source'
          /\ source'.page = page
          /\ source'.markets = source.markets /\ source'.landed = source.landed
      BY <1>4 DEF ListEvents, ReaderFields
    <2>3. "source" \in Callers /\ "importer" \in Callers /\ "source" # "importer"
      BY DEF Callers
    <2>4. /\ LakeVouches' /\ snapshots'["source"].raw = page
          /\ snapshots'["importer"] = snapshots["importer"]
      BY <2>1, <2>3, WriteSound
    <2>5. ReadersSound'
      BY <1>0, <2>1, <2>2, <2>4 DEF ReadersSound
    <2> QED
      BY <2>4, <2>5 DEF WorldInv
  <1> QED
    BY <1>1, <1>2, <1>3, <1>4

\* _build_import_report
LEMMA ImporterSteps ==
    ASSUME WorldInv, ImportEnds \/ \E page \in Pages : Import(page)
    PROVE  WorldInv'
  <1>0. ReadersSound /\ LakeVouches
    BY DEF WorldInv
  <1>1. CASE ImportEnds
    <2>1. /\ importer.pc = "landing" /\ snapshots["importer"].pc \in {"done", "failed"}
          /\ Turn("importer", "quiet") /\ UNCHANGED <<worldLake, source>>
      BY <1>1 DEF ImportEnds
    <2>2. /\ importer'.pc # "landing"
          /\ \/ importer'.landed = {}
             \/ snapshots["importer"].pc = "done" /\ importer'.landed = {importer.page}
      BY <1>1 DEF ImportEnds
    <2>3. "source" \in Callers /\ "importer" \in Callers
      BY DEF Callers
    <2>4. /\ LakeVouches' /\ snapshots'["source"].raw = snapshots["source"].raw
          /\ snapshots["importer"].pc = "done" => Stored(worldLake, SnapshotManifest(importer.page))
      BY <1>0, <2>1, <2>3, AnswerTaken DEF ReadersSound
    <2>5. ReadersSound'
      BY <1>0, <2>1, <2>2, <2>4 DEF ReadersSound
    <2> QED
      BY <2>4, <2>5 DEF WorldInv
  <1>2. ASSUME NEW page \in Pages, Import(page) PROVE WorldInv'
    <2>1. /\ Write("importer", page, "import") /\ UNCHANGED <<worldLake, source>>
          /\ importer' = [pc |-> "landing", page |-> page, markets |-> {}, landed |-> {}]
      BY <1>2 DEF Import
    <2>2. "source" \in Callers /\ "importer" \in Callers /\ "source" # "importer"
      BY DEF Callers
    <2>3. /\ LakeVouches' /\ snapshots'["importer"].raw = page
          /\ snapshots'["source"] = snapshots["source"]
      BY <2>1, <2>2, WriteSound
    <2>4. ReadersSound'
      BY <1>0, <2>1, <2>3 DEF ReadersSound
    <2> QED
      BY <2>3, <2>4 DEF WorldInv
  <1> QED
    BY <1>1, <1>2

LEMMA WorldStep ==
    ASSUME WorldInv, WorldNext \/ UNCHANGED worldVars
    PROVE  WorldInv'
  <1>1. ASSUME NEW c \in Callers, SnapshotStep(c) \/ SnapshotStops(c) PROVE WorldInv'
    BY <1>1, SnapshotSteps
  <1>2. CASE Fetch \/ RequestFails \/ ParsePage \/ LandingRaises \/ \E page \in Pages : ListEvents(page)
    BY <1>2, SourceSteps
  <1>3. CASE ImportEnds \/ \E page \in Pages : Import(page)
    BY <1>3, ImporterSteps
  <1>4. CASE Midnight \/ UNCHANGED worldVars
    <2>1. UNCHANGED <<worldLake, source, importer, snapshots>>
      BY <1>4 DEF Midnight, worldVars
    <2> QED
      BY <2>1 DEF WorldInv, LakeVouches, ReadersSound, WriterSound, Restorable
  <1> QED
    BY <1>1, <1>2, <1>3, <1>4 DEF WorldNext

LEMMA WorldInitially == WorldInit => WorldInv
  <1> SUFFICES ASSUME WorldInit PROVE WorldInv
    OBVIOUS
  <1>1. LakeVouches
    BY DEF WorldInit, LakeVouches, WriterSound, Quiet, EmptyStore, Stored, SnapshotFields
  <1>2. ReadersSound
    BY DEF WorldInit, ReadersSound, ReaderFields
  <1> QED
    BY <1>1, <1>2 DEF WorldInv

LEMMA WorldReports == WorldInv => ReportedIsLanded
  <1> SUFFICES ASSUME WorldInv PROVE ReportedIsLanded
    OBVIOUS
  <1>1. \A k \in DOMAIN worldLake : k[1] = "manifest" => Restorable(worldLake[k])
    BY DEF WorldInv, LakeVouches
  <1>2. \A r \in {source, importer} : \A page \in r.landed : Stored(worldLake, SnapshotManifest(page))
    BY DEF WorldInv, ReadersSound
  <1>3. source.markets \subseteq UNION {p.markets : p \in source.landed}
    BY DEF WorldInv, ReadersSound
  <1> QED
    BY <1>1, <1>2, <1>3 DEF ReportedIsLanded, Restorable, Holds

-----------------------------------------------------------------------------
(***************************************************************************)
(* The on-chain lake.                                                      *)
(***************************************************************************)
LandingFields == {"pc", "notice", "date", "receivedAt"}

\* The objects a call of write_raw has put by its next step.  From its checkpoint
\* on it lands what the checkpoint says, which no other call can change.
LandingSound(w) ==
    LET l == landing[w] IN
    /\ l.pc # "idle" => LandingFields \subseteq DOMAIN l
    /\ l.pc \in {"raw", "bronze", "commit"} => Holds(lake, CheckpointKey(Id(w)), Checkpoint(w))
    /\ l.pc \in {"bronze", "commit"} => Holds(lake, RawKey(Id(w), l.date), l.notice.raw)
    /\ l.pc = "commit" => Holds(lake, BronzeKey(Id(w), l.date), Bronze(w))
    /\ l.pc = "landed" => /\ Stored(lake, ManifestKey(Id(w)))
                          /\ lake[ManifestKey(Id(w))].raw = l.notice.raw

CheckpointForm(c) == c = [rawKey |-> c.rawKey, raw |-> c.raw, receivedAt |-> c.receivedAt]

\* A Bronze row lies in the partition its event's only checkpoint names.
ObjectSound(k) ==
    /\ k[1] = "checkpoint" => CheckpointForm(lake[k])
    /\ k[1] = "bronze" => /\ k = BronzeKey(k[2], k[3])
                          /\ Stored(lake, CheckpointKey(k[2]))
                          /\ lake[CheckpointKey(k[2])].rawKey = RawKey(k[2], k[3])
    /\ k[1] = "manifest" => Restores(lake[k])
    /\ k[1] = "compaction" => Verifies(k, lake[k])

CompactorSound(c) ==
    LET run == compactor[c] IN
    /\ run.pc \in {"output", "manifest"} =>
          \A p \in run.parts : Holds(lake, p[1], p[2])
    /\ run.pc = "manifest" => Holds(lake, OutputKey(run.parts), RowsOf(run.parts))

CompactorsSound ==
    /\ DOMAIN compactor = Compactors
    /\ \A c \in Compactors : CompactorSound(c)

LakeInv ==
    /\ DOMAIN landing = Writers
    /\ \A w \in Writers : LandingSound(w)
    /\ \A k \in DOMAIN lake : ObjectSound(k)
    /\ CompactorsSound

LEMMA ObjectStays ==
    ASSUME Grows(lake, lake'), NEW k \in DOMAIN lake, ObjectSound(k)
    PROVE  ObjectSound(k)'
  <1>1. k \in DOMAIN lake' /\ lake'[k] = lake[k]
    BY DEF Grows
  <1>2. CASE k[1] = "checkpoint"
    BY <1>1, <1>2 DEF ObjectSound
  <1>3. CASE k[1] = "bronze"
    <2>1. CheckpointKey(k[2]) \in DOMAIN lake
      BY <1>3 DEF ObjectSound, Stored
    <2>2. CheckpointKey(k[2]) \in DOMAIN lake' /\ lake'[CheckpointKey(k[2])] = lake[CheckpointKey(k[2])]
      BY <2>1 DEF Grows
    <2> QED
      BY <1>3, <2>2 DEF ObjectSound, Stored
  <1>4. CASE k[1] = "manifest"
    <2>1. Restores(lake[k])
      BY <1>4 DEF ObjectSound
    <2>2. Restores(lake[k])'
      BY <1>1, <2>1 DEF Restores, Grows, Stored
    <2> QED
      BY <1>4, <2>2 DEF ObjectSound
  <1>5. CASE k[1] = "compaction"
    <2>1. Verifies(k, lake[k])
      BY <1>5 DEF ObjectSound
    <2>2. Verifies(k, lake[k])'
      BY <1>1, <2>1 DEF Verifies, Grows, Stored
    <2> QED
      BY <1>5, <2>2 DEF ObjectSound
  <1> QED
    BY <1>2, <1>3, <1>4, <1>5 DEF ObjectSound

LEMMA CompactorStays ==
    ASSUME Grows(lake, lake'), NEW c, compactor'[c] = compactor[c], CompactorSound(c)
    PROVE  CompactorSound(c)'
  <1> DEFINE run == compactor[c]
  <1>1. run.pc \in {"output", "manifest"} => \A p \in run.parts : Holds(lake', p[1], p[2])
    BY HoldsOn DEF CompactorSound
  <1>2. run.pc = "manifest" => Holds(lake', OutputKey(run.parts), RowsOf(run.parts))
    BY HoldsOn DEF CompactorSound
  <1> QED
    BY <1>1, <1>2 DEF CompactorSound

LEMMA LandingStays ==
    ASSUME Grows(lake, lake'), NEW w, landing'[w] = landing[w], LandingSound(w)
    PROVE  LandingSound(w)'
  <1>1. /\ Id(w)' = Id(w) /\ Checkpoint(w)' = Checkpoint(w) /\ Bronze(w)' = Bronze(w)
    BY DEF Id, Checkpoint, Bronze
  <1> DEFINE l == landing[w]
             key == ManifestKey(Id(w))
  <1>2. l.pc = "landed" => Stored(lake', key) /\ lake'[key].raw = l.notice.raw
    BY DEF LandingSound, Grows, Stored
  <1>3. l.pc = "commit" => Holds(lake', BronzeKey(Id(w), l.date), Bronze(w))
    BY HoldsOn DEF LandingSound
  <1>4. l.pc \in {"bronze", "commit"} => Holds(lake', RawKey(Id(w), l.date), l.notice.raw)
    BY HoldsOn DEF LandingSound
  <1>5. l.pc \in {"raw", "bronze", "commit"} => Holds(lake', CheckpointKey(Id(w)), Checkpoint(w))
    BY HoldsOn DEF LandingSound
  <1> QED
    BY <1>1, <1>2, <1>3, <1>4, <1>5 DEF LandingSound

\* A writer's step: the lake grows by sound objects, the other writers stay.
LEMMA LandingStep ==
    ASSUME LakeInv, NEW w \in Writers, UNCHANGED compactor,
           Grows(lake, lake'),
           \A k \in DOMAIN lake' : k \in DOMAIN lake \/ ObjectSound(k)',
           DOMAIN landing' = Writers,
           \A v \in Writers : v # w => landing'[v] = landing[v],
           LandingSound(w)'
    PROVE  LakeInv'
  <1>1. \A v \in Writers : LandingSound(v)'
    BY LandingStays DEF LakeInv
  <1>2. \A k \in DOMAIN lake' : ObjectSound(k)'
    BY ObjectStays DEF LakeInv
  <1>3. CompactorsSound'
    BY CompactorStays DEF LakeInv, CompactorsSound
  <1> QED
    BY <1>1, <1>2, <1>3 DEF LakeInv

\* A step in a call changes where it is and nothing of what it lands.
LEMMA GotoOf ==
    ASSUME LakeInv, NEW w \in Writers, NEW pc, Goto(w, pc), landing[w].pc # "idle"
    PROVE  /\ DOMAIN landing' = Writers
           /\ \A v \in Writers : v # w => landing'[v] = landing[v]
           /\ landing'[w].pc = pc /\ DOMAIN landing'[w] = DOMAIN landing[w]
           /\ landing'[w].notice = landing[w].notice /\ landing'[w].date = landing[w].date
           /\ Id(w)' = Id(w) /\ Checkpoint(w)' = Checkpoint(w) /\ Bronze(w)' = Bronze(w)
           /\ LandingFields \subseteq DOMAIN landing[w]
  <1>1. LandingSound(w) /\ DOMAIN landing = Writers
    BY DEF LakeInv
  <1>2. LandingFields \subseteq DOMAIN landing[w]
    BY <1>1 DEF LandingSound
  <1>3. /\ DOMAIN landing' = Writers
        /\ \A v \in Writers : v # w => landing'[v] = landing[v]
        /\ landing'[w] = [landing[w] EXCEPT !.pc = pc]
    BY <1>1 DEF Goto
  <1>4. /\ landing'[w].pc = pc /\ DOMAIN landing'[w] = DOMAIN landing[w]
        /\ landing'[w].notice = landing[w].notice /\ landing'[w].date = landing[w].date
        /\ landing'[w].receivedAt = landing[w].receivedAt
    BY <1>2, <1>3 DEF LandingFields
  <1>5. Id(w)' = Id(w)
    BY <1>4 DEF Id
  <1>6. Checkpoint(w)' = Checkpoint(w) /\ Bronze(w)' = Bronze(w)
    BY <1>4, <1>5 DEF Checkpoint, Bronze
  <1> QED
    BY <1>2, <1>3, <1>4, <1>5, <1>6

\* A put: the object is there and the call goes on, or the call has failed.
LEMMA LandingPut ==
    ASSUME LakeInv, NEW w \in Writers, NEW at, NEW key, NEW data, NEW then,
           Put(w, at, key, data, then), at # "idle",
           Grows(lake, lake') /\ Holds(lake', key, data) => ObjectSound(key)',
           Grows(lake, lake') /\ Holds(lake', key, data) /\ Goto(w, then) => LandingSound(w)'
    PROVE  LakeInv'
  <1>0. landing[w].pc # "idle"
    BY DEF Put
  <1>1. CASE Conflicts(lake, key, data)
    <2>1. Goto(w, "failed") /\ UNCHANGED <<lake, compactor>>
      BY <1>1 DEF Put
    <2>2. Grows(lake, lake')
      BY <2>1 DEF Grows
    <2>3. LandingSound(w)'
      BY <1>0, <2>1, GotoOf DEF LandingSound
    <2> QED
      BY <1>0, <2>1, <2>2, <2>3, GotoOf, LandingStep
  <1>2. CASE ~Conflicts(lake, key, data)
    <2>1. lake' = PutBytes(lake, key, data) /\ Goto(w, then) /\ UNCHANGED compactor
      BY <1>2 DEF Put
    <2>2. Grows(lake, lake')
      BY <2>1, PutAdds
    <2>3. DOMAIN lake' = DOMAIN lake \cup {key} /\ lake'[key] = data
      BY <1>2, <2>1, PutAdds
    <2>4. Holds(lake', key, data)
      BY <2>3 DEF Holds, Stored
    <2>5. \A k \in DOMAIN lake' : k \in DOMAIN lake \/ ObjectSound(k)'
      BY <2>2, <2>3, <2>4
    <2>6. LandingSound(w)'
      BY <2>1, <2>2, <2>4
    <2> QED
      BY <1>0, <2>1, <2>2, <2>5, <2>6, GotoOf, LandingStep
  <1> QED
    BY <1>1, <1>2

\* A call that puts nothing, or ends.
LEMMA LandingGoes ==
    ASSUME LakeInv, NEW w \in Writers, NEW pc, Goto(w, pc), landing[w].pc # "idle",
           UNCHANGED <<lake, compactor>>,
           pc \in {"checkpoint", "claim", "failed", "landed"},
           pc = "landed" => /\ Stored(lake, ManifestKey(Id(w)))
                            /\ lake[ManifestKey(Id(w))].raw = landing[w].notice.raw
    PROVE  LakeInv'
  <1>1. Grows(lake, lake')
    BY DEF Grows
  <1>2. LandingSound(w)'
    BY GotoOf DEF LandingSound
  <1> QED
    BY <1>1, <1>2, GotoOf, LandingStep

LEMMA BeginStep ==
    ASSUME LakeInv, NEW w \in Writers, NEW n, Begin(w, n)
    PROVE  LakeInv'
  <1>1. /\ DOMAIN landing' = Writers
        /\ \A v \in Writers : v # w => landing'[v] = landing[v]
        /\ landing'[w] = [pc |-> "manifest", notice |-> n, date |-> today, receivedAt |-> <<today, w>>]
    BY DEF Begin, LakeInv
  <1>2. LandingSound(w)'
    BY <1>1 DEF LandingSound, LandingFields
  <1>3. Grows(lake, lake') /\ UNCHANGED <<lake, compactor>>
    BY DEF Begin, Grows
  <1> QED
    BY <1>1, <1>2, <1>3, LandingStep

LEMMA ReadManifestStep ==
    ASSUME LakeInv, NEW w \in Writers, ReadManifest(w)
    PROVE  LakeInv'
  <1> DEFINE key == ManifestKey(Id(w))
  <1>1. landing[w].pc # "idle" /\ UNCHANGED <<lake, compactor>>
    BY DEF ReadManifest
  <1>2. \/ Goto(w, "checkpoint") \/ Goto(w, "failed")
        \/ Goto(w, "landed") /\ Stored(lake, key) /\ ManifestAgrees(lake[key], w)
    BY DEF ReadManifest
  <1>3. ManifestAgrees(lake[key], w) => lake[key].raw = landing[w].notice.raw
    BY DEF ManifestAgrees
  <1> QED
    BY <1>1, <1>2, <1>3, LandingGoes

LEMMA ReadCheckpointStep ==
    ASSUME LakeInv, NEW w \in Writers, ReadCheckpoint(w)
    PROVE  LakeInv'
  <1> DEFINE key == CheckpointKey(Id(w))
  <1>1. landing[w].pc = "checkpoint" /\ UNCHANGED <<lake, compactor>>
    BY DEF ReadCheckpoint
  <1>2. CASE Goto(w, "claim") \/ Goto(w, "failed")
    BY <1>1, <1>2, LandingGoes
  <1>3. CASE ~(Goto(w, "claim") \/ Goto(w, "failed"))
    <2>1. /\ Stored(lake, key) /\ CheckpointAgrees(lake[key], w)
          /\ landing' = [landing EXCEPT ![w].pc = "raw", ![w].receivedAt = lake[key].receivedAt]
      BY <1>3 DEF ReadCheckpoint
    <2>2. LandingSound(w) /\ DOMAIN landing = Writers /\ ObjectSound(key)
      BY <2>1 DEF LakeInv, Stored
    <2>3. /\ DOMAIN landing' = Writers
          /\ \A v \in Writers : v # w => landing'[v] = landing[v]
          /\ landing'[w] = [landing[w] EXCEPT !.pc = "raw", !.receivedAt = lake[key].receivedAt]
      BY <2>1, <2>2
    <2>4. LandingFields \subseteq DOMAIN landing[w]
      BY <1>1, <2>2 DEF LandingSound
    <2>5. /\ landing'[w].pc = "raw" /\ DOMAIN landing'[w] = DOMAIN landing[w]
          /\ landing'[w].notice = landing[w].notice /\ landing'[w].date = landing[w].date
          /\ landing'[w].receivedAt = lake[key].receivedAt
      BY <2>3, <2>4 DEF LandingFields
    <2>6. Id(w)' = Id(w)
      BY <2>5 DEF Id
    <2>7. CheckpointForm(lake[key])
      <3>1. key[1] = "checkpoint"
        BY DEF CheckpointKey
      <3> QED
        BY <2>2, <3>1 DEF ObjectSound
    <2>8. Checkpoint(w)' = lake[key]
      BY <2>1, <2>5, <2>6, <2>7 DEF Checkpoint, CheckpointForm, CheckpointAgrees
    <2>9. LandingSound(w)'
      BY <1>1, <2>1, <2>4, <2>5, <2>6, <2>8 DEF LandingSound, Holds
    <2>10. Grows(lake, lake')
      BY <1>1 DEF Grows
    <2> QED
      BY <1>1, <2>3, <2>9, <2>10, LandingStep
  <1> QED
    BY <1>2, <1>3

LEMMA PutCheckpointStep ==
    ASSUME LakeInv, NEW w \in Writers, PutCheckpoint(w)
    PROVE  LakeInv'
  <1>0. PICK key, data : key = CheckpointKey(Id(w)) /\ data = Checkpoint(w)
    OBVIOUS
  <1>1. Put(w, "claim", key, data, "raw") /\ landing[w].pc = "claim"
    BY <1>0 DEF PutCheckpoint, Put
  <1>2. ASSUME Holds(lake', key, data) PROVE ObjectSound(key)'
    <2>1. key[1] = "checkpoint" /\ lake'[key] = data
      BY <1>0, <1>2 DEF CheckpointKey, Holds
    <2>2. CheckpointForm(data)
      BY <1>0 DEF Checkpoint, CheckpointForm
    <2> QED
      BY <2>1, <2>2 DEF ObjectSound
  <1>3. ASSUME Holds(lake', key, data), Goto(w, "raw") PROVE LandingSound(w)'
    BY <1>0, <1>1, <1>3, GotoOf DEF LandingSound
  <1> QED
    BY <1>1, <1>2, <1>3, LandingPut

LEMMA PutRawStep ==
    ASSUME LakeInv, NEW w \in Writers, PutRaw(w)
    PROVE  LakeInv'
  <1>0. PICK key, data : key = RawKey(Id(w), landing[w].date) /\ data = landing[w].notice.raw
    OBVIOUS
  <1>1. Put(w, "raw", key, data, "bronze") /\ landing[w].pc = "raw"
    BY <1>0 DEF PutRaw, Put
  <1>2. ObjectSound(key)'
    <2>1. key[1] = "raw"
      BY <1>0 DEF RawKey
    <2> QED
      BY <2>1 DEF ObjectSound
  <1>3. Holds(lake, CheckpointKey(Id(w)), Checkpoint(w))
    BY <1>1 DEF LakeInv, LandingSound
  <1>4. ASSUME Grows(lake, lake'), Holds(lake', key, data), Goto(w, "bronze") PROVE LandingSound(w)'
    <2>1. Holds(lake', CheckpointKey(Id(w)), Checkpoint(w))
      BY <1>3, <1>4, HoldsOn
    <2> QED
      BY <1>0, <1>1, <1>4, <2>1, GotoOf DEF LandingSound
  <1> QED
    BY <1>1, <1>2, <1>4, LandingPut

LEMMA PutBronzeStep ==
    ASSUME LakeInv, NEW w \in Writers, PutBronze(w)
    PROVE  LakeInv'
  <1>0. PICK key, data : key = BronzeKey(Id(w), landing[w].date) /\ data = Bronze(w)
    OBVIOUS
  <1>1. Put(w, "bronze", key, data, "commit") /\ landing[w].pc = "bronze"
    BY <1>0 DEF PutBronze, Put
  <1>2. /\ Holds(lake, CheckpointKey(Id(w)), Checkpoint(w))
        /\ Holds(lake, RawKey(Id(w), landing[w].date), landing[w].notice.raw)
    BY <1>1 DEF LakeInv, LandingSound
  <1>3. Checkpoint(w).rawKey = RawKey(Id(w), landing[w].date)
    BY DEF Checkpoint
  <1>4. ASSUME Grows(lake, lake') PROVE ObjectSound(key)'
    <2>1. Holds(lake', CheckpointKey(Id(w)), Checkpoint(w))
      BY <1>2, <1>4, HoldsOn
    <2>2. key[1] = "bronze" /\ key[2] = Id(w) /\ key[3] = landing[w].date
      BY <1>0 DEF BronzeKey
    <2>3. key = BronzeKey(key[2], key[3])
      BY <1>0, <2>2
    <2> QED
      BY <1>3, <2>1, <2>2, <2>3 DEF ObjectSound, Holds
  <1>5. ASSUME Grows(lake, lake'), Holds(lake', key, data), Goto(w, "commit") PROVE LandingSound(w)'
    <2>1. /\ Holds(lake', CheckpointKey(Id(w)), Checkpoint(w))
          /\ Holds(lake', RawKey(Id(w), landing[w].date), landing[w].notice.raw)
      BY <1>2, <1>5, HoldsOn
    <2> QED
      BY <1>0, <1>1, <1>5, <2>1, GotoOf DEF LandingSound
  <1> QED
    BY <1>1, <1>4, <1>5, LandingPut

LEMMA PutManifestStep ==
    ASSUME LakeInv, NEW w \in Writers, PutManifest(w)
    PROVE  LakeInv'
  <1>0. PICK key, data : key = ManifestKey(Id(w)) /\ data = Manifest(w)
    OBVIOUS
  <1>1. landing[w].pc = "commit" /\ UNCHANGED compactor
    BY DEF PutManifest
  <1>2. /\ Holds(lake, RawKey(Id(w), landing[w].date), landing[w].notice.raw)
        /\ Holds(lake, BronzeKey(Id(w), landing[w].date), Bronze(w))
    BY <1>1 DEF LakeInv, LandingSound
  <1>3. CASE Conflicts(lake, key, data)
    <2>1. /\ UNCHANGED lake /\ Stored(lake, key)
          /\ \/ Goto(w, "failed")
             \/ Goto(w, "landed") /\ ManifestAgrees(lake[key], w)
      BY <1>0, <1>3 DEF PutManifest, Conflicts
    <2>2. ManifestAgrees(lake[key], w) => lake[key].raw = landing[w].notice.raw
      BY DEF ManifestAgrees
    <2> QED
      BY <1>0, <1>1, <2>1, <2>2, LandingGoes
  <1>4. CASE ~Conflicts(lake, key, data)
    <2>1. lake' = PutBytes(lake, key, data) /\ Goto(w, "landed")
      BY <1>0, <1>4 DEF PutManifest
    <2>2. Grows(lake, lake')
      BY <2>1, PutAdds
    <2>3. DOMAIN lake' = DOMAIN lake \cup {key} /\ lake'[key] = data
      BY <1>4, <2>1, PutAdds
    <2>4. /\ Holds(lake', RawKey(Id(w), landing[w].date), landing[w].notice.raw)
          /\ Holds(lake', BronzeKey(Id(w), landing[w].date), Bronze(w))
      BY <1>2, <2>2, HoldsOn
    <2>5. key[1] = "manifest"
      BY <1>0 DEF ManifestKey
    <2>6. Restores(data)'
      <3>1. /\ data.rawKey = RawKey(Id(w), landing[w].date) /\ data.raw = landing[w].notice.raw
            /\ data.bronzeKey = BronzeKey(Id(w), landing[w].date) /\ data.bronze = Bronze(w)
        BY <1>0 DEF Manifest
      <3> QED
        BY <2>4, <3>1 DEF Restores, Holds
    <2>7. ObjectSound(key)'
      BY <2>3, <2>5, <2>6 DEF ObjectSound
    <2>8. data.raw = landing[w].notice.raw
      BY <1>0 DEF Manifest
    <2>9. LandingSound(w)'
      BY <1>0, <1>1, <2>1, <2>3, <2>8, GotoOf DEF LandingSound, Stored
    <2> QED
      BY <1>1, <2>1, <2>2, <2>3, <2>7, <2>9, GotoOf, LandingStep
  <1> QED
    BY <1>3, <1>4

\* compact_bronze and the writers keep to themselves: what a run listed stays as
\* it was listed, and the other runs' objects stay too.
LEMMA CompactionStep ==
    ASSUME LakeInv, UNCHANGED landing, Grows(lake, lake'),
           \A k \in DOMAIN lake' : k \in DOMAIN lake \/ ObjectSound(k)',
           NEW c \in Compactors, NEW run,
           compactor' = [compactor EXCEPT ![c] = run],
           run.pc \in {"output", "manifest"} =>
               \A p \in run.parts : Holds(lake', p[1], p[2]),
           run.pc = "manifest" => Holds(lake', OutputKey(run.parts), RowsOf(run.parts))
    PROVE  LakeInv'
  <1>1. \A w \in Writers : LandingSound(w)'
    BY LandingStays DEF LakeInv
  <1>2. \A k \in DOMAIN lake' : ObjectSound(k)'
    BY ObjectStays DEF LakeInv
  <1>3. DOMAIN compactor' = Compactors /\ compactor'[c] = run
    BY DEF LakeInv, CompactorsSound
  <1>4. CompactorSound(c)'
    BY <1>3 DEF CompactorSound
  <1>5. ASSUME NEW d \in Compactors, d # c PROVE CompactorSound(d)'
    <2>1. compactor'[d] = compactor[d] /\ CompactorSound(d)
      BY <1>5 DEF LakeInv, CompactorsSound
    <2> QED
      BY <2>1, CompactorStays
  <1> QED
    BY <1>1, <1>2, <1>3, <1>4, <1>5 DEF LakeInv, CompactorsSound

LEMMA CompactionSteps ==
    ASSUME LakeInv, NEW c \in Compactors, CompactStep(c)
    PROVE  LakeInv'
  <1>0. CompactorSound(c)
    BY DEF LakeInv, CompactorsSound
  <1>1. ASSUME NEW d \in Days, CompactPlan(c, d) PROVE LakeInv'
    <2>0. PICK listed : listed = Refs(BronzeOf(d))
      OBVIOUS
    <2>1. UNCHANGED <<lake, landing>> /\ Grows(lake, lake')
      BY <1>1 DEF CompactPlan, Grows
    <2>2. \A p \in listed : Holds(lake, p[1], p[2])
      BY <2>0 DEF Refs, BronzeOf, ListKeys, Holds, Stored
    <2>3. CASE Stored(lake, CompactionKey(listed))
      <3>1. compactor' = [compactor EXCEPT ![c] = [pc |-> "done"]]
        BY <1>1, <2>0, <2>3 DEF CompactPlan
      <3> QED
        BY <2>1, <3>1, CompactionStep
    <2>4. CASE ~Stored(lake, CompactionKey(listed))
      <3>1. compactor' = [compactor EXCEPT ![c] = [pc |-> "output", parts |-> listed]]
        BY <1>1, <2>0, <2>4 DEF CompactPlan
      <3> QED
        BY <2>1, <2>2, <3>1, CompactionStep
    <2> QED
      BY <2>3, <2>4
  <1>2. CASE CompactOutput(c)
    <2>0. PICK parts, key, rows, run :
             /\ parts = compactor[c].parts /\ key = OutputKey(parts) /\ rows = RowsOf(parts)
             /\ run = [pc |-> "manifest", parts |-> parts]
      OBVIOUS
    <2>1. /\ compactor[c].pc = "output" /\ UNCHANGED landing /\ ~Conflicts(lake, key, rows)
          /\ lake' = PutBytes(lake, key, rows)
          /\ compactor' = [compactor EXCEPT ![c] = run]
      BY <1>2, <2>0 DEF CompactOutput
    <2>2. key[1] = "output" /\ run.pc = "manifest" /\ run.parts = parts
      BY <2>0 DEF OutputKey
    <2>3. \A p \in parts : Holds(lake, p[1], p[2])
      BY <1>0, <2>0, <2>1 DEF CompactorSound
    <2>4. Grows(lake, lake') /\ DOMAIN lake' = DOMAIN lake \cup {key} /\ lake'[key] = rows
      BY <2>1, PutAdds
    <2>5. ObjectSound(key)'
      BY <2>2 DEF ObjectSound
    <2>6. \A p \in run.parts : Holds(lake', p[1], p[2])
      BY <2>2, <2>3, <2>4, HoldsOn
    <2>7. Holds(lake', OutputKey(run.parts), RowsOf(run.parts))
      BY <2>0, <2>2, <2>4 DEF Holds, Stored
    <2>8. \A k \in DOMAIN lake' : k \in DOMAIN lake \/ ObjectSound(k)'
      BY <2>4, <2>5
    <2> QED
      BY <2>1, <2>4, <2>6, <2>7, <2>8, CompactionStep
  <1>3. CASE CompactCommit(c)
    <2>0. PICK parts, key, m, run :
             /\ parts = compactor[c].parts /\ key = CompactionKey(parts)
             /\ m = CompactionManifest(c, parts)
             /\ run = [pc |-> IF ~Conflicts(lake, key, m) \/ CompactionAgrees(lake[key], parts)
                              THEN "done" ELSE "failed"]
      OBVIOUS
    <2>1. /\ compactor[c].pc = "manifest" /\ UNCHANGED landing /\ lake' = PutBytes(lake, key, m)
          /\ compactor' = [compactor EXCEPT ![c] = run]
      BY <1>3, <2>0 DEF CompactCommit
    <2>2. run.pc \in {"done", "failed"}
      BY <2>0
    <2>3. /\ Holds(lake, OutputKey(parts), m.rows)
          /\ \A p \in m.parts : Holds(lake, p[1], p[2])
      BY <1>0, <2>0, <2>1 DEF CompactorSound, CompactionManifest
    <2>4. key[1] = "compaction" /\ key[2] = parts
      BY <2>0 DEF CompactionKey
    <2>5. /\ Grows(lake, lake') /\ DOMAIN lake' = DOMAIN lake \cup {key}
          /\ key \notin DOMAIN lake => lake'[key] = m
      BY <2>1, PutAdds
    <2>6. /\ Holds(lake', OutputKey(parts), m.rows)
          /\ \A p \in m.parts : Holds(lake', p[1], p[2])
      BY <2>3, <2>5, HoldsOn
    <2>7. key \notin DOMAIN lake => ObjectSound(key)'
      <3>1. Verifies(key, m)'
        BY <2>4, <2>6 DEF Verifies, Holds
      <3> QED
        BY <2>4, <2>5, <3>1 DEF ObjectSound
    <2>8. \A k \in DOMAIN lake' : k \in DOMAIN lake \/ ObjectSound(k)'
      BY <2>5, <2>7
    <2> QED
      BY <2>1, <2>2, <2>5, <2>8, CompactionStep
  <1>4. CASE CompactStop(c)
    <2>1. /\ UNCHANGED <<lake, landing>> /\ Grows(lake, lake')
          /\ compactor' = [compactor EXCEPT ![c] = Idle] /\ Idle.pc = "idle"
      BY <1>4 DEF CompactStop, Grows, Idle
    <2> QED
      BY <2>1, CompactionStep
  <1> QED
    BY <1>1, <1>2, <1>3, <1>4 DEF CompactStep

LEMMA LakeStep ==
    ASSUME LakeInv, LakeNext \/ UNCHANGED lakeVars
    PROVE  LakeInv'
  <1>1. ASSUME NEW w \in Writers, NEW n \in Notices, Begin(w, n) PROVE LakeInv'
    BY <1>1, BeginStep
  <1>2. ASSUME NEW w \in Writers,
               \/ ReadManifest(w) \/ ReadCheckpoint(w) \/ PutCheckpoint(w)
               \/ PutRaw(w) \/ PutBronze(w) \/ PutManifest(w)
        PROVE  LakeInv'
    BY <1>2, ReadManifestStep, ReadCheckpointStep, PutCheckpointStep, PutRawStep, PutBronzeStep,
       PutManifestStep
  <1>3. ASSUME NEW w \in Writers, Stop(w) PROVE LakeInv'
    <2>1. landing[w].pc # "idle" /\ Goto(w, "failed") /\ UNCHANGED <<lake, compactor>>
      BY <1>3 DEF Stop
    <2> QED
      BY <2>1, LandingGoes
  <1>4. ASSUME NEW c \in Compactors, CompactStep(c) PROVE LakeInv'
    BY <1>4, CompactionSteps
  <1>5. CASE NextDay \/ UNCHANGED lakeVars
    <2>1. UNCHANGED <<lake, landing, compactor>> /\ Grows(lake, lake')
      BY <1>5 DEF NextDay, lakeVars, Grows
    <2>2. /\ CompactorsSound' /\ DOMAIN landing' = Writers
          /\ \A w \in Writers : LandingSound(w)'
          /\ \A k \in DOMAIN lake' : ObjectSound(k)'
      BY <2>1, CompactorStays, LandingStays, ObjectStays DEF LakeInv, CompactorsSound
    <2> QED
      BY <2>2 DEF LakeInv
  <1> QED
    BY <1>1, <1>2, <1>3, <1>4, <1>5 DEF LakeNext

LEMMA LakeInitially == LakeInit => LakeInv
  BY DEF LakeInit, LakeInv, LandingSound, CompactorsSound, CompactorSound, Idle, EmptyStore, LandingFields

LEMMA LakeRestores == LakeInv => LandedRestores /\ CompactionsVerify
  <1> SUFFICES ASSUME LakeInv PROVE LandedRestores /\ CompactionsVerify
    OBVIOUS
  <1>1. ASSUME NEW id, Stored(lake, ManifestKey(id)) PROVE Restores(lake[ManifestKey(id)])
    <2>1. ManifestKey(id) \in DOMAIN lake /\ ManifestKey(id)[1] = "manifest"
      BY <1>1 DEF Stored, ManifestKey
    <2> QED
      BY <2>1 DEF LakeInv, ObjectSound
  <1>2. \A w \in Writers : landing[w].pc = "landed" =>
           /\ Stored(lake, ManifestKey(Id(w)))
           /\ lake[ManifestKey(Id(w))].raw = landing[w].notice.raw
    BY DEF LakeInv, LandingSound
  <1>3. ASSUME NEW k \in DOMAIN lake, NEW l \in DOMAIN lake,
               k[1] = "bronze", l[1] = "bronze", k[2] = l[2]
        PROVE  k = l
    <2>1. ObjectSound(k) /\ ObjectSound(l)
      BY DEF LakeInv
    <2>2. /\ k = BronzeKey(k[2], k[3]) /\ l = BronzeKey(l[2], l[3])
          /\ RawKey(k[2], k[3]) = RawKey(l[2], l[3])
      BY <1>3, <2>1 DEF ObjectSound
    <2>3. RawKey(k[2], k[3])[3] = k[3] /\ RawKey(l[2], l[3])[3] = l[3]
      BY DEF RawKey
    <2>4. k[3] = l[3]
      BY <2>2, <2>3
    <2>5. BronzeKey(k[2], k[3]) = BronzeKey(l[2], l[3])
      BY <1>3, <2>4
    <2> QED
      BY <2>2, <2>5
  <1>4. LandedRestores
    BY <1>1, <1>2, <1>3 DEF LandedRestores
  <1>5. CompactionsVerify
    BY DEF LakeInv, ObjectSound, CompactionsVerify
  <1> QED
    BY <1>4, <1>5

-----------------------------------------------------------------------------
\* For any number of writers, frames, identities, pages and days, with crashes and
\* lost answers at every object: a landing that was reported can be restored as it
\* was handed in, one Bronze row stands for an event, a committed compaction
\* verifies for ever, and an import reports nothing that is not in the lake
\* (write_raw, compact_bronze, write_snapshot).
THEOREM LakesKeepTheirWordHolds == LakesSpec => []LakesKeepTheirWord
  <1>1. LakesInit => LakeInv /\ WorldInv
    BY LakeInitially, WorldInitially DEF LakesInit
  <1>2. LakeInv /\ WorldInv /\ [LakesNext]_<<lakeVars, worldVars>> => LakeInv' /\ WorldInv'
    BY LakeStep, WorldStep DEF LakesNext
  <1>3. LakeInv /\ WorldInv => LakesKeepTheirWord
    BY LakeRestores, WorldReports DEF LakesKeepTheirWord
  <1> QED
    BY <1>1, <1>2, <1>3, PTL DEF LakesSpec

-----------------------------------------------------------------------------
(***************************************************************************)
(* The stream of on-chain notifications.                                   *)
(***************************************************************************)
MemoryFields(m) == {"seen", "pending", "lastSlot"} \subseteq DOMAIN m

\* The checkpoint is what the process remembers, with what did not fit left out.
StreamInv ==
    /\ MemoryFields(memory) /\ MemoryFields(checkpoint)
    /\ IsFiniteSet(memory.pending) /\ IsFiniteSet(checkpoint.pending)
    /\ checkpoint.seen = memory.seen
    /\ checkpoint.pending \subseteq memory.pending

\* What is pending fits the checkpoint.
Fits == Cardinality(memory.pending) <= PendingLimit

LEMMA SavedKeeps ==
    ASSUME StreamInv, NEW m, MemoryFields(m), IsFiniteSet(m.pending), Save(m),
           memory.pending \subseteq m.pending \cup m.seen
    PROVE  StreamInv' /\ (Fits' => OwedStep)
  <1>1. PICK p \in SUBSET m.pending :
           /\ checkpoint' = [m EXCEPT !.pending = p]
           /\ Cardinality(p) = (IF Cardinality(m.pending) <= PendingLimit
                                THEN Cardinality(m.pending) ELSE PendingLimit)
    BY DEF Save, Saved
  <1>2. memory' = m
    BY DEF Save
  <1>3. checkpoint'.seen = m.seen /\ checkpoint'.pending = p /\ DOMAIN checkpoint' = DOMAIN m
    BY <1>1 DEF MemoryFields
  <1>4. IsFiniteSet(p)
    BY <1>1, FS_Subset
  <1>5. StreamInv'
    BY <1>1, <1>2, <1>3, <1>4 DEF StreamInv, MemoryFields
  <1>6. ASSUME Fits' PROVE OwedStep
    <2>1. Cardinality(p) = Cardinality(m.pending)
      BY <1>1, <1>2, <1>6 DEF Fits
    <2>2. p = m.pending
      BY <1>1, <2>1, FS_Subset
    <2>3. checkpoint'.pending = m.pending /\ checkpoint'.seen = m.seen
      BY <1>3, <2>2
    <2> QED
      BY <2>3 DEF OwedStep, StreamInv
  <1> QED
    BY <1>5, <1>6

\* What the process takes up or is done with.
LEMMA WaitsKeeps ==
    ASSUME StreamInv, NEW s, Save(Waits(memory, s))
    PROVE  StreamInv' /\ (Fits' => OwedStep)
  <1>0. PICK m : m = Waits(memory, s)
    OBVIOUS
  <1>1. m.seen = memory.seen /\ m.pending = memory.pending \cup {s} /\ MemoryFields(m)
    BY <1>0 DEF Waits, StreamInv, MemoryFields
  <1>2. memory.pending \subseteq m.pending \cup m.seen
    BY <1>1
  <1>3. IsFiniteSet(m.pending)
    BY <1>1, FS_AddElement DEF StreamInv
  <1> QED
    BY <1>0, <1>1, <1>2, <1>3, SavedKeeps

LEMMA DoneKeeps ==
    ASSUME StreamInv, NEW s, NEW m, Save(m), MemoryFields(m),
           m.seen = memory.seen \cup {s}, m.pending = memory.pending \ {s}
    PROVE  StreamInv' /\ (Fits' => OwedStep)
  <1>1. memory.pending \subseteq m.pending \cup m.seen
    OBVIOUS
  <1>2. IsFiniteSet(m.pending)
    BY FS_Subset DEF StreamInv
  <1> QED
    BY <1>1, <1>2, SavedKeeps

LEMMA SeenKeeps ==
    ASSUME StreamInv, NEW s, Save(Done(memory, s))
    PROVE  StreamInv' /\ (Fits' => OwedStep)
  <1>0. PICK m : m = Done(memory, s)
    OBVIOUS
  <1>1. m.seen = memory.seen \cup {s} /\ m.pending = memory.pending \ {s} /\ MemoryFields(m)
    BY <1>0 DEF Done, StreamInv, MemoryFields
  <1> QED
    BY <1>0, <1>1, DoneKeeps

\* A retry that got its transaction: the slot stays.
LEMMA RetriedKeeps ==
    ASSUME StreamInv, NEW s, Save([Done(memory, s) EXCEPT !.lastSlot = memory.lastSlot])
    PROVE  StreamInv' /\ (Fits' => OwedStep)
  <1>0. PICK m : m = Done(memory, s)
    OBVIOUS
  <1>1. m.seen = memory.seen \cup {s} /\ m.pending = memory.pending \ {s} /\ MemoryFields(m)
    BY <1>0 DEF Done, StreamInv, MemoryFields
  <1>2. PICK n : n = [m EXCEPT !.lastSlot = memory.lastSlot]
    OBVIOUS
  <1>3. n.seen = memory.seen \cup {s} /\ n.pending = memory.pending \ {s} /\ MemoryFields(n)
    BY <1>1, <1>2 DEF MemoryFields
  <1> QED
    BY <1>0, <1>2, <1>3, DoneKeeps

LEMMA ProcessedKeeps ==
    ASSUME StreamInv, NEW s, NEW outcome, NEW initial, Processed(s, outcome, initial)
    PROVE  StreamInv' /\ (Fits' => OwedStep)
  <1>1. Save(Waits(memory, s)) \/ Save(Done(memory, s))
    BY DEF Processed
  <1> QED
    BY <1>1, WaitsKeeps, SeenKeeps

LEMMA StreamStep ==
    ASSUME StreamInv, StreamNext \/ UNCHANGED streamVars
    PROVE  StreamInv' /\ (Fits' => OwedStep)
  <1>1. CASE UNCHANGED <<memory, checkpoint>>
    BY <1>1 DEF StreamInv, OwedStep, MemoryFields
  <1>2. ASSUME NEW s \in Signatures, Alert(s) \/ Failed(s) \/ Enrich(s) \/ RetryOne(s)
        PROVE  StreamInv' /\ (Fits' => OwedStep)
    <2>1. CASE Alert(s)
      BY <2>1, WaitsKeeps DEF Alert
    <2>2. CASE Failed(s)
      BY <2>2, SeenKeeps DEF Failed
    <2>3. CASE Enrich(s)
      BY <2>3, ProcessedKeeps DEF Enrich
    <2>4. CASE RetryOne(s)
      <3>1. Save([Done(memory, s) EXCEPT !.lastSlot = memory.lastSlot]) \/ UNCHANGED <<memory, checkpoint>>
        BY <2>4 DEF RetryOne
      <3> QED
        BY <1>1, <3>1, RetriedKeeps
    <2> QED
      BY <1>2, <2>1, <2>2, <2>3, <2>4
  <1>3. ASSUME NEW s \in Signatures, Confirm(s) \/ Unhinted(s) \/ Refused(s)
        PROVE  UNCHANGED <<memory, checkpoint>>
    BY <1>3 DEF Confirm, Unhinted, Refused
  <1>4. CASE Process
    BY <1>4, ProcessedKeeps DEF Process
  <1>5. CASE Connect \/ BackfillNext \/ BackfillFails \/ Retry \/ Disconnect \/ UNCHANGED streamVars
    BY <1>1, <1>5 DEF Connect, BackfillNext, BackfillFails, Retry, Disconnect, streamVars
  <1>6. CASE Restart
    BY <1>6 DEF Restart, StreamInv, OwedStep
  <1> QED
    BY <1>1, <1>2, <1>3, <1>4, <1>5, <1>6 DEF StreamNext

LEMMA StreamInitially == StreamInit => StreamInv
  BY FS_EmptySet DEF StreamInit, StreamInv, MemoryFields, Fresh

\* Whatever the number of signatures: as long as what is pending fits the
\* checkpoint, nothing that was owed is forgotten (_save_checkpoint,
\* _load_checkpoint, _retry_pending).
THEOREM OwedWhileItFits == StreamSpec => [][Fits' => OwedStep]_streamVars
  <1>1. StreamInit => StreamInv
    BY StreamInitially
  <1>2. StreamInv /\ [StreamNext]_streamVars => StreamInv' /\ (Fits' => OwedStep)
    BY StreamStep
  <1> QED
    BY <1>1, <1>2, PTL DEF StreamSpec


\* A set of natural numbers that is not empty has its least element.
LEMMA LeastIn ==
    ASSUME NEW S, S \subseteq Nat, S # {}
    PROVE  Min(S) \in S
  <1>1. IsWellFoundedOn(OpToRel(<, Nat), Nat)
    BY Zenon, NatLessThanWellFounded
  <1>2. PICK x \in S : \A y \in S : ~(<<y, x>> \in OpToRel(<, Nat))
    BY Zenon, <1>1, WFMin
  <1>3. \A y \in S : ~(y < x)
    BY <1>2 DEF OpToRel
  <1>4. \A y \in S : x <= y
    BY <1>3
  <1> QED
    BY <1>4 DEF Min

\* Only signatures are pending, and only signatures are read.
Pends ==
    /\ onChain \subseteq Signatures
    /\ memory.pending \subseteq Signatures /\ checkpoint.pending \subseteq Signatures
    /\ "at" \in DOMAIN worker
    /\ worker.at \in {"backfill", "process"} => worker.queue \subseteq Signatures
    /\ worker.at = "backfill" => "queue" \in DOMAIN worker
    /\ worker.at = "process" => worker.sig \in Signatures
    /\ tasks \subseteq Signatures

LEMMA PendsOn ==
    ASSUME StreamInv, Pends, NEW m, MemoryFields(m), m.pending \subseteq Signatures, Save(m)
    PROVE  memory'.pending \subseteq Signatures /\ checkpoint'.pending \subseteq Signatures
  <1>1. PICK p \in SUBSET m.pending : checkpoint' = [m EXCEPT !.pending = p]
    BY DEF Save, Saved
  <1>2. checkpoint'.pending = p
    BY <1>1 DEF MemoryFields
  <1> QED
    BY <1>1, <1>2 DEF Save

LEMMA WaitsPends ==
    ASSUME StreamInv, Pends, NEW s \in Signatures, Save(Waits(memory, s)) \/ Save(Done(memory, s))
    PROVE  memory'.pending \subseteq Signatures /\ checkpoint'.pending \subseteq Signatures
  <1>0. PICK m : m \in {Waits(memory, s), Done(memory, s)} /\ Save(m)
    OBVIOUS
  <1>1. m.pending \subseteq Signatures /\ MemoryFields(m)
    BY <1>0 DEF Waits, Done, StreamInv, MemoryFields, Pends
  <1> QED
    BY <1>0, <1>1, PendsOn

LEMMA RetriedPends ==
    ASSUME StreamInv, Pends, NEW s, Save([Done(memory, s) EXCEPT !.lastSlot = memory.lastSlot])
    PROVE  memory'.pending \subseteq Signatures /\ checkpoint'.pending \subseteq Signatures
  <1>0. PICK m : m = Done(memory, s)
    OBVIOUS
  <1>1. m.pending \subseteq Signatures /\ MemoryFields(m)
    BY <1>0 DEF Done, StreamInv, MemoryFields, Pends
  <1>2. PICK n : n = [m EXCEPT !.lastSlot = memory.lastSlot]
    OBVIOUS
  <1>3. n.pending \subseteq Signatures /\ MemoryFields(n)
    BY <1>1, <1>2 DEF MemoryFields
  <1> QED
    BY <1>0, <1>2, <1>3, PendsOn

LEMMA ProcessedPends ==
    ASSUME StreamInv, Pends, NEW s \in Signatures, NEW outcome, NEW initial,
           Processed(s, outcome, initial)
    PROVE  memory'.pending \subseteq Signatures /\ checkpoint'.pending \subseteq Signatures
  BY WaitsPends DEF Processed

LEMMA PendsStep ==
    ASSUME Signatures \subseteq Nat, StreamInv, Pends, StreamNext \/ UNCHANGED streamVars
    PROVE  Pends'
  <1>1. ASSUME NEW s \in Signatures, Confirm(s) PROVE Pends'
    BY <1>1 DEF Confirm, Pends
  <1>2. ASSUME NEW s \in Signatures, Alert(s) PROVE Pends'
    BY <1>2, WaitsPends DEF Alert, Pends
  <1>3. ASSUME NEW s \in Signatures, Failed(s) PROVE Pends'
    BY <1>3, WaitsPends DEF Failed, Pends
  <1>4. ASSUME NEW s \in Signatures, Unhinted(s) PROVE Pends'
    BY <1>4 DEF Unhinted, Pends
  <1>5. ASSUME NEW s \in Signatures, Refused(s) PROVE Pends'
    BY <1>5 DEF Refused, Pends, Closed
  <1>6. ASSUME NEW s \in Signatures, Enrich(s) PROVE Pends'
    BY <1>6, ProcessedPends DEF Enrich, Pends
  <1>7. ASSUME NEW s \in Signatures, RetryOne(s) PROVE Pends'
    <2>1. /\ worker.at = "retry"
          /\ worker' = Listening \/ worker' = [worker EXCEPT !.queue = @ \ {s}]
          /\ UNCHANGED <<onChain, tasks>>
      BY <1>7 DEF RetryOne
    <2>2. "at" \in DOMAIN worker' /\ worker'.at \in {"listening", "retry"}
      BY <2>1 DEF Pends, Listening
    <2>3. memory'.pending \subseteq Signatures /\ checkpoint'.pending \subseteq Signatures
      BY <1>7, RetriedPends DEF RetryOne, Pends
    <2> QED
      BY <2>1, <2>2, <2>3 DEF Pends
  <1>8. CASE Connect
    <2>1. worker' = [at |-> "backfill", queue |-> worker'.queue] /\ worker'.queue \subseteq onChain
      BY <1>8 DEF Connect
    <2>2. "at" \in DOMAIN worker' /\ "queue" \in DOMAIN worker' /\ worker'.at = "backfill"
      BY <2>1
    <2> QED
      BY <1>8, <2>1, <2>2 DEF Connect, Pends
  <1>9. CASE BackfillNext
    <2>1. worker.at = "backfill" /\ UNCHANGED <<onChain, memory, checkpoint, tasks>>
      BY <1>9 DEF BackfillNext
    <2>2. CASE worker.queue = {}
      <3>1. worker' = Listening
        BY <1>9, <2>2 DEF BackfillNext
      <3> QED
        BY <2>1, <3>1 DEF Pends, Listening
    <2>3. CASE worker.queue # {}
      <3>0. PICK s : s = Min(worker.queue)
        OBVIOUS
      <3>1. \/ worker' = [worker EXCEPT !.queue = @ \ {s}]
            \/ worker' = [at |-> "process", sig |-> s, hint |-> FALSE, queue |-> worker.queue \ {s}]
        BY <1>9, <2>3, <3>0 DEF BackfillNext
      <3>2. s \in Signatures
        BY <2>1, <2>3, <3>0, LeastIn DEF Pends
      <3> QED
        BY <2>1, <3>1, <3>2 DEF Pends
    <2> QED
      BY <2>2, <2>3
  <1>10. CASE BackfillFails
    BY <1>10 DEF BackfillFails, Pends, Listening
  <1>11. CASE Process
    <2>1. /\ worker.at = "process" /\ worker.sig \in Signatures /\ UNCHANGED <<onChain, tasks>>
          /\ worker' \in {Listening, [at |-> "backfill", queue |-> worker.queue]}
      BY <1>11 DEF Process, Pends
    <2>2. memory'.pending \subseteq Signatures /\ checkpoint'.pending \subseteq Signatures
      BY <1>11, <2>1, ProcessedPends DEF Process
    <2>3. /\ "at" \in DOMAIN worker' /\ worker'.at # "process"
          /\ worker'.at = "backfill" => "queue" \in DOMAIN worker' /\ worker'.queue \subseteq Signatures
      BY <2>1 DEF Listening, Pends
    <2> QED
      BY <2>1, <2>2, <2>3 DEF Pends
  <1>12. CASE Retry
    <2>1. /\ UNCHANGED <<onChain, memory, checkpoint, tasks>>
          /\ worker' = [at |-> "retry", queue |-> memory.pending]
      BY <1>12 DEF Retry
    <2>2. "at" \in DOMAIN worker' /\ worker'.at = "retry"
      BY <2>1
    <2> QED
      BY <2>1, <2>2 DEF Pends
  <1>13. CASE Disconnect \/ Restart
    <2>1. /\ worker' = Closed /\ UNCHANGED onChain /\ tasks' \subseteq tasks
          /\ memory' \in {memory, checkpoint} /\ UNCHANGED checkpoint
      BY <1>13 DEF Disconnect, Restart
    <2> QED
      BY <2>1 DEF Pends, Closed
  <1>14. CASE UNCHANGED streamVars
    BY <1>14 DEF streamVars, Pends
  <1> QED
    BY <1>1, <1>2, <1>3, <1>4, <1>5, <1>6, <1>7, <1>8, <1>9, <1>10, <1>11, <1>12, <1>13, <1>14
       DEF StreamNext

\* When no more signatures can be pending than a checkpoint holds, what was
\* alerted before its transaction was read stays owed over every restart
\* (_save_checkpoint, _load_checkpoint, _retry_pending).
THEOREM AlertOwedHolds ==
    ASSUME Signatures \subseteq Nat, IsFiniteSet(Signatures), PendingLimit \in Nat,
           Cardinality(Signatures) <= PendingLimit
    PROVE  StreamSpec => AlertOwed
  <1>1. StreamInit => StreamInv /\ Pends
    BY StreamInitially DEF StreamInit, Pends, Fresh, Closed
  <1>2. StreamInv /\ Pends /\ [StreamNext]_streamVars => StreamInv' /\ Pends' /\ OwedStep
    <2> SUFFICES ASSUME StreamInv, Pends, [StreamNext]_streamVars
                 PROVE  StreamInv' /\ Pends' /\ OwedStep
      OBVIOUS
    <2>1. StreamInv' /\ Pends' /\ (Fits' => OwedStep)
      BY StreamStep, PendsStep
    <2>2. Cardinality(memory'.pending) <= Cardinality(Signatures) /\ IsFiniteSet(memory'.pending)
      BY <2>1, FS_Subset DEF Pends
    <2>3. Cardinality(memory'.pending) \in Nat /\ Cardinality(Signatures) \in Nat
      BY <2>2, FS_CardinalityType
    <2>4. Fits'
      BY <2>2, <2>3 DEF Fits
    <2> QED
      BY <2>1, <2>4
  <1> QED
    BY <1>1, <1>2, PTL DEF StreamSpec, AlertOwed
=============================================================================
