----------------------------- MODULE ObjectStore -----------------------------
(***************************************************************************)
(* The immutable object store below the landing writers: a file tree whose *)
(* objects are created by a hard link, or a bucket written with            *)
(* If-None-Match.  Both create an object if it is absent and otherwise     *)
(* only compare its checksum, so one create-if-absent step models a put,   *)
(* the racing writer that lost included.  A store is a function from its   *)
(* keys to what they hold; a checksum is the content itself.               *)
(***************************************************************************)
EmptyStore == <<>>

Stored(store, key) == key \in DOMAIN store
\* Fault: an object that is there counts as the one that was to be written.
ConflictsNever(store, key, data) == FALSE

\* LandingConflictError: the object exists with other bytes.
Conflicts(store, key, data) == Stored(store, key) /\ store[key] # data

\* put_bytes, when it does not conflict.
PutBytes(store, key, data) ==
    [k \in DOMAIN store \cup {key} |-> IF Stored(store, k) THEN store[k] ELSE data]

\* list_keys below a prefix: a layer of the lake and a date of it.
ListKeys(store, layer, date) == {key \in DOMAIN store : key[1] = layer /\ key[3] = date}
=============================================================================
