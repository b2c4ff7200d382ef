---------------------------- MODULE CompiledCache ----------------------------
(***************************************************************************)
(* The compiled-artifact cache of pit-runtime: `compiled_cache_entry`,     *)
(* `write_atomic`, `remove_cache_entry`, `evict_compiled_cache` and the    *)
(* cached branch of `prepare_with_world` that restores what they publish.  *)
(*                                                                         *)
(* Each element of Preparers is one call of prepare_http_cached.  Several  *)
(* may run at once, in one Garage or in several that share a cache root;   *)
(* nothing locks the directory.  An entry is two files, artifact.cwasm and *)
(* metadata.json, published in this order: each is written to a temporary  *)
(* file, synced and renamed.  Any process may die between two steps, in    *)
(* the middle of a write too.  Wasmtime is external: deserializing accepts *)
(* a complete file of its own making and rejects any other.                *)
(***************************************************************************)
EXTENDS Integers, FiniteSets

CONSTANTS Preparers, Digests,
          MaxBytes,      \* max_bytes, in entries: all entries have one size here
          RestoreMode,   \* "FileBacked" or "Bytes"
          MayCrash       \* whether a process may die, or a write be refused

ASSUME CacheAssumption == /\ IsFiniteSet(Digests)
                          /\ Preparers \cap {"cwasm", "meta", "dir"} = {}
                          /\ MaxBytes \in Nat
                          /\ RestoreMode \in {"FileBacked", "Bytes"}

VARIABLES cwasm,     \* cwasm[d]: "none", "good", "bad" (rejected) or "short" (wrong size)
          meta,      \* meta[d]: "none", "ok" or "stale" (unreadable or another engine's)
          mtime,     \* mtime[d]: modification time of artifact.cwasm
          temp,      \* temp[p]: p's temporary file: "none", "part" (written in part) or "whole"
          dirs,      \* the digests whose directory exists
          clock,     \* the file system's clock
          pc, want, source, rebuilt, sawMeta, written, doomed,
          \* per preparer: its state, digest and CompiledCacheSource, whether it
          \* rebuilds, the metadata it read, the mtime of the artifact it wrote,
          \* and the files that its remove_dir_all has yet to delete
          alone,     \* history: no preparation has run beside p's so far
      sound      \* history: the cache was whole at the start, with room for all

files == <<cwasm, meta, mtime, temp, dirs, clock>>
locals == <<want, source, rebuilt, sawMeta, written>>
vars == <<files, pc, locals, doomed, alone, sound>>

\* what remove_dir_all finds to remove: the two files, anybody's temporary
\* file, and in the end the directory
Entry == {"cwasm", "meta", "dir"} \cup Preparers
Active == {p \in Preparers : pc[p] \notin {"idle", "done", "failed", "crashed"}}
Entries == {d \in Digests : cwasm[d] # "none"}
SizeMatches(d) == cwasm[d] \in {"good", "bad"}

\* what undisturbed publications leave behind, the one between its renames too
Whole(d) == /\ cwasm[d] \in {"none", "good"}
            /\ meta[d] = "none" \/ (meta[d] = "ok" /\ cwasm[d] = "good")
HasRoom == Cardinality(Entries \cup {want[p] : p \in Preparers}) <= MaxBytes

Init == /\ cwasm \in [Digests -> {"none", "good", "bad", "short"}]
        /\ meta \in [Digests -> {"none", "ok", "stale"}]
        /\ mtime = [d \in Digests |-> 0]
        /\ temp = [p \in Preparers |-> "none"]
        /\ dirs = {d \in Digests : cwasm[d] # "none" \/ meta[d] # "none"}
        /\ clock = 1
        /\ pc = [p \in Preparers |-> "idle"]
        /\ want \in [Preparers -> Digests]
        /\ source = [p \in Preparers |-> "none"]
        /\ rebuilt = [p \in Preparers |-> FALSE]
        /\ sawMeta = [p \in Preparers |-> "none"]
        /\ written = [p \in Preparers |-> 0]
        /\ doomed = [p \in Preparers |-> {}]
        /\ alone = [p \in Preparers |-> TRUE]
        /\ sound = (HasRoom /\ \A d \in Digests : Whole(d))

Goto(p, from, to) == pc[p] = from /\ pc' = [pc EXCEPT ![p] = to]

Begin(p) == /\ Goto(p, "idle", "lookup")
            /\ alone' = [q \in Preparers |->
                            IF q = p THEN Active = {} ELSE alone[q] /\ q \notin Active]
            /\ UNCHANGED <<files, locals, doomed>>

(***************************************************************************)
(* compiled_cache_entry.                                                   *)
(***************************************************************************)
\* no metadata: straight to compilation, whatever else lies there
ReadMetadata(p) ==
    /\ Goto(p, "lookup", IF meta[want[p]] = "none" THEN "compile" ELSE "stat")
    /\ sawMeta' = [sawMeta EXCEPT ![p] = meta[want[p]]]
    /\ UNCHANGED <<files, want, source, rebuilt, written, doomed>>

\* the size of the artifact is looked up after the metadata was read
AcceptEntry(p) == /\ Goto(p, "stat", "restore")
                  /\ sawMeta[p] = "ok" /\ SizeMatches(want[p])
                  /\ source' = [source EXCEPT ![p] = "WarmRestored"]
                  /\ UNCHANGED <<files, want, rebuilt, sawMeta, written, doomed>>

RejectEntry(p) == /\ Goto(p, "stat", "remove")
                  /\ ~(sawMeta[p] = "ok" /\ SizeMatches(want[p]))
                  /\ doomed' = [doomed EXCEPT ![p] = {want[p]} \X Entry]
                  /\ UNCHANGED <<files, locals>>

\* remove_dir_all deletes the files one by one, in no fixed order, and then
\* the directory, which stays if somebody has put a file there meanwhile
IsEmpty(d) == /\ cwasm[d] = "none" /\ meta[d] = "none"
              /\ \A q \in Preparers : want[q] = d => temp[q] = "none"

DeleteOne(p) == \E f \in doomed[p] :
    /\ f[2] = "dir" => \A g \in doomed[p] \ {f} : g[1] # f[1]
    /\ doomed' = [doomed EXCEPT ![p] = @ \ {f}]
    /\ cwasm' = [cwasm EXCEPT ![f[1]] = IF f[2] = "cwasm" THEN "none" ELSE @]
    /\ meta' = [meta EXCEPT ![f[1]] = IF f[2] = "meta" THEN "none" ELSE @]
    /\ temp' = [q \in Preparers |-> IF f = <<want[q], q>> THEN "none" ELSE temp[q]]
    /\ dirs' = IF f[2] = "dir" /\ IsEmpty(f[1]) THEN dirs \ {f[1]} ELSE dirs
    /\ UNCHANGED <<mtime, clock, pc>>

\* remove_cache_entry: remove_dir_all, and then the metadata by its path, which
\* may be one that somebody else has published meanwhile
RemoveEntry(p, from, to) ==
    /\ \/ pc[p] = from /\ DeleteOne(p)
       \/ /\ Goto(p, from, to) /\ doomed[p] = {}
          /\ meta' = [meta EXCEPT ![want[p]] = "none"]
          /\ UNCHANGED <<cwasm, mtime, temp, dirs, clock, doomed>>
    /\ UNCHANGED locals

RemoveInvalid(p) == RemoveEntry(p, "remove", "compile")

(***************************************************************************)
(* write_atomic, for the artifact and then for the metadata; compilation   *)
(* succeeds.                                                               *)
(***************************************************************************)
CreateDir(p) == /\ \/ Goto(p, "compile", "openArtifact")
                   \/ Goto(p, "writeMetadata", "openMetadata")
                /\ dirs' = dirs \cup {want[p]}
                /\ UNCHANGED <<cwasm, meta, mtime, temp, clock, locals, doomed>>

\* the name of the temporary file has no number of its own, so that whoever
\* opens it next empties it (a broken variant)
OpenSharedTemp(p) ==
    /\ \/ Goto(p, "openArtifact", "fillArtifact")
       \/ Goto(p, "openMetadata", "fillMetadata")
    /\ want[p] \in dirs
    /\ temp' = [q \in Preparers |->
                   IF q = p \/ (want[q] = want[p] /\ temp[q] = "whole") THEN "part" ELSE temp[q]]
    /\ UNCHANGED <<cwasm, meta, mtime, dirs, clock, locals, doomed>>

\* the file is created empty
OpenTemp(p) == /\ \/ Goto(p, "openArtifact", "fillArtifact")
                  \/ Goto(p, "openMetadata", "fillMetadata")
               /\ want[p] \in dirs
               /\ temp' = [temp EXCEPT ![p] = "part"]
               /\ UNCHANGED <<cwasm, meta, mtime, dirs, clock, locals, doomed>>

\* all bytes written, and synced through a second handle
FillTemp(p, from, to) == /\ Goto(p, from, to)
                         /\ temp[p] # "none"
                         /\ temp' = [temp EXCEPT ![p] = "whole"]
                         /\ UNCHANGED <<cwasm, meta, mtime, dirs, want, source, rebuilt, sawMeta, doomed>>

FillArtifact(p) == /\ FillTemp(p, "fillArtifact", "publishArtifact")
                   /\ written' = [written EXCEPT ![p] = clock]
                   /\ clock' = clock + 1

FillMetadata(p) == /\ FillTemp(p, "fillMetadata", "publishMetadata")
                   /\ UNCHANGED <<written, clock>>

\* temporary files without a number of their own (a broken variant)
PublishSharedTemp(p) ==
    /\ Goto(p, "publishArtifact", "writeMetadata")
    /\ temp[p] # "none"
    /\ temp' = [q \in Preparers |-> IF want[q] = want[p] THEN "none" ELSE temp[q]]
    /\ cwasm' = [cwasm EXCEPT ![want[p]] = IF temp[p] = "whole" THEN "good" ELSE "short"]
    /\ mtime' = [mtime EXCEPT ![want[p]] = written[p]]
    /\ UNCHANGED <<meta, dirs, clock, locals, doomed>>

\* rename publishes what the temporary file holds, with its modification time
PublishArtifact(p) ==
    /\ Goto(p, "publishArtifact", "writeMetadata")
    /\ temp[p] # "none"
    /\ temp' = [temp EXCEPT ![p] = "none"]
    /\ cwasm' = [cwasm EXCEPT ![want[p]] = IF temp[p] = "whole" THEN "good" ELSE "short"]
    /\ mtime' = [mtime EXCEPT ![want[p]] = written[p]]
    /\ UNCHANGED <<meta, dirs, clock, locals, doomed>>

PublishMetadata(p) ==
    /\ Goto(p, "publishMetadata", "scan")
    /\ temp[p] # "none"
    /\ temp' = [temp EXCEPT ![p] = "none"]
    /\ meta' = [meta EXCEPT ![want[p]] = IF temp[p] = "whole" THEN "ok" ELSE "stale"]
    /\ UNCHANGED <<cwasm, mtime, dirs, clock, locals, doomed>>

\* somebody's remove_dir_all took the directory, or the temporary file
Robbed(p) == IF pc[p] \in {"openArtifact", "openMetadata"} THEN want[p] \notin dirs
                                                           ELSE temp[p] = "none"

\* a failed rename is ignored (a broken variant)
IgnoreRenameError(p) == /\ \/ Goto(p, "publishArtifact", "writeMetadata")
                           \/ Goto(p, "publishMetadata", "scan")
                        /\ Robbed(p)
                        /\ UNCHANGED <<files, locals, doomed>>

\* the write, the second open or the rename does not find it, and `?` hands the
\* error up although the compiled bytes are in memory
PublicationFails(p) == /\ \E from \in {"openArtifact", "fillArtifact", "publishArtifact",
                                       "openMetadata", "fillMetadata", "publishMetadata"} :
                              Goto(p, from, "failed")
                       /\ Robbed(p)
                       /\ UNCHANGED <<files, locals, doomed>>

(***************************************************************************)
(* evict_compiled_cache: the oldest entries go until the rest fits.        *)
(***************************************************************************)
\* the newest entries go first (a broken variant)
ScanNewestFirst(p) ==
    /\ Goto(p, "scan", "evict")
    /\ \E new \in SUBSET Entries :
          /\ \A d \in new, e \in Entries \ new : mtime[d] >= mtime[e]
          /\ Cardinality(Entries \ new) = IF Cardinality(Entries) > MaxBytes
                                          THEN MaxBytes ELSE Cardinality(Entries)
          /\ doomed' = [doomed EXCEPT ![p] = new \X Entry]
    /\ UNCHANGED <<files, locals>>

ScanCache(p) ==
    /\ Goto(p, "scan", "evict")
    /\ \E old \in SUBSET Entries :
          /\ \A d \in old, e \in Entries \ old : mtime[d] <= mtime[e]
          /\ Cardinality(Entries \ old) = IF Cardinality(Entries) > MaxBytes
                                          THEN MaxBytes ELSE Cardinality(Entries)
          /\ doomed' = [doomed EXCEPT ![p] = old \X Entry]
    /\ UNCHANGED <<files, locals>>

Evict(p) == /\ \/ pc[p] = "evict" /\ DeleteOne(p)
               \/ Goto(p, "evict", "restore") /\ doomed[p] = {} /\ UNCHANGED <<files, doomed>>
            /\ source' = [source EXCEPT ![p] = "ColdCompiled"]
            /\ UNCHANGED <<want, rebuilt, sawMeta, written>>

(***************************************************************************)
(* prepare_with_world: deserialize what compiled_cache_entry returned.     *)
(***************************************************************************)
Restore(p) == /\ Goto(p, "restore", "done")
              /\ cwasm[want[p]] = "good"
              /\ UNCHANGED <<files, locals, doomed>>

\* an unusable entry is an error (a broken variant)
NeverRebuild(p) == source[p] = "ColdCompiled" /\ ~rebuilt[p]

\* only an entry believed warm is rebuilt, and only once; a file that cannot
\* be read in Bytes mode is an error at once
CanRebuild(p) == /\ source[p] = "WarmRestored"
                 /\ ~rebuilt[p]
                 /\ ~(RestoreMode = "Bytes" /\ cwasm[want[p]] = "none")

DiscardAndRebuild(p) == /\ Goto(p, "restore", "discard")
                        /\ cwasm[want[p]] # "good"
                        /\ CanRebuild(p)
                        /\ rebuilt' = [rebuilt EXCEPT ![p] = TRUE]
                        /\ doomed' = [doomed EXCEPT ![p] = {want[p]} \X Entry]
                        /\ UNCHANGED <<files, want, source, sawMeta, written>>

RemoveBroken(p) == RemoveEntry(p, "discard", "lookup")

RestoreFails(p) == /\ Goto(p, "restore", "failed")
                   /\ cwasm[want[p]] # "good"
                   /\ ~CanRebuild(p)
                   /\ UNCHANGED <<files, locals, doomed>>

\* the process dies, or the file system refuses a write and `?` ends the
\* preparation there; its temporary file stays, written in part or whole
Crash(p) == /\ MayCrash
            /\ p \in Active
            /\ pc' = [pc EXCEPT ![p] = "crashed"]
            /\ UNCHANGED <<files, locals, doomed>>

-----------------------------------------------------------------------------
Step(p) == \/ ReadMetadata(p) \/ AcceptEntry(p) \/ RejectEntry(p) \/ RemoveInvalid(p)
           \/ CreateDir(p) \/ OpenTemp(p) \/ FillArtifact(p) \/ PublishArtifact(p)
           \/ FillMetadata(p) \/ PublishMetadata(p) \/ PublicationFails(p)
           \/ ScanCache(p) \/ Evict(p)
           \/ Restore(p) \/ DiscardAndRebuild(p) \/ RemoveBroken(p) \/ RestoreFails(p)

Next == /\ \E p \in Preparers : \/ Begin(p)
                                \/ (Step(p) \/ Crash(p)) /\ UNCHANGED alone
        /\ UNCHANGED sound

Spec == Init /\ [][Next]_vars

-----------------------------------------------------------------------------
CacheTypeOK ==
    /\ cwasm \in [Digests -> {"none", "good", "bad", "short"}]
    /\ meta \in [Digests -> {"none", "ok", "stale"}]
    /\ mtime \in [Digests -> Nat] /\ clock \in Nat
    /\ temp \in [Preparers -> {"none", "part", "whole"}] /\ dirs \subseteq Digests
    /\ pc \in [Preparers -> {"idle", "lookup", "stat", "remove", "compile", "openArtifact",
                             "fillArtifact", "publishArtifact", "writeMetadata", "openMetadata",
                             "fillMetadata", "publishMetadata", "scan", "evict", "restore",
                             "discard", "done", "failed", "crashed"}]
    /\ doomed \in [Preparers -> SUBSET (Digests \X Entry)]
    /\ \A p \in Preparers : doomed[p] # {} => pc[p] \in {"remove", "evict", "discard", "crashed"}

(* "missing, corrupt, or incompatible entries fall back to the canonical   *)
(* .wasm" (README): no state of the cache makes a preparation fail.        *)
FallsBackToCanonical == \A p \in Preparers : pc[p] # "failed"

(* The same for a preparation that meets no other one, in a cache that has *)
(* room for its entry: whatever earlier preparations, deaths and           *)
(* corruptions left on disk, it succeeds.                                  *)
AloneFallsBack == MaxBytes > 0 => \A p \in Preparers : alone[p] => pc[p] # "failed"

(* And for any number of preparations at once, of one digest or several,   *)
(* with deaths among them, in a cache that was whole and has room for all  *)
(* of them: publications do not disturb each other, so what makes one fail *)
(* is always a removal.                                                    *)
SoundCacheNeverFails == sound => \A p \in Preparers : pc[p] # "failed"

(* What warm_digests advertises: metadata of this engine and a file of the *)
(* recorded size.                                                          *)
WarmDigests == {d \in Digests : meta[d] = "ok" /\ SizeMatches(d)}

(* Once the preparations have ended, without a death among them, the       *)
(* digest they all prepared is warm on disk and restorable: late removals  *)
(* by one of them do not leave the entry damaged.                          *)
QuietEntryIsWarm ==
    (/\ Active = {} /\ MaxBytes > 0
     /\ \A p \in Preparers : pc[p] # "crashed"
     /\ \A p, q \in Preparers : want[p] = want[q]) =>
        \A p \in Preparers : pc[p] = "done" =>
            want[p] \in WarmDigests /\ cwasm[want[p]] = "good"

(* "Cache publication ... cannot expose a partial entry" (README): whatever *)
(* runs at once and wherever it dies, artifact.cwasm only becomes complete  *)
(* or vanishes; metadata appears only where no damaged artifact lies; and   *)
(* an entry of a sound cache is whole at every moment, the one between its  *)
(* two renames too.                                                         *)
NoPartialEntry ==
    [][/\ \A d \in Digests : cwasm'[d] \in {cwasm[d], "none", "good"}
       /\ \A d \in Digests : \/ meta'[d] \in {meta[d], "none"}
                             \/ meta'[d] = "ok" /\ cwasm[d] \in {"none", "good"}
       /\ sound => \A d \in Digests : Whole(d)']_vars

(* A publication that meets no other one leaves no more than max_bytes     *)
(* behind, and keeps its own entry, the newest.                            *)
PublicationFitsBudget ==
    \A p \in Preparers : (alone[p] /\ pc[p] = "restore" /\ source[p] = "ColdCompiled") =>
        /\ Cardinality(Entries) <= MaxBytes
        /\ MaxBytes > 0 => cwasm[want[p]] = "good"
=============================================================================
