----------------------------- MODULE ChannelMap -----------------------------
(***************************************************************************)
(* The channel map and its physical table: core/channel_map.py,            *)
(* physical_table.py, the name sync of global_transport.py and the saves   *)
(* of api/routes/config.py. Four threads share one reference,              *)
(* self.channel_map, and one file: the web's event loop (which also is     *)
(* what starts the program), the name sync, a run that confirms an aim,    *)
(* and the sweep.                                                          *)
(*                                                                         *)
(* A map is an object of `heap`, its table a part of it: who has taken the *)
(* table or the map keeps that object when self.channel_map moves on. What *)
(* the table has learned is a set of facts <<row, offset, name>>, and a    *)
(* name is the set of the channels it belongs to.  A channel may show none *)
(* (NoName): nothing, or "n.a.".                                           *)
(***************************************************************************)
EXTENDS Integers, Sequences, FiniteSets

CONSTANTS
  Rows,       \* rows that are measured
  Fed,        \* bound: rows and channels the Global remote reports
  Channels,   \* hardware channels of a row
  Layouts,
  Shows,      \* per layout: the name each channel shows
  Files,      \* maps the file may hold at first, or None
  Uploads,    \* maps a person may upload
  Example,    \* the shipped map
  Sweeps,     \* sequences of rows a sweep may be asked for
  None,
  Torn,       \* a file that is not a whole map
  Mishaps,    \* a subset of AllMishaps
  MaxOps      \* bound: saves, sweeps, aims, changes of layout and crashes

Hw    == 0..(Channels - 1)
Names == SUBSET Hw
NoName == {}
Facts == Rows \X Hw \X Names

AllMishaps ==
  {"crossed",   \* a web save between taking a reference to the map and its use
   "behind",    \* a save of a map older than what the table has learned
   "untabled",  \* names are drained while the map has no table
   "wiped",     \* a reset of a row that was renamed after it was measured
   "reused",    \* a name passes from one channel to another
   "unflagged", \* something learned after the first sweep was written, before
                \* the map ceases to count as the example
   "halfway",   \* a thread writes the table while the sweep fills it
   "failed",    \* a write fails
   "torn"}      \* a crash while the example is copied

Threads == {"web", "sync", "aim", "sweep"}

\* read: what the sweep read of the row, which the code does not keep.
Sources == [kind : {"none", "legacy", "sweep"}, read : SUBSET Facts]

Source(kind) == [kind |-> kind, read |-> {}]

\* save: which save it stems from.  walks: the submixes, and those of the library.
\* legacy: the keys that a sweep prunes.  phantom: a key of a placeholder.
Maps ==
  [save : Nat, table : BOOLEAN, facts : SUBSET Facts, source : [Rows -> Sources],
   walks : SUBSET SUBSET (Names \X Hw), legacy : {"none", "there", "pruned"},
   phantom : BOOLEAN]

ASSUME MapAssumption ==
  /\ Fed \subseteq Rows \X Hw
  /\ "outputs" \in Rows
  /\ Channels \in Nat \ {0}
  /\ Shows \in [Layouts -> [Hw -> Names]]
  /\ None \notin Maps /\ Torn \notin Maps /\ None # Torn
  /\ None \notin Threads
  /\ \A x \in Names \cup Hw : x # None
  /\ Files \subseteq Maps \cup {None}
  /\ Uploads \subseteq Maps
  /\ Example \in Maps
  /\ Sweeps \subseteq Seq(Rows)
  /\ Mishaps \subseteq AllMishaps
  /\ MaxOps \in Nat

VARIABLES
  file,       \* ufx2_channel_map.json
  heap,       \* the maps of this run of the program
  map,        \* self.channel_map: an index of heap, 0 before it is loaded
  example,    \* channel_map_is_example
  up,         \* the program has started
  lock,       \* _persist_lock
  pc,
  obj,        \* per thread: the map whose table it has taken
  cm,         \* per thread: the map it writes
  buf,        \* per thread: what it writes, in its private temporary file
  heard,      \* per row and channel: what the Global remote reported last
  pending,    \* pending_name_changes
  todo,       \* drained names, still to be merged
  item,       \* name being merged
  merged,     \* the sync has merged something
  seen,       \* fact a confirmed aim has shown
  status,     \* sweep_state
  job,        \* of the sweep: rows, position among them, reset
  found,      \* of the sweep: facts
  layout,
  saved,      \* last save that was answered with success
  ops, mishaps

store == <<file, heap, map, example>>
locks == <<lock, cm, buf>>
feed  == <<heard, pending>>
syncs == <<todo, item, merged>>
sweep == <<status, job, found>>
env   == <<layout, saved, ops>>
vars  == <<store, up, locks, pc, obj, feed, syncs, seen, sweep, env, mishaps>>

If(kind, happens) == IF happens THEN {kind} ELSE {}

\* Bound: one mishap, or those of one step.
Suffers(kinds) ==
  /\ kinds \subseteq Mishaps
  /\ kinds \subseteq mishaps \/ mishaps = {}
  /\ mishaps' = mishaps \cup kinds

Without(kinds) == mishaps \cap kinds = {}

Goto(t, place) == pc' = [pc EXCEPT ![t] = place]

\* Bound: nothing is begun after a mishap.
Counted ==
  /\ ops < MaxOps
  /\ mishaps = {}
  /\ ops' = ops + 1

The == heap[map]

-----------------------------------------------------------------------------
(* physical_table.py.                                                      *)

\* Mutant: the right member of a pair is taken for its start.
ResolveStartMutant(facts, row, name) ==
  LET offsets == {h \in Hw : <<row, h, name>> \in facts}
  IN  IF offsets = {} THEN None ELSE CHOOSE h \in offsets : \A o \in offsets : h >= o

\* "Lowest hw offset whose alias set contains name"
ResolveStart(facts, row, name) ==
  LET offsets == {h \in Hw : <<row, h, name>> \in facts}
  IN  IF offsets = {} THEN None ELSE CHOOSE h \in offsets : \A o \in offsets : h <= o

\* "both are known aliases of the SAME offset"
Covers(facts, row, offset, wanted, shown) ==
  {<<row, offset, wanted>>, <<row, offset, shown>>} \subseteq facts

\* What merge_observation makes of observations: no name teaches nothing, nor does
\* an offset past the hardware end.
Taught(facts) == {f \in facts : f[2] \in Hw /\ f[3] # NoName}

Merge(i, facts) == heap' = [heap EXCEPT ![i].facts = @ \cup Taught(facts)]

\* A walked index is the start, except the first.
FromLegacy(walks) ==
  UNION {{<<"outputs", IF \A o \in w : e[2] <= o[2] THEN 0 ELSE e[2], e[1]>> :
            e \in w} : w \in walks}

\* _migrate_physical_table
Migrated(v) ==
  IF v.table \/ FromLegacy(v.walks) = {} THEN v
  ELSE [v EXCEPT !.table = TRUE, !.facts = FromLegacy(v.walks),
                 !.source = [r \in Rows |->
                                Source(IF r = "outputs" THEN "legacy" ELSE "none")]]

EmptyMap ==
  [save |-> 0, table |-> FALSE, facts |-> {},
   source |-> [r \in Rows |-> Source("none")], walks |-> {}, legacy |-> "none",
   phantom |-> FALSE]

Truthy(v) == v # EmptyMap

\* Who is found at several offsets, belongs to the first.
Sound(facts) ==
  \A f \in facts : \E g \in facts :
    g[1] = f[1] /\ g[3] = f[3] /\ g[2] <= f[2] /\ g[2] \in g[3]

\* A channel was read, and is known by the name it showed, if it showed one.
ReadAt(read, facts, r, h) ==
  \E n \in Names : /\ <<r, h, n>> \in read
                  /\ n # NoName => <<r, h, n>> \in facts

\* What counts as measured was read at every channel, and has the names that were
\* read; nothing is pruned before all rows are measured.
Complete(v) ==
  /\ \A r \in Rows : v.source[r].kind = "sweep" =>
       \A h \in Hw : ReadAt(v.source[r].read, v.facts, r, h)
  /\ v.legacy = "pruned" => v.table /\ \A r \in Rows : v.source[r].kind = "sweep"

\* The file there is at first, the uploads and the example were written by this
\* program, when no mishap had happened.
ASSUME RecordAssumption ==
  \A v \in (Files \ {None}) \cup Uploads \cup {Example} :
    Sound(v.facts) /\ Sound(Migrated(v).facts) /\ Complete(v)

\* A stereo pair shows one name at both members.
Linked(l, h) ==
  {h, h + 1} \subseteq Hw /\ Shows[l][h] = Shows[l][h + 1] /\ Shows[l][h] # NoName
LeftOf(l, h) == ~Linked(l, h - 1)
Swapped(l)   == \E h \in Hw : Shows[l][h] # NoName /\ h \notin Shows[l][h]

-----------------------------------------------------------------------------
(* Who holds a reference that a web save makes stale.                      *)

Holding ==
  \/ pc["sync"] \notin {"idle", "table"}
  \/ pc["aim"] # "idle"
  \/ pc["sweep"] \notin {"idle", "begin", "measure", "flag"}

Saving == pc["web"] \in {"copy", "load"}

\* A thread takes self.channel_map.
Takes == If("crossed", Saving)

-----------------------------------------------------------------------------
(* _persist_channel_map_file, in any thread.                               *)

\* The argument is evaluated before the lock is held.
CallsPersist(t) ==
  /\ Goto(t, "persist")
  /\ cm' = [cm EXCEPT ![t] = map]

NoJob == [rows |-> <<>>, at |-> 1, reset |-> FALSE]

\* Its variables end with it.
Released(t) ==
  /\ lock' = None
  /\ cm' = [cm EXCEPT ![t] = 0]
  /\ buf' = [buf EXCEPT ![t] = EmptyMap]
  /\ obj' = [obj EXCEPT ![t] = 0]

AfterPersist ==
  [web |-> "migrate", sync |-> "idle", aim |-> "idle", sweep |-> "flag"]

\* Mutant: who writes does not wait for who is writing.
LocksMutant(t) ==
  /\ pc[t] = "persist"
  /\ lock' = t
  /\ buf' = [buf EXCEPT ![t] = heap[cm[t]]]
  /\ Goto(t, "dump")
  /\ UNCHANGED <<store, up, cm, obj, feed, syncs, seen, sweep, env, mishaps>>

\* Mutant: the file itself is opened for writing.
InPlaceMutant(t) ==
  /\ pc[t] = "persist"
  /\ lock = None
  /\ lock' = t
  /\ file' = Torn
  /\ buf' = [buf EXCEPT ![t] = heap[cm[t]]]
  /\ Goto(t, "dump")
  /\ UNCHANGED <<heap, map, example, up, cm, obj, feed, syncs, seen, sweep, env,
                 mishaps>>

Locks(t) ==
  /\ pc[t] = "persist"
  /\ lock = None
  /\ lock' = t
  /\ buf' = [buf EXCEPT ![t] = heap[cm[t]]]
  /\ Goto(t, "dump")
  /\ UNCHANGED <<store, up, cm, obj, feed, syncs, seen, sweep, env, mishaps>>

\* json.dump walks the map while others change it: a row, or the sources, are
\* what they were or what they are now.
Dumps(t) ==
  LET was == buf[t]
      is  == heap[cm[t]]
  IN  /\ pc[t] = "dump"
      /\ was.legacy = is.legacy /\ was.table = is.table
      /\ \E new \in SUBSET Rows, source \in {was.source, is.source} :
           buf' = [buf EXCEPT ![t].source = source,
                              ![t].facts = {f \in was.facts : f[1] \notin new} \cup
                                           {f \in is.facts : f[1] \in new}]
      /\ Suffers(If("halfway", t # "sweep" /\
                               pc["sweep"] \in {"rows", "fill", "persist"}))
      /\ Goto(t, "replace")
      /\ UNCHANGED <<store, up, lock, cm, obj, feed, syncs, seen, sweep, env>>

\* The exception is caught and logged, by the sweep as its end.
PersistFails(t) ==
  /\ Released(t)
  /\ Goto(t, IF t = "sweep" THEN "idle" ELSE AfterPersist[t])
  /\ IF t = "sweep" THEN status' = "error" /\ found' = {} /\ job' = NoJob
                    ELSE UNCHANGED sweep
  /\ UNCHANGED <<store, up, feed, syncs, seen, env>>

\* "dictionary changed size during iteration"
DumpRaises(t) ==
  /\ pc[t] = "dump"
  /\ buf[t] # heap[cm[t]]
  /\ PersistFails(t)
  /\ UNCHANGED mishaps

WriteFails(t) ==
  /\ pc[t] = "dump"
  /\ Suffers({"failed"})
  /\ PersistFails(t)

\* os.replace: "a crash mid-write must not corrupt the only copy"
Replaces(t) ==
  /\ pc[t] = "replace"
  /\ file' = buf[t]
  /\ Released(t)
  /\ Goto(t, AfterPersist[t])
  /\ UNCHANGED <<heap, map, example, up, feed, syncs, seen, sweep, env, mishaps>>

Persist(t) ==
  Locks(t) \/ Dumps(t) \/ DumpRaises(t) \/ WriteFails(t) \/ Replaces(t)

-----------------------------------------------------------------------------
(* The web: save, upload, init-from-example, and _load_channel_map.        *)

Loses(v) == ~(The.facts \subseteq Migrated(v).facts)

\* _atomic_write_json, without the lock.
WebSaves(v) ==
  /\ up /\ pc["web"] = "idle"
  /\ Counted
  /\ file' = [v EXCEPT !.save = saved + 1]
  /\ Goto("web", "load")
  /\ Suffers(If("crossed", Holding) \cup If("behind", Loses(v)))
  /\ UNCHANGED <<heap, map, example, up, locks, obj, feed, syncs, seen, sweep,
                 layout, saved>>

\* shutil.copy2 writes the file in place.
WebCopies ==
  /\ up /\ pc["web"] = "idle"
  /\ Counted
  /\ file' = Torn
  /\ Goto("web", "copy")
  /\ Suffers(If("crossed", Holding) \cup
             If("behind", Loses(Example)))
  /\ UNCHANGED <<heap, map, example, up, locks, obj, feed, syncs, seen, sweep,
                 layout, saved>>

WebCopied ==
  /\ pc["web"] = "copy"
  /\ file' = IF file = Torn THEN [Example EXCEPT !.save = saved + 1] ELSE file
  /\ Goto("web", "load")
  /\ UNCHANGED <<heap, map, example, up, locks, obj, feed, syncs, seen, sweep, env,
                 mishaps>>

\* The file, else the example.  What can not be read is an empty map.
Read == CASE file = None -> Example
          [] file = Torn -> EmptyMap
          [] OTHER       -> file

\* Placeholder keys are purged, and the purge is written.  Who takes the map before
\* its flag is set, is in "crossed" already.
WebLoads ==
  /\ pc["web"] = "load"
  /\ heap' = Append(heap, [Read EXCEPT !.phantom = FALSE])
  /\ map' = Len(heap) + 1
  /\ example' = (file = None)
  /\ IF Read.phantom
     THEN Goto("web", "persist") /\ cm' = [cm EXCEPT !["web"] = map']
     ELSE Goto("web", "migrate") /\ UNCHANGED cm
  /\ Suffers(If("crossed", up /\ Holding))
  /\ UNCHANGED <<file, up, lock, buf, obj, feed, syncs, seen, sweep, env>>

\* "In-memory only": nothing is written.  With that the save is answered.
WebMigrates ==
  /\ pc["web"] = "migrate"
  /\ heap' = [heap EXCEPT ![map] = Migrated(@)]
  /\ up' = TRUE
  /\ saved' = The.save
  /\ Goto("web", "idle")
  /\ UNCHANGED <<file, map, example, locks, obj, feed, syncs, seen, sweep, layout,
                 ops, mishaps>>

-----------------------------------------------------------------------------
(* The Global remote and the name sync.                                    *)

\* Names live at the left member of a pair.  "n.a." is a change, an empty name none.
HearsName(r, h) ==
  /\ up
  /\ LeftOf(layout, h)
  /\ heard[r][h].name # Shows[layout][h]
  /\ heard' = [heard EXCEPT ![r][h].name = Shows[layout][h]]
  /\ \/ pending' = pending \cup {<<r, h>>}
     \/ Shows[layout][h] = NoName /\ UNCHANGED pending
  /\ UNCHANGED <<store, up, locks, pc, obj, syncs, seen, sweep, env, mishaps>>

\* "a link change re-scopes the pair's alias merge"
HearsStereo(r, h) ==
  /\ up
  /\ LeftOf(layout, h)
  /\ heard[r][h].stereo # Linked(layout, h)
  /\ heard' = [heard EXCEPT ![r][h].stereo = Linked(layout, h)]
  /\ pending' = pending \cup {<<r, h>>}
  /\ UNCHANGED <<store, up, locks, pc, obj, syncs, seen, sweep, env, mishaps>>

SyncDrains ==
  /\ up /\ pc["sync"] = "idle"
  /\ pending # {}
  /\ todo' = pending
  /\ pending' = {}
  /\ Goto("sync", "table")
  /\ UNCHANGED <<store, up, locks, obj, heard, item, merged, seen, sweep, env,
                 mishaps>>

SyncTakes ==
  /\ pc["sync"] = "table"
  /\ IF The.table
     THEN /\ obj' = [obj EXCEPT !["sync"] = map]
          /\ Goto("sync", "merge")
          /\ Suffers(Takes)
          /\ UNCHANGED todo
     ELSE /\ todo' = {}
          /\ Goto("sync", "idle")
          /\ Suffers({"untabled"})
          /\ UNCHANGED obj
  /\ UNCHANGED <<store, up, locks, feed, item, merged, seen, sweep, env>>

\* A stereo flag may have come without a name.
Named(name) == name \notin {None, NoName}

SyncMerges(x) ==
  LET fact == <<x[1], x[2], heard[x[1]][x[2]].name>>
  IN  /\ pc["sync"] = "merge"
      /\ x \in todo
      /\ todo' = todo \ {x}
      /\ IF ~Named(fact[3])
         THEN UNCHANGED <<heap, item, merged, pc>>
         ELSE /\ Merge(obj["sync"], {fact})
              /\ item' = fact
              /\ merged' = (merged \/ fact \notin heap[obj["sync"]].facts)
              /\ Goto("sync", "mirror")
      /\ UNCHANGED <<file, map, example, up, locks, obj, feed, seen, sweep, env,
                     mishaps>>

\* Mutant: the alias stays at the left member.
SyncMirrorsMutant ==
  /\ pc["sync"] = "mirror"
  /\ item' = None
  /\ Goto("sync", "merge")
  /\ UNCHANGED <<store, up, locks, obj, feed, todo, merged, seen, sweep, env,
                 mishaps>>

\* "a pair's alias list lives at BOTH member offsets"
SyncMirrors ==
  LET linked == heard[item[1]][item[2]].stereo
      fact   == <<item[1], item[2] + 1, item[3]>>
  IN  /\ pc["sync"] = "mirror"
      /\ IF linked THEN Merge(obj["sync"], {fact}) ELSE UNCHANGED heap
      /\ merged' = (merged \/ (linked /\ fact \notin heap[obj["sync"]].facts))
      /\ item' = None
      /\ Goto("sync", "merge")
      /\ UNCHANGED <<file, map, example, up, locks, obj, feed, todo, seen, sweep,
                     env, mishaps>>

\* What the example has learned is not written; the first sweep is about to.
Unflagged ==
  If("unflagged", example /\ pc["sweep"] \in {"dump", "replace", "flag"})

SyncPersists ==
  /\ pc["sync"] = "merge"
  /\ todo = {}
  /\ IF merged /\ Truthy(The) /\ ~example
     THEN CallsPersist("sync") /\ Suffers(Takes)
     ELSE Goto("sync", "idle") /\ UNCHANGED cm /\ Suffers(Unflagged)
  /\ merged' = FALSE
  /\ obj' = [obj EXCEPT !["sync"] = 0]
  /\ UNCHANGED <<store, up, lock, buf, feed, todo, item, seen, sweep, env>>

-----------------------------------------------------------------------------
(* _confirm_page2_aim and _record_table_observation.                       *)

\* The name asked for is shown, or covers what is shown; an alias teaches nothing.
AimConfirms(r, wanted) ==
  LET h == ResolveStart(The.facts, r, wanted)
  IN  /\ up /\ pc["aim"] = "idle"
      /\ The.table
      /\ h # None
      /\ Shows[layout][h] \cap wanted # {}
      /\ Counted
      /\ seen' = <<r, h, Shows[layout][h]>>
      /\ obj' = [obj EXCEPT !["aim"] = map]
      /\ Goto("aim", "merge")
      /\ Suffers(Takes)
      /\ UNCHANGED <<store, up, locks, feed, syncs, sweep, layout, saved>>

AimMerges ==
  /\ pc["aim"] = "merge"
  /\ Merge(obj["aim"], {seen})
  /\ Goto("aim", IF seen \in heap[obj["aim"]].facts THEN "idle" ELSE "check")
  /\ obj' = [obj EXCEPT !["aim"] = 0]
  /\ seen' = None
  /\ UNCHANGED <<file, map, example, up, locks, feed, syncs, sweep, env, mishaps>>

\* "Persisted immediately unless running from the example map."
AimPersists ==
  /\ pc["aim"] = "check"
  /\ IF ~example THEN CallsPersist("aim") /\ Suffers(Takes)
                 ELSE Goto("aim", "idle") /\ UNCHANGED cm /\ Suffers(Unflagged)
  /\ UNCHANGED <<store, up, lock, buf, obj, feed, syncs, seen, sweep, env>>

-----------------------------------------------------------------------------
(* The sweep.  ClassicAim has what it does at the mixer.                   *)

\* start_sweep: "Claim the state HERE (event-loop thread)".
StartSweep(rows, reset) ==
  /\ up /\ pc["web"] = "idle"
  /\ status # "running"
  /\ Counted
  /\ status' = "running"
  /\ job' = [rows |-> rows, at |-> 1, reset |-> reset]
  /\ found' = {}
  /\ Goto("sweep", "begin")
  /\ UNCHANGED <<store, up, locks, obj, feed, syncs, seen, layout, saved, mishaps>>

\* A map that the web has loaded and not migrated gets an empty table, and then is
\* not migrated.
Early == If("crossed", pc["web"] # "idle" /\ ~The.table)

\* A map without a table gets an empty one.
SweepBegins ==
  /\ pc["sweep"] = "begin"
  /\ heap' = [heap EXCEPT ![map].table = TRUE]
  /\ obj' = [obj EXCEPT !["sweep"] = map]
  /\ Suffers(Early)
  /\ Goto("sweep", "measure")
  /\ UNCHANGED <<file, map, example, up, locks, feed, syncs, seen, sweep, env>>

SweepMeasures ==
  /\ pc["sweep"] = "measure"
  /\ job.at \in DOMAIN job.rows
  /\ found' = found \cup {<<job.rows[job.at], h, Shows[layout][h]>> : h \in Hw}
  /\ job' = [job EXCEPT !.at = @ + 1]
  /\ UNCHANGED <<store, up, locks, pc, obj, feed, syncs, seen, status, env, mishaps>>

\* No dump, or a name past the hardware end: "aborting without persisting".
SweepFails ==
  /\ pc["sweep"] = "measure"
  /\ status' = "error"
  /\ Goto("sweep", "idle")
  /\ obj' = [obj EXCEPT !["sweep"] = 0]
  /\ found' = {}
  /\ job' = NoJob
  /\ UNCHANGED <<store, up, locks, feed, syncs, seen, env, mishaps>>

\* Mutant: the map is the one that was taken before the device section.
SweepTakesMutant ==
  /\ pc["sweep"] = "measure"
  /\ job.at \notin DOMAIN job.rows
  /\ cm' = [cm EXCEPT !["sweep"] = obj["sweep"]]
  /\ job' = [job EXCEPT !.at = 1]
  /\ Goto("sweep", "assign")
  /\ Suffers(Takes)
  /\ UNCHANGED <<store, up, lock, buf, obj, feed, syncs, seen, status, found, env>>

\* "merging into the table captured above would persist the new map without a
\* single observation (#38).  Re-resolve now."
SweepTakes ==
  /\ pc["sweep"] = "measure"
  /\ job.at \notin DOMAIN job.rows
  /\ cm' = [cm EXCEPT !["sweep"] = map]
  /\ job' = [job EXCEPT !.at = 1]
  /\ Goto("sweep", "assign")
  /\ Suffers(Takes)
  /\ UNCHANGED <<store, up, lock, buf, obj, feed, syncs, seen, status, found, env>>

\* Mutant: the table is the one that was taken before the device section.
SweepAssignsMutant ==
  /\ pc["sweep"] = "assign"
  /\ map' = cm["sweep"]
  /\ Suffers(Early)
  /\ Goto("sweep", "rows")
  /\ UNCHANGED <<file, heap, example, up, locks, obj, feed, syncs, seen, sweep, env>>

SweepAssigns ==
  /\ pc["sweep"] = "assign"
  /\ map' = cm["sweep"]
  /\ obj' = [obj EXCEPT !["sweep"] = cm["sweep"]]
  /\ heap' = [heap EXCEPT ![cm["sweep"]].table = TRUE]
  /\ Suffers(Early)
  /\ Goto("sweep", "rows")
  /\ UNCHANGED <<file, example, up, locks, feed, syncs, seen, sweep, env>>

RowOf(facts, r) == {f \in facts : f[1] = r}

\* What the name sync makes of what it heard of a row.
Known(r) ==
  LET named == {h \in Hw : Named(heard[r][h].name)}
  IN  {<<r, h, heard[r][h].name>> : h \in named}
        \cup {<<r, h + 1, heard[r][h].name>> : h \in {o \in named : heard[r][o].stereo}}

SweepResets ==
  /\ pc["sweep"] = "rows"
  /\ job.at \in DOMAIN job.rows
  /\ job.reset
  /\ LET r == job.rows[job.at]
     IN  /\ heap' = [heap EXCEPT ![obj["sweep"]].facts = @ \ RowOf(@, r)]
         /\ Suffers(If("wiped", ~(Known(r) \subseteq found) \/ pc["sync"] = "mirror"))
  /\ Goto("sweep", "fill")
  /\ UNCHANGED <<file, map, example, up, locks, obj, feed, syncs, seen, sweep, env>>

\* The row counts as measured, whether or not its channels showed a name.
SweepFills ==
  /\ pc["sweep"] = IF job.reset THEN "fill" ELSE "rows"
  /\ job.at \in DOMAIN job.rows
  /\ LET r == job.rows[job.at]
     IN  heap' = [heap EXCEPT
           ![obj["sweep"]].facts = @ \cup RowOf(Taught(found), r),
           ![obj["sweep"]].source[r] = [kind |-> "sweep", read |-> RowOf(found, r)]]
  /\ job' = [job EXCEPT !.at = @ + 1]
  /\ Goto("sweep", "rows")
  /\ UNCHANGED <<file, map, example, up, locks, obj, feed, syncs, seen, status,
                 found, env, mishaps>>

\* Mutant: one measured row is enough.
AllMeasuredMutant(v) == \E r \in Rows : v.source[r].kind = "sweep"

AllMeasured(v) == \A r \in Rows : v.source[r].kind = "sweep"

\* "Legacy structures are superseded once BOTH rows are measured"; the layouts of
\* snapshots are among them.
SweepPersists ==
  /\ pc["sweep"] = "rows"
  /\ job.at \notin DOMAIN job.rows
  /\ heap' = IF AllMeasured(heap[obj["sweep"]]) /\ The.legacy = "there"
             THEN [heap EXCEPT ![map].legacy = "pruned"] ELSE heap
  /\ CallsPersist("sweep")
  /\ UNCHANGED <<file, map, example, up, lock, buf, obj, feed, syncs, seen, sweep,
                 env, mishaps>>

SweepDone ==
  /\ pc["sweep"] = "flag"
  /\ example' = FALSE
  /\ status' = "done"
  /\ Goto("sweep", "idle")
  /\ found' = {}
  /\ job' = NoJob
  /\ UNCHANGED <<file, heap, map, up, locks, obj, feed, syncs, seen, env, mishaps>>

-----------------------------------------------------------------------------
(* The environment.                                                        *)

\* Strips are linked, or renamed, for all rows at once.
Relayout(l) ==
  /\ layout # l
  /\ Counted
  /\ layout' = l
  /\ Suffers(If("reused", Swapped(l)))
  /\ UNCHANGED <<store, up, locks, pc, obj, feed, syncs, seen, sweep, saved>>

Started ==
  /\ up' = FALSE
  /\ heap' = <<>>
  /\ map' = 0
  /\ example' = FALSE
  /\ lock' = None
  /\ pc' = [t \in Threads |-> IF t = "web" THEN "load" ELSE "idle"]
  /\ obj' = [t \in Threads |-> 0]
  /\ cm' = [t \in Threads |-> 0]
  /\ buf' = [t \in Threads |-> EmptyMap]
  /\ heard' = [r \in Rows |-> [h \in Hw |-> [name |-> None, stereo |-> FALSE]]]
  /\ pending' = {} /\ todo' = {} /\ item' = None /\ merged' = FALSE
  /\ seen' = None
  /\ status' = "idle"
  /\ job' = NoJob
  /\ found' = {}

\* The program ends anywhere and is started again.
Crash ==
  /\ Counted
  /\ Suffers(If("torn", pc["web"] = "copy" /\ file = Torn))
  /\ Started
  /\ UNCHANGED <<file, layout, saved>>

-----------------------------------------------------------------------------
Init ==
  /\ file \in Files
  /\ up = FALSE
  /\ heap = <<>>
  /\ map = 0
  /\ example = FALSE
  /\ lock = None
  /\ pc = [t \in Threads |-> IF t = "web" THEN "load" ELSE "idle"]
  /\ obj = [t \in Threads |-> 0]
  /\ cm = [t \in Threads |-> 0]
  /\ buf = [t \in Threads |-> EmptyMap]
  /\ heard = [r \in Rows |-> [h \in Hw |-> [name |-> None, stereo |-> FALSE]]]
  /\ pending = {} /\ todo = {} /\ item = None /\ merged = FALSE
  /\ seen = None
  /\ status = "idle"
  /\ job = NoJob
  /\ found = {}
  /\ layout \in {l \in Layouts : ~Swapped(l)}
  /\ saved = 0
  /\ ops = 0
  /\ mishaps = {}

Web ==
  \/ up /\ (WebSaves(The) \/ \E v \in Uploads : WebSaves(v))
  \/ WebCopies \/ WebCopied \/ WebLoads \/ WebMigrates

Sync ==
  \/ \E x \in Fed : HearsName(x[1], x[2]) \/ HearsStereo(x[1], x[2])
  \/ SyncDrains \/ SyncTakes \/ (\E x \in todo : SyncMerges(x)) \/ SyncMirrors
  \/ SyncPersists

Aim ==
  \/ up /\ \E r \in Rows, n \in Names : AimConfirms(r, n)
  \/ AimMerges \/ AimPersists

Sweep ==
  \/ \E rows \in Sweeps, reset \in BOOLEAN : StartSweep(rows, reset)
  \/ SweepBegins \/ SweepMeasures \/ SweepFails \/ SweepTakes \/ SweepAssigns
  \/ SweepResets \/ SweepFills \/ SweepPersists \/ SweepDone

Next ==
  \/ Web \/ Sync \/ Aim \/ Sweep
  \/ \E t \in Threads : Persist(t)
  \/ \E l \in Layouts : Relayout(l)
  \/ Crash

Spec == Init /\ [][Next]_vars

-----------------------------------------------------------------------------
(* Properties.                                                             *)

\* Types, one writer at a time, and that a sweep counts as running exactly while
\* its thread runs, so that another can be started after it.
TypeOK ==
  /\ file \in Maps \cup {None, Torn}
  /\ heap \in Seq(Maps)
  /\ map \in 0..Len(heap)
  /\ example \in BOOLEAN /\ up \in BOOLEAN
  /\ lock \in Threads \cup {None}
  /\ \A t \in Threads :
       /\ obj[t] \in 0..Len(heap) /\ cm[t] \in 0..Len(heap)
       /\ buf[t] \in Maps
       /\ lock = t <=> pc[t] \in {"dump", "replace"}
  /\ pending \subseteq Fed /\ todo \subseteq Fed
  /\ found \subseteq Facts
  /\ status \in {"idle", "running", "done", "error"}
  /\ status = "running" <=> pc["sweep"] # "idle"
  /\ layout \in Layouts
  /\ saved \in Nat /\ ops \in 0..MaxOps
  /\ mishaps \subseteq Mishaps

Readable == file \notin {None, Torn}

\* Wherever the program ends, the file is a whole map: _persist_channel_map_file
\* and _atomic_write_json replace it.  (The copy of the example does not.)
FileWhole ==
  Without({"torn"}) /\ file = Torn => pc["web"] = "copy"

\* A save that was answered with success is what is in use, and in the file, until
\* the next one: no thread puts back the map it replaced.
SavedIsKept ==
  Without({"crossed", "torn"}) /\ Readable =>
    /\ file.save >= saved
    /\ up => The.save >= saved

\* When a sweep is about to report that it is done, the names it read are in use and
\* in the file, whatever was saved while it measured (#38).
SweepKept ==
  Without({"crossed", "behind"}) /\ pc["sweep"] = "flag" =>
    /\ Taught(found) \subseteq Migrated(The).facts
    /\ Readable \/ pc["web"] = "copy"
    /\ Readable => Taught(found) \subseteq Migrated(file).facts

Quiet == up /\ \A t \in Threads : pc[t] = "idle"

\* When nobody is at work, the file has what is in use: a restart changes nothing.
RestartChangesNothing ==
  Without({"crossed", "unflagged", "failed", "torn"}) /\ Quiet /\ ~example =>
    /\ Readable
    /\ Migrated(file).facts = The.facts
    /\ Migrated(file).source = The.source
    /\ <<file.save, file.legacy>> = <<The.save, The.legacy>>

\* When no report is under way and no sweep is filling a row, the names the Global
\* remote reported last are in the table in use, of a linked pair at both members.
NamesLearned ==
  Without({"crossed", "behind", "untabled", "wiped"})
  /\ up /\ pending = {} /\ pc["sync"] = "idle" /\ pc["sweep"] # "fill" =>
    \A r \in Rows : Known(r) \subseteq Migrated(The).facts

\* As long as no name has passed to another channel, and no reset has wiped what was
\* heard since: where the table says a name is, it accepts no strip for it but one
\* that shares a channel with it, "unrelated strips can never cross-match".
AimsRight ==
  Without({"reused", "wiped"}) /\ up =>
    \A r \in Rows, wanted \in Names :
      LET h     == ResolveStart(The.facts, r, wanted)
          shown == Shows[layout][h]
      IN  h # None /\ Covers(The.facts, r, h, wanted, shown)
            => wanted \cap shown # {}

\* What the file counts as measured was read at every channel, and the file has the
\* names that were read; nothing is pruned before both rows are measured.  (A channel
\* that shows no name stays unknown, and its row is measured all the same.)
MeasuredIsComplete ==
  Without({"halfway", "crossed"}) /\ Readable => Complete(file)
=============================================================================
