-------------------------- MODULE ChannelMapProofs --------------------------
(***************************************************************************)
(* Theorems about ChannelMap.  The arguments, in this order:               *)
(*   - no thread holds a map while the web replaces it, unless the two     *)
(*     have crossed, so what is written is of the save that is in use      *)
(*     (OneAtATime, SavesKept);                                            *)
(*   - a name is first found at a channel of its own (Sound);              *)
(*   - unless a save crosses a thread, all threads work on the map in use  *)
(*     (Together), which is what the last four rest on: what a sweep       *)
(*     measured stays (Kept), what counts as measured is complete          *)
(*     (AllComplete), what was heard is learned (AllLearned), and what is  *)
(*     in use is in the file or about to be (Dirty, InStep).               *)
(***************************************************************************)
EXTENDS ChannelMap, SequenceTheorems, WellFoundedInduction, TLAPS

-----------------------------------------------------------------------------
(* Types.                                                                  *)

Spots ==
  {"idle", "load", "copy", "migrate", "persist", "dump", "replace", "table",
   "merge", "mirror", "check", "begin", "measure", "assign", "rows", "fill",
   "flag"}

Heard == [Rows -> [Hw -> [name : Names \cup {None}, stereo : BOOLEAN]]]

Jobs == [rows : Seq(Rows), at : Nat, reset : BOOLEAN]

\* A fact, unless its offset is past the hardware end.
FactIfThere(f) == f[2] \in Hw => f \in Facts

StoreOK ==
  /\ file \in Maps \cup {None, Torn}
  /\ heap \in Seq(Maps)
  /\ map \in 0..Len(heap)
  /\ example \in BOOLEAN /\ up \in BOOLEAN

RefsOK ==
  /\ obj \in [Threads -> 0..Len(heap)]
  /\ cm \in [Threads -> 0..Len(heap)]
  /\ buf \in [Threads -> Maps]

LockOK ==
  /\ lock \in Threads \cup {None}
  /\ pc \in [Threads -> Spots]
  /\ \A t \in Threads : lock = t <=> pc[t] \in {"dump", "replace"}

\* Only the web is at work before the program has started, a map is loaded first,
\* and what is about to be written, is a map.
StartOK ==
  /\ ~up => \A t \in Threads \ {"web"} : pc[t] = "idle"
  /\ map = 0 => ~up /\ pc["web"] = "load"
  /\ \A t \in Threads : pc[t] \in {"persist", "dump"} => cm[t] # 0
  /\ pc["sweep"] = "assign" => cm["sweep"] # 0

FeedOK ==
  /\ heard \in Heard
  /\ pending \subseteq Fed /\ todo \subseteq Fed
  /\ pc["sync"] = "mirror" => item \in Facts
  /\ pc["aim"] = "merge" => FactIfThere(seen)

SweepOK ==
  /\ found \subseteq Facts
  /\ job \in Jobs
  /\ status \in {"idle", "running", "done", "error"}
  /\ status = "running" <=> pc["sweep"] # "idle"

EnvOK ==
  /\ layout \in Layouts
  /\ saved \in Nat /\ ops \in 0..MaxOps
  /\ mishaps \subseteq Mishaps

TypeInv ==
  StoreOK /\ RefsOK /\ LockOK /\ StartOK /\ FeedOK /\ SweepOK /\ EnvOK

LEMMA InvTypes ==
  ASSUME TypeInv
  PROVE  TypeOK
BY DEF TypeInv, TypeOK, StoreOK, RefsOK, LockOK, FeedOK, SweepOK, EnvOK

LEMMA MapFits ==
  ASSUME NEW v \in Maps
  PROVE  /\ v.save \in Nat /\ v.facts \subseteq Facts /\ v.table \in BOOLEAN
         /\ v.source \in [Rows -> Sources]
         /\ \A x \in SUBSET Facts : [v EXCEPT !.facts = x] \in Maps
         /\ \A n \in Nat : [v EXCEPT !.save = n] \in Maps
         /\ [v EXCEPT !.table = TRUE] \in Maps
         /\ [v EXCEPT !.legacy = "pruned"] \in Maps
         /\ [v EXCEPT !.phantom = FALSE] \in Maps
         /\ \A x \in SUBSET Facts, s \in [Rows -> Sources] :
              [v EXCEPT !.source = s, !.facts = x] \in Maps
BY DEF Maps

LEMMA Changes ==
  \A v \in Maps :
    /\ [v EXCEPT !.table = TRUE] \in Maps
    /\ [v EXCEPT !.table = TRUE].save = v.save
    /\ [v EXCEPT !.legacy = "pruned"] \in Maps
    /\ [v EXCEPT !.legacy = "pruned"].save = v.save
BY DEF Maps

LEMMA SavedAs ==
  \A v \in Maps, n \in Nat :
    [v EXCEPT !.save = n] \in Maps /\ [v EXCEPT !.save = n].save = n
BY DEF Maps

LEMMA EmptyFits == EmptyMap \in Maps
BY DEF EmptyMap, Maps, Sources, Source

LEMMA LegacyFits ==
  ASSUME NEW v \in Maps
  PROVE  /\ FromLegacy(v.walks) \subseteq Facts
         /\ Migrated(v) \in Maps /\ Migrated(v).save = v.save
<1>1. v.walks \in SUBSET SUBSET (Names \X Hw)
  BY DEF Maps
<1>2. 0 \in Hw /\ "outputs" \in Rows
  BY MapAssumption DEF Hw
<1>3. FromLegacy(v.walks) \subseteq Facts
  BY <1>1, <1>2 DEF FromLegacy, Facts
<1>4. [r \in Rows |-> Source(IF r = "outputs" THEN "legacy" ELSE "none")]
        \in [Rows -> Sources]
  BY DEF Source, Sources
<1>5. Migrated(v) \in Maps /\ Migrated(v).save = v.save
  BY <1>3, <1>4 DEF Migrated, Maps
<1> QED
  BY <1>3, <1>5

\* One map of the heap is changed.
LEMMA HeapSet ==
  ASSUME NEW h \in Seq(Maps), NEW i, NEW v,
         i \in DOMAIN h => v \in Maps /\ v.save = h[i].save
  PROVE  LET g == [h EXCEPT ![i] = v]
         IN  /\ g \in Seq(Maps) /\ Len(g) = Len(h)
             /\ \A j \in DOMAIN h : g[j].save = h[j].save
<1>1. DOMAIN h = 1..Len(h)
  BY LenProperties
<1>2. CASE i \in DOMAIN h
  BY <1>1, <1>2, ExceptSeq
<1>3. CASE i \notin DOMAIN h
  <2>1. [h EXCEPT ![i] = v] = h
    BY <1>1, <1>3
  <2> QED
    BY <2>1
<1> QED
  BY <1>2, <1>3

SameSaves ==
  /\ heap' \in Seq(Maps) /\ Len(heap') = Len(heap)
  /\ \A i \in DOMAIN heap : heap'[i].save = heap[i].save

LEMMA Merges ==
  ASSUME heap \in Seq(Maps), NEW i, NEW fact, FactIfThere(fact), Merge(i, {fact})
  PROVE  SameSaves
<1> DEFINE v == [heap[i] EXCEPT !.facts = @ \cup Taught({fact})]
<1>1. heap' = [heap EXCEPT ![i] = v]
  BY DEF Merge
<1>2. i \in DOMAIN heap => v \in Maps /\ v.save = heap[i].save
  <2> SUFFICES ASSUME i \in DOMAIN heap
               PROVE  v \in Maps /\ v.save = heap[i].save
    OBVIOUS
  <2>1. heap[i] \in Maps
    BY LenProperties, ElementOfSeq
  <2>2. heap[i].facts \cup Taught({fact}) \in SUBSET Facts
    BY <2>1, MapFits DEF FactIfThere, Taught
  <2>3. v \in Maps
    BY <2>1, <2>2, MapFits
  <2>4. v.save = heap[i].save
    BY <2>1 DEF Maps
  <2> QED
    BY <2>3, <2>4
<1> HIDE DEF v
<1> QED
  BY <1>1, <1>2, HeapSet DEF SameSaves


\* Whatever a step does to the heap: a map is loaded, the program ends, or the maps
\* are as many as they were and each stems from the save it did.
LEMMA HeapSteps ==
  ASSUME TypeInv, Next
  PROVE  SameSaves \/ WebLoads \/ Crash
<1>0. heap \in Seq(Maps) /\ found \subseteq Facts /\ job \in Jobs
  BY DEF TypeInv, StoreOK, SweepOK
<1>m. \A i \in DOMAIN heap : heap[i] \in Maps
  BY <1>0, LenProperties, ElementOfSeq
<1>1. CASE WebMigrates
  <2>1. heap' = [heap EXCEPT ![map] = Migrated(heap[map])]
    BY <1>1 DEF WebMigrates
  <2>2. map \in DOMAIN heap => /\ Migrated(heap[map]) \in Maps
                               /\ Migrated(heap[map]).save = heap[map].save
    BY <1>m, LegacyFits
  <2> QED
    BY <1>0, <2>1, <2>2, HeapSet DEF SameSaves
<1>2. ASSUME NEW x \in todo, SyncMerges(x)
      PROVE  SameSaves
  <2> DEFINE fact == <<x[1], x[2], heard[x[1]][x[2]].name>>
  <2>1. x \in Rows \X Hw
    BY <1>2, MapAssumption DEF TypeInv, FeedOK
  <2>2. heard[x[1]][x[2]].name \in Names \cup {None}
    BY <2>1 DEF TypeInv, FeedOK, Heard
  <2>3. CASE ~Named(fact[3])
    BY <1>0, <1>2, <2>3 DEF SyncMerges, SameSaves
  <2>4. CASE Named(fact[3])
    <3>1. FactIfThere(fact)
      BY <2>1, <2>2, <2>4 DEF FactIfThere, Facts, Named
    <3>2. Merge(obj["sync"], {fact})
      BY <1>2, <2>4 DEF SyncMerges
    <3> QED
      BY <1>0, <3>1, <3>2, Merges
  <2> QED
    BY <2>3, <2>4
<1>3. CASE SyncMirrors
  <2> DEFINE fact == <<item[1], item[2] + 1, item[3]>>
  <2>1. item \in Facts
    BY <1>3 DEF SyncMirrors, TypeInv, FeedOK
  <2>2. FactIfThere(fact)
    BY <2>1 DEF FactIfThere, Facts
  <2>3. Merge(obj["sync"], {fact}) \/ UNCHANGED heap
    BY <1>3 DEF SyncMirrors
  <2> HIDE DEF fact
  <2> QED
    BY <1>0, <2>2, <2>3, Merges DEF SameSaves
<1>4. CASE AimMerges
  <2>1. FactIfThere(seen) /\ Merge(obj["aim"], {seen})
    BY <1>4 DEF AimMerges, TypeInv, FeedOK
  <2> QED
    BY <1>0, <2>1, Merges
<1>5. CASE SweepBegins \/ SweepAssigns
  <2>1. PICK i : heap' = [heap EXCEPT ![i] = [heap[i] EXCEPT !.table = TRUE]]
    BY <1>5 DEF SweepBegins, SweepAssigns
  <2>2. i \in DOMAIN heap => LET v == [heap[i] EXCEPT !.table = TRUE]
                             IN  v \in Maps /\ v.save = heap[i].save
    BY <1>m, Changes
  <2> QED
    BY <1>0, <2>1, <2>2, HeapSet DEF SameSaves
<1>6. CASE SweepResets
  <2> DEFINE i == obj["sweep"]
             v == [heap[i] EXCEPT !.facts = @ \ RowOf(@, job.rows[job.at])]
  <2>1. heap' = [heap EXCEPT ![i] = v]
    BY <1>6 DEF SweepResets
  <2>2. i \in DOMAIN heap => v \in Maps /\ v.save = heap[i].save
    BY <1>m DEF Maps
  <2> HIDE DEF v
  <2> QED
    BY <1>0, <2>1, <2>2, HeapSet DEF SameSaves
<1>7. CASE SweepFills
  <2> DEFINE i == obj["sweep"]
             r == job.rows[job.at]
             m == [kind |-> "sweep", read |-> RowOf(found, r)]
             u == [heap[i] EXCEPT !.facts = @ \cup RowOf(Taught(found), r)]
             v == [u EXCEPT !.source[r] = m]
  <2>1. heap' = [heap EXCEPT ![i].facts = @ \cup RowOf(Taught(found), r),
                             ![i].source[r] = m]
    BY <1>7 DEF SweepFills
  <2>m. m \in Sources
    BY <1>0 DEF RowOf, Sources
  <2> HIDE DEF m
  <2>2. i \in DOMAIN heap => heap' = [heap EXCEPT ![i] = v]
    BY <2>1
  <2>3. i \notin DOMAIN heap => heap' = heap
    <3>1. heap \in [1..Len(heap) -> Maps] /\ DOMAIN heap = 1..Len(heap)
      BY <1>0, LenProperties
    <3> QED
      BY <2>1, <3>1
  <2>4. RowOf(Taught(found), r) \subseteq Facts
    BY <1>0 DEF RowOf, Taught
  <2>5. i \in DOMAIN heap => u \in Maps /\ u.save = heap[i].save
    BY <1>m, <2>4 DEF Maps
  <2>6. i \in DOMAIN heap => v \in Maps /\ v.save = heap[i].save
    BY <2>5, <2>m DEF Maps
  <2> HIDE DEF v
  <2>7. CASE i \in DOMAIN heap
    BY <1>0, <2>2, <2>6, <2>7, HeapSet DEF SameSaves
  <2>8. CASE i \notin DOMAIN heap
    BY <1>0, <2>3, <2>8 DEF SameSaves
  <2> QED
    BY <2>7, <2>8
<1>8. CASE SweepPersists
  <2>1. \/ heap' = heap
        \/ heap' = [heap EXCEPT ![map] = [heap[map] EXCEPT !.legacy = "pruned"]]
    BY <1>8 DEF SweepPersists
  <2> DEFINE v == [heap[map] EXCEPT !.legacy = "pruned"]
  <2>2. map \in DOMAIN heap => v \in Maps /\ v.save = heap[map].save
    BY <1>m, Changes
  <2>3. heap' = heap \/ heap' = [heap EXCEPT ![map] = v]
    BY <2>1
  <2> HIDE DEF v
  <2> QED
    BY <1>0, <2>2, <2>3, HeapSet DEF SameSaves
<1>9. CASE UNCHANGED heap
  BY <1>0, <1>9 DEF SameSaves
<1> QED
  BY <1>1, <1>2, <1>3, <1>4, <1>5, <1>6, <1>7, <1>8, <1>9
     DEF Next, Web, Sync, Aim, Sweep, Persist, WebSaves, WebCopies, WebCopied,
     HearsName, HearsStereo, SyncDrains, SyncTakes, SyncPersists, AimConfirms,
     AimPersists, StartSweep, SweepMeasures, SweepFails, SweepTakes, SweepDone,
     Relayout, Locks, Dumps, DumpRaises, WriteFails, Replaces, PersistFails,
     store

LEMMA ReadFits ==
  ASSUME StoreOK
  PROVE  Read \in Maps
<1>1. Example \in Maps /\ None # Torn /\ file \in Maps \cup {None, Torn}
  BY MapAssumption DEF StoreOK
<1> QED
  BY <1>1, EmptyFits DEF Read

LEMMA LoadHeap ==
  ASSUME StoreOK, WebLoads
  PROVE  /\ heap' \in Seq(Maps) /\ Len(heap') = Len(heap) + 1
         /\ map' = Len(heap')
         /\ \A i \in DOMAIN heap : heap'[i] = heap[i]
         /\ heap'[map'] = [Read EXCEPT !.phantom = FALSE]
<1> DEFINE v == [Read EXCEPT !.phantom = FALSE]
<1>1. v \in Maps
  BY ReadFits, MapFits
<1>2. heap \in Seq(Maps) /\ heap' = Append(heap, v) /\ map' = Len(heap) + 1
  BY DEF StoreOK, WebLoads
<1> HIDE DEF v
<1>3. /\ heap' \in Seq(Maps) /\ Len(heap') = Len(heap) + 1
      /\ \A i \in 1..Len(heap) : heap'[i] = heap[i]
      /\ heap'[Len(heap) + 1] = v
  BY <1>1, <1>2, AppendProperties
<1>4. DOMAIN heap = 1..Len(heap)
  BY <1>2, LenProperties
<1> QED
  BY <1>2, <1>3, <1>4 DEF v

LEMMA HeapGrows ==
  ASSUME TypeInv, Next
  PROVE  /\ heap' \in Seq(Maps) /\ Len(heap') \in Nat
         /\ Crash \/ Len(heap') >= Len(heap)
<1>0. StoreOK /\ heap \in Seq(Maps)
  BY DEF TypeInv, StoreOK
<1>1. Len(heap) \in Nat
  BY <1>0, LenProperties
<1>2. CASE SameSaves
  BY <1>1, <1>2 DEF SameSaves
<1>3. CASE WebLoads
  BY <1>0, <1>1, <1>3, LoadHeap
<1>4. CASE Crash
  BY <1>4, EmptySeq DEF Crash, Started
<1> QED
  BY <1>2, <1>3, <1>4, HeapSteps

LEMMA TheFits ==
  ASSUME StoreOK, map # 0
  PROVE  map \in DOMAIN heap /\ The \in Maps
<1>1. heap \in Seq(Maps) /\ map \in 1..Len(heap)
  BY LenProperties DEF StoreOK
<1> QED
  BY <1>1, LenProperties, ElementOfSeq DEF The

LEMMA FileStep ==
  ASSUME TypeInv, Next
  PROVE  file' \in Maps \cup {None, Torn}
<1>0. file \in Maps \cup {None, Torn} /\ saved \in Nat /\ buf \in [Threads -> Maps]
  BY DEF TypeInv, StoreOK, RefsOK, EnvOK
<1>n. saved + 1 \in Nat
  BY <1>0
<1>e. Example \in Maps /\ Uploads \subseteq Maps
  BY MapAssumption
<1>1. CASE up /\ WebSaves(The)
  <2>1. map # 0
    BY <1>1 DEF TypeInv, StartOK
  <2>2. The \in Maps
    BY <2>1, TheFits DEF TypeInv
  <2> QED
    BY <1>n, <1>1, <2>2, SavedAs DEF WebSaves
<1>2. ASSUME NEW v \in Uploads, WebSaves(v)
      PROVE  file' \in Maps
  BY <1>n, <1>e, <1>2, SavedAs DEF WebSaves
<1>3. CASE WebCopied
  BY <1>0, <1>n, <1>e, <1>3, SavedAs DEF WebCopied
<1>4. ASSUME NEW t \in Threads, Replaces(t)
      PROVE  file' \in Maps
  BY <1>0, <1>4 DEF Replaces
<1>5. CASE file' = file \/ file' = Torn
  BY <1>0, <1>5
<1> QED
  BY <1>1, <1>2, <1>3, <1>4, <1>5
     DEF Next, Web, Sync, Aim, Sweep, Persist, WebCopies, WebLoads,
     WebMigrates, HearsName, HearsStereo, SyncDrains, SyncTakes, SyncMerges,
     SyncMirrors, SyncPersists, AimConfirms, AimMerges, AimPersists,
     StartSweep, SweepBegins, SweepMeasures, SweepFails, SweepTakes,
     SweepAssigns, SweepResets, SweepFills, SweepPersists, SweepDone, Relayout,
     Locks, Dumps, DumpRaises, WriteFails, store, PersistFails, Crash

LEMMA StoreStep ==
  ASSUME TypeInv, Next
  PROVE  StoreOK'
<1>0. map \in 0..Len(heap) /\ cm \in [Threads -> 0..Len(heap)] /\ StoreOK
  BY DEF TypeInv, StoreOK, RefsOK
<1>1. heap' \in Seq(Maps) /\ Len(heap') \in Nat /\ Len(heap) \in Nat
  BY HeapGrows, LenProperties DEF TypeInv, StoreOK
<1>2. CASE WebLoads
  <2>1. map' = Len(heap')
    BY <1>0, <1>2, LoadHeap
  <2>2. map' \in 0..Len(heap')
    BY <1>1, <2>1
  <2>3. example' \in BOOLEAN /\ up' \in BOOLEAN
    BY <1>2, <1>0 DEF WebLoads, StoreOK
  <2> QED
    BY <1>1, <2>2, <2>3, FileStep DEF StoreOK
<1>3. CASE Crash
  <2>1. map' = 0 /\ example' = FALSE /\ up' = FALSE
    BY <1>3 DEF Crash, Started
  <2>2. map' \in 0..Len(heap')
    BY <1>1, <2>1
  <2>3. example' \in BOOLEAN /\ up' \in BOOLEAN
    BY <2>1
  <2> QED
    BY <1>1, <2>2, <2>3, FileStep DEF StoreOK
<1>4. CASE ~WebLoads /\ ~Crash
  <2>1. map' \in {map, cm["sweep"]}
    BY <1>4
       DEF Next, Web, Sync, Aim, Sweep, Persist, WebSaves, WebCopies,
       WebCopied, WebMigrates, HearsName, HearsStereo, SyncDrains, SyncTakes,
       SyncMerges, SyncMirrors, SyncPersists, AimConfirms, AimMerges,
       AimPersists, StartSweep, SweepBegins, SweepMeasures, SweepFails,
       SweepTakes, SweepAssigns, SweepResets, SweepFills, SweepPersists,
       SweepDone, Relayout, Locks, Dumps, DumpRaises, WriteFails, Replaces,
       store, PersistFails
  <2>2. Len(heap') >= Len(heap)
    BY <1>4, HeapGrows
  <2>3. cm["sweep"] \in 0..Len(heap)
    BY <1>0 DEF Threads
  <2>4. map' \in 0..Len(heap')
    BY <1>0, <1>1, <2>1, <2>2, <2>3
  <2>5. example' \in BOOLEAN /\ up' \in BOOLEAN
    BY <1>0, <1>4
       DEF Next, Web, Sync, Aim, Sweep, Persist, WebSaves, WebCopies,
       WebCopied, WebMigrates, HearsName, HearsStereo, SyncDrains, SyncTakes,
       SyncMerges, SyncMirrors, SyncPersists, AimConfirms, AimMerges,
       AimPersists, StartSweep, SweepBegins, SweepMeasures, SweepFails,
       SweepTakes, SweepAssigns, SweepResets, SweepFills, SweepPersists,
       SweepDone, Relayout, Locks, Dumps, DumpRaises, WriteFails, Replaces,
       store, PersistFails, StoreOK
  <2> QED
    BY <1>1, <2>4, <2>5, FileStep DEF StoreOK
<1> QED
  BY <1>2, <1>3, <1>4

\* What is written, is one of the maps.
LEMMA Written ==
  ASSUME TypeInv, NEW t \in Threads, pc[t] \in {"persist", "dump"}
  PROVE  cm[t] \in DOMAIN heap /\ heap[cm[t]] \in Maps
<1>1. heap \in Seq(Maps) /\ cm[t] \in 1..Len(heap)
  BY LenProperties DEF TypeInv, StoreOK, RefsOK, StartOK
<1> QED
  BY <1>1, LenProperties, ElementOfSeq

LEMMA BufStep ==
  ASSUME TypeInv, Next
  PROVE  buf' \in [Threads -> Maps]
<1>0. buf \in [Threads -> Maps]
  BY DEF TypeInv, RefsOK
<1>1. ASSUME NEW t \in Threads, Locks(t)
      PROVE  buf' \in [Threads -> Maps]
  <2>1. heap[cm[t]] \in Maps
    BY <1>1, Written DEF Locks
  <2> QED
    BY <1>0, <1>1, <2>1 DEF Locks
<1>2. ASSUME NEW t \in Threads, Dumps(t)
      PROVE  buf' \in [Threads -> Maps]
  <2> DEFINE was == buf[t]
             is  == heap[cm[t]]
  <2>1. is \in Maps /\ was \in Maps
    BY <1>0, <1>2, Written DEF Dumps
  <2>2. PICK new \in SUBSET Rows, source \in {was.source, is.source} :
          buf' = [buf EXCEPT ![t].source = source,
                             ![t].facts = {f \in was.facts : f[1] \notin new} \cup
                                          {f \in is.facts : f[1] \in new}]
    BY <1>2 DEF Dumps
  <2> DEFINE facts == {f \in was.facts : f[1] \notin new} \cup
                      {f \in is.facts : f[1] \in new}
             v == [was EXCEPT !.source = source, !.facts = facts]
  <2>3. buf' = [buf EXCEPT ![t] = v]
    BY <1>0, <2>2
  <2>4. facts \in SUBSET Facts /\ source \in [Rows -> Sources]
    BY <2>1 DEF Maps
  <2> HIDE DEF facts, is
  <2>5. v \in Maps
    BY <2>1, <2>4, MapFits
  <2> HIDE DEF v
  <2> QED
    BY <1>0, <2>3, <2>5
<1>3. ASSUME NEW t \in Threads, Released(t)
      PROVE  buf' \in [Threads -> Maps]
  BY <1>0, <1>3, EmptyFits DEF Released
<1>4. CASE Crash
  BY <1>4, EmptyFits DEF Crash, Started
<1>5. CASE UNCHANGED buf
  BY <1>0, <1>5
<1> QED
  BY <1>1, <1>2, <1>3, <1>4, <1>5
     DEF Next, Web, Sync, Aim, Sweep, Persist, WebSaves, WebCopies, WebCopied,
     WebLoads, WebMigrates, HearsName, HearsStereo, SyncDrains, SyncTakes,
     SyncMerges, SyncMirrors, SyncPersists, AimConfirms, AimMerges,
     AimPersists, StartSweep, SweepBegins, SweepMeasures, SweepFails,
     SweepTakes, SweepAssigns, SweepResets, SweepFills, SweepPersists,
     SweepDone, Relayout, DumpRaises, WriteFails, Replaces, locks, PersistFails

LEMMA RefsStep ==
  ASSUME TypeInv, Next
  PROVE  RefsOK'
<1>0. /\ heap \in Seq(Maps) /\ Len(heap) \in Nat /\ map \in 0..Len(heap)
      /\ obj \in [Threads -> 0..Len(heap)]
      /\ cm \in [Threads -> 0..Len(heap)]
  BY LenProperties DEF TypeInv, StoreOK, RefsOK
<1>1. /\ Len(heap') \in Nat /\ map' \in 0..Len(heap')
      /\ Crash \/ Len(heap') >= Len(heap)
  BY HeapGrows, StoreStep DEF StoreOK
<1>2. cm["sweep"] \in 0..Len(heap)
  BY <1>0 DEF Threads
<1>3. CASE Crash
  <2>1. obj' = [t \in Threads |-> 0] /\ cm' = [t \in Threads |-> 0]
    BY <1>3 DEF Crash, Started
  <2>2. 0 \in 0..Len(heap')
    BY <1>1
  <2> QED
    BY <2>1, <2>2, BufStep DEF RefsOK
<1>4. CASE ~Crash
  <2>1. \/ obj' = obj
        \/ \E t \in Threads, i \in {0, map, cm["sweep"]} : obj' = [obj EXCEPT ![t] = i]
    BY <1>4
       DEF Next, Web, Sync, Aim, Sweep, Persist, WebSaves, WebCopies,
       WebCopied, WebLoads, WebMigrates, HearsName, HearsStereo, SyncDrains,
       SyncTakes, SyncMerges, SyncMirrors, SyncPersists, AimConfirms,
       AimMerges, AimPersists, StartSweep, SweepBegins, SweepMeasures,
       SweepFails, SweepTakes, SweepAssigns, SweepResets, SweepFills,
       SweepPersists, SweepDone, Relayout, Locks, Dumps, DumpRaises,
       WriteFails, Replaces, locks, PersistFails, Released, Threads
  <2>2. \/ cm' = cm
        \/ \E t \in Threads, i \in {0, map, map'} : cm' = [cm EXCEPT ![t] = i]
    BY <1>4
       DEF Next, Web, Sync, Aim, Sweep, Persist, WebSaves, WebCopies,
       WebCopied, WebLoads, WebMigrates, HearsName, HearsStereo, SyncDrains,
       SyncTakes, SyncMerges, SyncMirrors, SyncPersists, AimConfirms,
       AimMerges, AimPersists, StartSweep, SweepBegins, SweepMeasures,
       SweepFails, SweepTakes, SweepAssigns, SweepResets, SweepFills,
       SweepPersists, SweepDone, Relayout, Locks, Dumps, DumpRaises,
       WriteFails, Replaces, locks, PersistFails, Released, CallsPersist,
       Threads
  <2>3. \A i \in 0..Len(heap) : i \in 0..Len(heap')
    BY <1>0, <1>1, <1>4
  <2>4. {0, map, map', cm["sweep"]} \subseteq 0..Len(heap')
    BY <1>0, <1>1, <1>2, <2>3
  <2>5. \A t \in Threads : obj[t] \in 0..Len(heap') /\ cm[t] \in 0..Len(heap')
    BY <1>0, <2>3
  <2>6. obj' \in [Threads -> 0..Len(heap')]
    BY <1>0, <2>1, <2>4, <2>5
  <2>7. cm' \in [Threads -> 0..Len(heap')]
    BY <1>0, <2>2, <2>4, <2>5
  <2> QED
    BY <2>6, <2>7, BufStep DEF RefsOK
<1> QED
  BY <1>3, <1>4

\* No thread begins or ends to write.
SameWriters ==
  /\ pc' \in [Threads -> Spots]
  /\ \A u \in Threads : pc'[u] \in {"dump", "replace"} <=> pc[u] \in {"dump", "replace"}

LEMMA Moved ==
  ASSUME LockOK
  PROVE  /\ UNCHANGED pc => SameWriters
         /\ \A t \in Threads, p \in Spots \ {"dump", "replace"} :
              pc[t] \notin {"dump", "replace"} /\ Goto(t, p) => SameWriters
BY DEF LockOK, SameWriters, Goto

LEMMA LockStep ==
  ASSUME TypeInv, Next
  PROVE  LockOK'
<1>0. /\ lock \in Threads \cup {None} /\ pc \in [Threads -> Spots]
      /\ \A t \in Threads : lock = t <=> pc[t] \in {"dump", "replace"}
  BY DEF TypeInv, LockOK
<1>n. None \notin Threads
  BY MapAssumption
<1>a. \A t \in Threads : AfterPersist[t] \in Spots \ {"dump", "replace"}
  BY DEF AfterPersist, Threads, Spots
<1>1. ASSUME NEW t \in Threads, Locks(t)
      PROVE  LockOK'
  BY <1>0, <1>n, <1>1 DEF Locks, Goto, LockOK, Spots
<1>2. ASSUME NEW t \in Threads, Dumps(t)
      PROVE  LockOK'
  BY <1>0, <1>2 DEF Dumps, Goto, LockOK, Spots
<1>3. ASSUME NEW t \in Threads, DumpRaises(t) \/ WriteFails(t) \/ Replaces(t)
      PROVE  LockOK'
  <2>1. lock' = None /\ pc[t] \in {"dump", "replace"}
    BY <1>3 DEF DumpRaises, WriteFails, Replaces, PersistFails, Released
  <2>2. PICK p \in Spots \ {"dump", "replace"} : pc' = [pc EXCEPT ![t] = p]
    BY <1>3, <1>a
       DEF DumpRaises, WriteFails, Replaces, PersistFails, Goto, Spots
  <2>3. lock = t /\ \A u \in Threads : u # t => pc[u] \notin {"dump", "replace"}
    BY <1>0, <2>1
  <2>4. \A u \in Threads : pc'[u] \notin {"dump", "replace"}
    BY <1>0, <2>2, <2>3
  <2>5. pc' \in [Threads -> Spots]
    BY <1>0, <2>2
  <2> QED
    BY <1>n, <2>1, <2>4, <2>5 DEF LockOK
<1>4. CASE Crash
  BY <1>4, <1>n DEF Crash, Started, LockOK, Spots
<1>5. CASE /\ UNCHANGED lock
           /\ SameWriters
  BY <1>0, <1>5 DEF LockOK, SameWriters
<1>6. ASSUME ~Crash, ~\E t \in Threads : Persist(t)
      PROVE  /\ UNCHANGED lock
             /\ SameWriters
  <2>1. UNCHANGED lock
    BY <1>6
       DEF Next, Web, Sync, Aim, Sweep, Persist, WebSaves, WebCopies,
       WebCopied, WebLoads, WebMigrates, HearsName, HearsStereo, SyncDrains,
       SyncTakes, SyncMerges, SyncMirrors, SyncPersists, AimConfirms,
       AimMerges, AimPersists, StartSweep, SweepBegins, SweepMeasures,
       SweepFails, SweepTakes, SweepAssigns, SweepResets, SweepFills,
       SweepPersists, SweepDone, Relayout, locks, CallsPersist
  <2>m. /\ UNCHANGED pc => SameWriters
        /\ \A t \in Threads, p \in Spots \ {"dump", "replace"} :
             pc[t] \notin {"dump", "replace"} /\ Goto(t, p) => SameWriters
    BY Moved DEF TypeInv
  <2>t. Threads = {"web", "sync", "aim", "sweep"}
    BY DEF Threads
  <2>2. CASE Web \/ Aim
    BY <2>1, <2>m, <2>t, <2>2
       DEF Web, Aim, Spots, WebSaves, WebCopies, WebCopied, WebLoads,
       WebMigrates, AimConfirms, AimMerges, AimPersists, CallsPersist
  <2>3. CASE Sync
    BY <2>1, <2>m, <2>t, <2>3
       DEF Sync, Spots, HearsName, HearsStereo, SyncDrains,
       SyncTakes, SyncMerges, SyncMirrors, SyncPersists, CallsPersist
  <2>4. CASE Sweep
    <3>1. pc["sweep"] # "idle" => status = "running"
      BY DEF TypeInv, SweepOK
    <3> QED
      BY <2>1, <2>m, <2>t, <2>4, <3>1
         DEF Sweep, Spots, StartSweep, SweepBegins, SweepMeasures, SweepFails,
         SweepTakes, SweepAssigns, SweepResets, SweepFills, SweepPersists,
         SweepDone, CallsPersist
  <2> QED
    BY <1>6, <2>m, <2>1, <2>2, <2>3, <2>4 DEF Next, Relayout
<1> QED
  BY <1>1, <1>2, <1>3, <1>4, <1>5, <1>6 DEF Persist

LEMMA EnvStep ==
  ASSUME TypeInv, Next
  PROVE  EnvOK'
<1>0. EnvOK
  BY DEF TypeInv
<1>1. layout' \in Layouts
  BY <1>0
     DEF Next, Web, Sync, Aim, Sweep, Persist, WebSaves, WebCopies, WebCopied,
     WebLoads, WebMigrates, HearsName, HearsStereo, SyncDrains, SyncTakes,
     SyncMerges, SyncMirrors, SyncPersists, AimConfirms, AimMerges,
     AimPersists, StartSweep, SweepBegins, SweepMeasures, SweepFails,
     SweepTakes, SweepAssigns, SweepResets, SweepFills, SweepPersists,
     SweepDone, Relayout, Crash, Locks, Dumps, DumpRaises, WriteFails,
     Replaces, env, EnvOK, PersistFails
<1>2. ops' \in 0..MaxOps
  <2>1. ops' = ops \/ (ops < MaxOps /\ ops' = ops + 1)
    BY <1>0
       DEF Next, Web, Sync, Aim, Sweep, Persist, WebSaves, WebCopies,
       WebCopied, WebLoads, WebMigrates, HearsName, HearsStereo, SyncDrains,
       SyncTakes, SyncMerges, SyncMirrors, SyncPersists, AimConfirms,
       AimMerges, AimPersists, StartSweep, SweepBegins, SweepMeasures,
       SweepFails, SweepTakes, SweepAssigns, SweepResets, SweepFills,
       SweepPersists, SweepDone, Relayout, Crash, Locks, Dumps, DumpRaises,
       WriteFails, Replaces, env, Counted, PersistFails
  <2> QED
    BY <1>0, <2>1, MapAssumption DEF EnvOK
<1>3. mishaps' \subseteq Mishaps
  <2>1. \/ UNCHANGED mishaps
        \/ \E kinds : Suffers(kinds)
    BY <1>0
       DEF Next, Web, Sync, Aim, Sweep, Persist, WebSaves, WebCopies,
       WebCopied, WebLoads, WebMigrates, HearsName, HearsStereo, SyncDrains,
       SyncTakes, SyncMerges, SyncMirrors, SyncPersists, AimConfirms,
       AimMerges, AimPersists, StartSweep, SweepBegins, SweepMeasures,
       SweepFails, SweepTakes, SweepAssigns, SweepResets, SweepFills,
       SweepPersists, SweepDone, Relayout, Crash, Locks, Dumps, DumpRaises,
       WriteFails, Replaces, PersistFails
  <2> QED
    BY <1>0, <2>1 DEF EnvOK, Suffers
<1>4. saved' \in Nat
  <2>1. CASE WebMigrates
    <3>1. map # 0
      BY <2>1 DEF WebMigrates, TypeInv, StartOK
    <3>2. The \in Maps
      BY <3>1, TheFits DEF TypeInv
    <3>3. saved' = The.save
      BY <2>1 DEF WebMigrates
    <3> QED
      BY <3>2, <3>3, MapFits
  <2>2. CASE UNCHANGED saved
    BY <1>0, <2>2 DEF EnvOK
  <2> QED
    BY <2>1, <2>2
       DEF Next, Web, Sync, Aim, Sweep, Persist, WebSaves, WebCopies,
       WebCopied, WebLoads, HearsName, HearsStereo, SyncDrains, SyncTakes,
       SyncMerges, SyncMirrors, SyncPersists, AimConfirms, AimMerges,
       AimPersists, StartSweep, SweepBegins, SweepMeasures, SweepFails,
       SweepTakes, SweepAssigns, SweepResets, SweepFills, SweepPersists,
       SweepDone, Relayout, Crash, Locks, Dumps, DumpRaises, WriteFails,
       Replaces, env, PersistFails
<1> QED
  BY <1>1, <1>2, <1>3, <1>4 DEF EnvOK

\* Only the web is at work until a map is loaded.
LEMMA AtWork ==
  ASSUME TypeInv, NEW t \in Threads \ {"web"}, pc[t] # "idle"
  PROVE  up /\ map # 0
BY DEF TypeInv, StartOK

LEMMA StartStep ==
  ASSUME TypeInv, Next
  PROVE  StartOK'
<1>0. StartOK /\ pc \in [Threads -> Spots] /\ cm \in [Threads -> 0..Len(heap)]
  BY DEF TypeInv, LockOK, RefsOK
<1>t. Threads = {"web", "sync", "aim", "sweep"}
  BY DEF Threads
<1>a. \A t \in Threads : AfterPersist[t] \in {"migrate", "idle", "flag"}
  BY DEF AfterPersist, Threads
<1>1. CASE Crash
  BY <1>1, <1>t DEF Crash, Started, StartOK
<1>2. ASSUME NEW t \in Threads, Persist(t)
      PROVE  StartOK'
  <2>1. pc[t] # "idle" /\ UNCHANGED <<up, map>>
    BY <1>2 DEF Persist, Locks, Dumps, DumpRaises, WriteFails, Replaces,
       PersistFails, store
  <2>2. /\ map # 0
        /\ t # "web" => up
    BY <1>2, <2>1, AtWork DEF StartOK, TypeInv, Persist, Locks, Dumps,
       DumpRaises, WriteFails, Replaces
  <2>3. CASE Locks(t) \/ Dumps(t)
    <3>1. /\ UNCHANGED cm
          /\ pc[t] \in {"persist", "dump"}
          /\ Goto(t, "dump") \/ Goto(t, "replace")
      BY <2>3 DEF Locks, Dumps
    <3> QED
      BY <1>0, <1>t, <2>1, <2>2, <3>1 DEF Goto, StartOK
  <2>4. CASE DumpRaises(t) \/ WriteFails(t) \/ Replaces(t)
    <3>1. /\ cm' = [cm EXCEPT ![t] = 0]
          /\ \E p \in {"migrate", "idle", "flag"} : Goto(t, p)
          /\ pc[t] \in {"dump", "replace"}
      BY <1>a, <2>4 DEF DumpRaises, WriteFails, Replaces, PersistFails, Released
    <3>2. t = "web" => \A p : Goto(t, p) => pc'["sweep"] = pc["sweep"]
      BY <1>0, <1>t DEF Goto
    <3> QED
      BY <1>0, <1>t, <2>1, <2>2, <3>1 DEF Goto, StartOK
  <2> QED
    BY <1>2, <2>3, <2>4 DEF Persist
<1>3. CASE Web
  <2>1. CASE WebLoads
    <3>1. map' # 0
      BY <2>1, LenProperties DEF WebLoads, TypeInv, StoreOK
    <3> QED
      BY <1>0, <1>t, <2>1, <3>1 DEF WebLoads, Goto, StartOK
  <2>2. CASE WebMigrates
    BY <1>0, <1>t, <2>2 DEF WebMigrates, Goto, StartOK, locks
  <2>3. CASE WebCopied \/ WebCopies \/ \E v : up /\ WebSaves(v)
    BY <1>0, <1>t, <2>3 DEF WebCopied, WebCopies, WebSaves, Goto, StartOK, locks
  <2> QED
    BY <1>3, <2>1, <2>2, <2>3 DEF Web
<1>4. CASE Sync
  <2>0. pc["sync"] # "idle" => up /\ map # 0
    BY <1>t, AtWork
  <2>1. ASSUME NEW x \in todo, SyncMerges(x)
        PROVE  StartOK'
    <3>1. /\ UNCHANGED <<up, map, cm>> /\ pc["sync"] = "merge"
          /\ UNCHANGED pc \/ Goto("sync", "mirror")
      BY <2>1 DEF SyncMerges, locks
    <3> QED
      BY <1>0, <1>t, <2>0, <3>1 DEF Goto, StartOK
  <2>2. CASE SyncDrains \/ SyncTakes \/ SyncMirrors \/ SyncPersists
    BY <1>0, <1>t, <2>0, <2>2
       DEF SyncDrains, SyncTakes, store, SyncMirrors, SyncPersists,
       CallsPersist, Goto, StartOK, locks
  <2>3. CASE UNCHANGED <<up, map, cm, pc>>
    BY <1>0, <1>t, <2>3 DEF StartOK
  <2> QED
    BY <1>4, <2>1, <2>2, <2>3 DEF Sync, HearsName, HearsStereo, store, locks
<1>5. CASE Aim
  BY <1>0, <1>t, <1>5, AtWork
     DEF Aim, AimConfirms, AimMerges, AimPersists, CallsPersist, Goto, StartOK,
     locks, store
<1>6. CASE Sweep
  BY <1>0, <1>t, <1>6, AtWork
     DEF Sweep, StartSweep, SweepBegins, SweepMeasures, SweepFails, SweepTakes,
     SweepAssigns, SweepResets, SweepFills, SweepPersists, SweepDone,
     CallsPersist, Goto, StartOK, locks, store
<1>7. ASSUME NEW l \in Layouts, Relayout(l)
      PROVE  StartOK'
  BY <1>0, <1>7 DEF Relayout, StartOK, locks, store
<1> QED
  BY <1>1, <1>2, <1>3, <1>4, <1>5, <1>6, <1>7 DEF Next

LEMMA HeardSet ==
  ASSUME heard \in Heard, NEW r \in Rows, NEW h \in Hw,
         NEW v \in [name : Names \cup {None}, stereo : BOOLEAN]
  PROVE  [heard EXCEPT ![r][h] = v] \in Heard
<1>1. heard[r] \in [Hw -> [name : Names \cup {None}, stereo : BOOLEAN]]
  BY DEF Heard
<1>2. [heard[r] EXCEPT ![h] = v] \in [Hw -> [name : Names \cup {None}, stereo : BOOLEAN]]
  BY <1>1
<1>3. [heard EXCEPT ![r][h] = v] = [heard EXCEPT ![r] = [heard[r] EXCEPT ![h] = v]]
  BY DEF Heard
<1> QED
  BY <1>2, <1>3 DEF Heard

LEMMA FeedStep ==
  ASSUME TypeInv, Next
  PROVE  FeedOK'
<1>0. FeedOK /\ pc \in [Threads -> Spots] /\ layout \in Layouts
  BY DEF TypeInv, LockOK, EnvOK
<1>t. Threads = {"web", "sync", "aim", "sweep"}
  BY DEF Threads
<1>s. \A h \in Hw : Shows[layout][h] \in Names
  BY <1>0, MapAssumption
<1>f. Fed \subseteq Rows \X Hw
  BY MapAssumption
<1>1. heard' \in Heard
  <2>1. CASE UNCHANGED heard
    BY <1>0, <2>1 DEF FeedOK
  <2>2. ASSUME NEW x \in Fed, HearsName(x[1], x[2])
        PROVE  heard' \in Heard
    <3> DEFINE v == [heard[x[1]][x[2]] EXCEPT !.name = Shows[layout][x[2]]]
    <3>1. x[1] \in Rows /\ x[2] \in Hw
      BY <1>f
    <3>2. heard' = [heard EXCEPT ![x[1]][x[2]] = v]
      BY <2>2 DEF HearsName
    <3>3. heard[x[1]][x[2]] \in [name : Names \cup {None}, stereo : BOOLEAN]
      BY <1>0, <3>1 DEF FeedOK, Heard
    <3>4. v \in [name : Names \cup {None}, stereo : BOOLEAN]
      BY <1>s, <3>1, <3>3
    <3> HIDE DEF v
    <3> QED
      BY <1>0, <3>1, <3>2, <3>4, HeardSet DEF FeedOK
  <2>3. ASSUME NEW x \in Fed, HearsStereo(x[1], x[2])
        PROVE  heard' \in Heard
    <3> DEFINE v == [heard[x[1]][x[2]] EXCEPT !.stereo = Linked(layout, x[2])]
    <3>1. x[1] \in Rows /\ x[2] \in Hw
      BY <1>f
    <3>2. heard' = [heard EXCEPT ![x[1]][x[2]] = v]
      BY <2>3 DEF HearsStereo
    <3>3. heard[x[1]][x[2]] \in [name : Names \cup {None}, stereo : BOOLEAN]
      BY <1>0, <3>1 DEF FeedOK, Heard
    <3>4. Linked(layout, x[2]) \in BOOLEAN
      BY DEF Linked
    <3>5. v \in [name : Names \cup {None}, stereo : BOOLEAN]
      BY <3>3, <3>4
    <3> HIDE DEF v
    <3> QED
      BY <1>0, <3>1, <3>2, <3>5, HeardSet DEF FeedOK
  <2>4. CASE Crash
    BY <2>4 DEF Crash, Started, Heard
  <2> QED
    BY <2>1, <2>2, <2>3, <2>4
       DEF Next, Web, Sync, Aim, Sweep, Persist, WebSaves, WebCopies,
       WebCopied, WebLoads, WebMigrates, SyncDrains, SyncTakes, SyncMerges,
       SyncMirrors, SyncPersists, AimConfirms, AimMerges, AimPersists,
       StartSweep, SweepBegins, SweepMeasures, SweepFails, SweepTakes,
       SweepAssigns, SweepResets, SweepFills, SweepPersists, SweepDone,
       Relayout, Locks, Dumps, DumpRaises, WriteFails, Replaces, feed,
       PersistFails
<1>2. pending' \subseteq Fed
  <2>1. \/ pending' \subseteq pending
          \/ \E x \in Fed : pending' = pending \cup {<<x[1], x[2]>>}
    BY <1>0
       DEF Next, Web, Sync, Aim, Sweep, Persist, WebSaves, WebCopies, WebCopied,
       WebLoads, WebMigrates, HearsName, HearsStereo, SyncDrains, SyncTakes,
       SyncMerges, SyncMirrors, SyncPersists, AimConfirms, AimMerges,
       AimPersists, StartSweep, SweepBegins, SweepMeasures, SweepFails,
       SweepTakes, SweepAssigns, SweepResets, SweepFills, SweepPersists,
       SweepDone, Relayout, Crash, Locks, Dumps, DumpRaises, WriteFails,
       Replaces, feed, PersistFails, FeedOK, Started
  <2>2. \A x \in Fed : <<x[1], x[2]>> = x
    BY <1>f
  <2> QED
    BY <1>0, <2>1, <2>2 DEF FeedOK
<1>3. todo' \subseteq Fed
  BY <1>0
     DEF Next, Web, Sync, Aim, Sweep, Persist, WebSaves, WebCopies, WebCopied,
     WebLoads, WebMigrates, HearsName, HearsStereo, SyncDrains, SyncTakes,
     SyncMerges, SyncMirrors, SyncPersists, AimConfirms, AimMerges,
     AimPersists, StartSweep, SweepBegins, SweepMeasures, SweepFails,
     SweepTakes, SweepAssigns, SweepResets, SweepFills, SweepPersists,
     SweepDone, Relayout, Crash, Locks, Dumps, DumpRaises, WriteFails,
     Replaces, syncs, PersistFails, FeedOK, Started
<1>p. ASSUME NEW t \in Threads, Persist(t)
      PROVE  /\ UNCHANGED <<item, seen>>
             /\ pc'["sync"] = "mirror" => pc["sync"] = "mirror"
             /\ pc'["aim"] = "merge" => pc["aim"] = "merge"
  BY <1>0, <1>t, <1>p
     DEF Persist, Locks, Dumps, DumpRaises, WriteFails, Replaces, PersistFails,
     AfterPersist, Goto, syncs
<1>w. CASE Web \/ Sweep \/ \E l \in Layouts : Relayout(l)
  BY <1>0, <1>t, <1>w, <1>1, <1>2, <1>3
     DEF Web, Sweep, WebSaves, WebCopies, WebCopied, WebLoads, WebMigrates,
     StartSweep, SweepBegins, SweepMeasures, SweepFails, SweepTakes,
     SweepAssigns, SweepResets, SweepFills, SweepPersists, SweepDone, Relayout,
     CallsPersist, Goto, syncs, FeedOK
<1>c. CASE Crash
  BY <1>t, <1>c, <1>1, <1>2, <1>3 DEF Crash, Started, FeedOK
<1>4. CASE Sync
  <2>1. ASSUME NEW x \in todo, SyncMerges(x)
        PROVE  (pc'["sync"] = "mirror" => item' \in Facts) /\ UNCHANGED seen
               /\ pc'["aim"] = pc["aim"]
    <3> DEFINE fact == <<x[1], x[2], heard[x[1]][x[2]].name>>
    <3>1. x \in Rows \X Hw
      BY <1>0, <1>f DEF FeedOK
    <3>2. heard[x[1]][x[2]].name \in Names \cup {None}
      BY <1>0, <3>1 DEF FeedOK, Heard
    <3>3. Named(fact[3]) => fact \in Facts
      BY <3>1, <3>2 DEF Facts, Named
    <3>4. \/ ~Named(fact[3]) /\ UNCHANGED pc
          \/ Named(fact[3]) /\ item' = fact /\ Goto("sync", "mirror")
      BY <2>1 DEF SyncMerges
    <3>5. pc["sync"] = "merge" /\ UNCHANGED seen
      BY <2>1 DEF SyncMerges
    <3> QED
      BY <1>0, <1>t, <3>3, <3>4, <3>5 DEF Goto
  <2>2. ASSUME ~\E x \in todo : SyncMerges(x)
        PROVE  /\ UNCHANGED seen /\ pc'["aim"] = pc["aim"]
               /\ pc'["sync"] = "mirror" => UNCHANGED item /\ pc["sync"] = "mirror"
    BY <1>0, <1>t, <1>4, <2>2
       DEF Sync, HearsName, HearsStereo, SyncDrains, SyncTakes, SyncMirrors,
       SyncPersists, CallsPersist, Goto, syncs
  <2> QED
    BY <1>0, <1>1, <1>2, <1>3, <2>1, <2>2 DEF FeedOK
<1>5. CASE Aim
  <2>1. ASSUME NEW r \in Rows, NEW n \in Names, AimConfirms(r, n)
        PROVE  FactIfThere(seen') /\ UNCHANGED item /\ pc'["sync"] = pc["sync"]
    <3>1. PICK h : seen' = <<r, h, Shows[layout][h]>>
      BY <2>1 DEF AimConfirms
    <3>2. UNCHANGED item /\ pc'["sync"] = pc["sync"]
      BY <1>0, <1>t, <2>1 DEF AimConfirms, Goto, syncs
    <3> QED
      BY <1>s, <3>1, <3>2 DEF FactIfThere, Facts
  <2>2. CASE AimMerges \/ AimPersists
    BY <1>0, <1>t, <1>1, <1>2, <1>3, <2>2
       DEF AimMerges, AimPersists, CallsPersist, Goto, syncs, FeedOK
  <2> QED
    BY <1>0, <1>1, <1>2, <1>3, <1>5, <2>1, <2>2 DEF FeedOK, Aim
<1>6. ASSUME NEW t \in Threads, Persist(t)
      PROVE  FeedOK'
  BY <1>0, <1>1, <1>2, <1>3, <1>6, <1>p DEF FeedOK
<1> QED
  BY <1>w, <1>c, <1>4, <1>5, <1>6 DEF Next

LEMMA SweepStep ==
  ASSUME TypeInv, Next
  PROVE  SweepOK'
<1>0. SweepOK /\ pc \in [Threads -> Spots] /\ layout \in Layouts
  BY DEF TypeInv, LockOK, EnvOK
<1>t. Threads = {"web", "sync", "aim", "sweep"}
  BY DEF Threads
<1>s. \A h \in Hw : Shows[layout][h] \in Names
  BY <1>0, MapAssumption
<1>j. NoJob \in Jobs
  BY EmptySeq DEF NoJob, Jobs
<1>1. found' \subseteq Facts
  <2>1. CASE SweepMeasures
    <3>1. job.rows[job.at] \in Rows
      BY <1>0, <2>1, ElementOfSeq, LenProperties DEF SweepMeasures, SweepOK, Jobs
    <3> QED
      BY <1>0, <1>s, <2>1, <3>1 DEF SweepMeasures, SweepOK, Facts
  <2>2. CASE UNCHANGED found \/ found' = {}
    BY <1>0, <2>2 DEF SweepOK
  <2> QED
    BY <2>1, <2>2
       DEF Next, Web, Sync, Aim, Sweep, Persist, WebSaves, WebCopies,
       WebCopied, WebLoads, WebMigrates, HearsName, HearsStereo, SyncDrains,
       SyncTakes, SyncMerges, SyncMirrors, SyncPersists, AimConfirms,
       AimMerges, AimPersists, StartSweep, SweepBegins, SweepFails, SweepTakes,
       SweepAssigns, SweepResets, SweepFills, SweepPersists, SweepDone,
       Relayout, Crash, Locks, Dumps, DumpRaises, WriteFails, Replaces, sweep,
       PersistFails, Started
<1>2. job' \in Jobs
  <2>1. ASSUME NEW rows \in Sweeps, NEW reset \in BOOLEAN, StartSweep(rows, reset)
        PROVE  job' \in Jobs
    BY <2>1, MapAssumption DEF StartSweep, Jobs
  <2>2. ASSUME ~\E rows \in Sweeps, reset \in BOOLEAN : StartSweep(rows, reset)
        PROVE  \/ job' = job \/ job' = NoJob
               \/ job' = [job EXCEPT !.at = @ + 1] \/ job' = [job EXCEPT !.at = 1]
    BY <2>2
       DEF Next, Web, Sync, Aim, Sweep, Persist, WebSaves, WebCopies,
       WebCopied, WebLoads, WebMigrates, HearsName, HearsStereo, SyncDrains,
       SyncTakes, SyncMerges, SyncMirrors, SyncPersists, AimConfirms,
       AimMerges, AimPersists, SweepBegins, SweepMeasures, SweepFails,
       SweepTakes, SweepAssigns, SweepResets, SweepFills, SweepPersists,
       SweepDone, Relayout, Crash, Locks, Dumps, DumpRaises, WriteFails,
       Replaces, sweep, PersistFails, Started
  <2>3. job \in Jobs
    BY <1>0 DEF SweepOK
  <2>4. \A n \in Nat : [job EXCEPT !.at = n] \in Jobs
    BY <2>3 DEF Jobs
  <2>5. job.at \in Nat
    BY <2>3 DEF Jobs
  <2>6. /\ [job EXCEPT !.at = @ + 1] \in Jobs
        /\ [job EXCEPT !.at = 1] \in Jobs
    BY <2>4, <2>5
  <2> QED
    BY <1>j, <2>1, <2>2, <2>3, <2>6
<1>3. /\ status' \in {"idle", "running", "done", "error"}
      /\ status' = "running" <=> pc'["sweep"] # "idle"
  <2>1. CASE Sweep
    BY <1>0, <1>t, <2>1
       DEF SweepOK, Sweep, StartSweep, SweepBegins, SweepMeasures, SweepFails,
       SweepTakes, SweepAssigns, SweepResets, SweepFills, SweepPersists,
       SweepDone, CallsPersist, Goto, sweep
  <2>2. ASSUME NEW t \in Threads, Persist(t)
        PROVE  /\ status' \in {"idle", "running", "done", "error"}
               /\ status' = "running" <=> pc'["sweep"] # "idle"
    BY <1>0, <1>t, <2>2
       DEF SweepOK, Persist, Locks, Dumps, DumpRaises, WriteFails, Replaces,
       PersistFails, AfterPersist, Goto, sweep
  <2>3. CASE Crash
    BY <1>t, <2>3 DEF Crash, Started
  <2>4. ASSUME ~Sweep, ~Crash, ~\E t \in Threads : Persist(t)
        PROVE  UNCHANGED status /\ pc'["sweep"] = pc["sweep"]
    BY <1>0, <1>t, <2>4
       DEF Next, Web, Sync, Aim, WebSaves, WebCopies, WebCopied, WebLoads,
       WebMigrates, HearsName, HearsStereo, SyncDrains, SyncTakes, SyncMerges,
       SyncMirrors, SyncPersists, AimConfirms, AimMerges, AimPersists, Relayout,
       CallsPersist, Goto, sweep
  <2> QED
    BY <1>0, <2>1, <2>2, <2>3, <2>4 DEF SweepOK
<1> QED
  BY <1>1, <1>2, <1>3 DEF SweepOK

LEMMA InitTypes ==
  ASSUME Init
  PROVE  TypeInv
<1>1. StoreOK
  <2>1. file \in Maps \cup {None, Torn}
    BY MapAssumption DEF Init
  <2>2. heap \in Seq(Maps) /\ map \in 0..Len(heap)
    BY EmptySeq DEF Init
  <2> QED
    BY <2>1, <2>2 DEF Init, StoreOK
<1>2. RefsOK
  BY EmptyFits, EmptySeq DEF Init, RefsOK
<1>3. LockOK
  BY MapAssumption DEF Init, LockOK, Spots
<1>4. StartOK
  BY DEF Init, StartOK, Threads
<1>5. FeedOK
  BY DEF Init, FeedOK, Heard, Threads
<1>6. SweepOK
  BY EmptySeq DEF Init, SweepOK, Jobs, NoJob, Threads
<1>7. EnvOK
  BY MapAssumption DEF Init, EnvOK
<1> QED
  BY <1>1, <1>2, <1>3, <1>4, <1>5, <1>6, <1>7 DEF TypeInv

LEMMA TypesStep ==
  ASSUME TypeInv, [Next]_vars
  PROVE  TypeInv'
<1>1. CASE Next
  BY <1>1, StoreStep, RefsStep, LockStep, StartStep, FeedStep, SweepStep, EnvStep
     DEF TypeInv
<1>2. CASE UNCHANGED vars
  BY <1>2 DEF TypeInv, StoreOK, RefsOK, LockOK, StartOK, FeedOK, SweepOK, EnvOK,
     vars, store, locks, feed, syncs, sweep, env
<1> QED
  BY <1>1, <1>2

LEMMA Types == Spec => []TypeInv
BY InitTypes, TypesStep, PTL DEF Spec

\* Every variable of channel_map.py, physical_table.py and the name sync keeps its
\* type; one thread at a time writes the file, and it is the one that has
\* _persist_lock; and the sweep counts as running exactly while its thread runs
\* (start_sweep refuses another only then).
THEOREM Typing == Spec => []TypeOK
<1>1. TypeInv => TypeOK
  BY InvTypes
<1> QED
  BY <1>1, Types, PTL

-----------------------------------------------------------------------------
(* The file is a whole map.                                                *)

\* What has gone wrong, has.
LEMMA Remembers ==
  ASSUME Next, NEW kinds, Without(kinds)'
  PROVE  Without(kinds)
<1>1. mishaps \subseteq mishaps'
  BY DEF Next, Web, Sync, Aim, Sweep, Persist, WebSaves, WebCopies, WebCopied,
     WebLoads, WebMigrates, HearsName, HearsStereo, SyncDrains, SyncTakes,
     SyncMerges, SyncMirrors, SyncPersists, AimConfirms, AimMerges,
     AimPersists, StartSweep, SweepBegins, SweepMeasures, SweepFails,
     SweepTakes, SweepAssigns, SweepResets, SweepFills, SweepPersists,
     SweepDone, Relayout, Crash, Locks, Dumps, DumpRaises, WriteFails,
     Replaces, PersistFails, Suffers
<1> QED
  BY <1>1 DEF Without

LEMMA NotTorn == \A v \in Maps : v # Torn /\ v # None
BY MapAssumption

LEMMA WholeStep ==
  ASSUME TypeInv, FileWhole, Next
  PROVE  FileWhole'
<1> SUFFICES ASSUME Without({"torn"})', file' = Torn
             PROVE  pc'["web"] = "copy"
  BY DEF FileWhole
<1>0. Without({"torn"}) /\ pc \in [Threads -> Spots]
  BY Remembers DEF TypeInv, LockOK
<1>t. Threads = {"web", "sync", "aim", "sweep"}
  BY DEF Threads
<1>1. CASE WebCopies
  BY <1>0, <1>1, <1>t DEF WebCopies, Goto
<1>2. CASE ~WebCopies
  <2>1. ~\E v \in Maps : file' = v
    BY NotTorn
  <2>2. ASSUME NEW v \in Maps
        PROVE  ~WebSaves(v)
    <3>1. [v EXCEPT !.save = saved + 1] \in Maps
      BY SavedAs DEF TypeInv, EnvOK
    <3> QED
      BY <2>1, <3>1 DEF WebSaves
  <2>3. up => The \in Maps
    BY TheFits DEF TypeInv, StartOK
  <2>4. \A t \in Threads : ~Replaces(t)
    BY <2>1 DEF Replaces, TypeInv, RefsOK
  <2>5. ~WebCopied
    <3>0. Example \in Maps /\ saved + 1 \in Nat
      BY MapAssumption DEF TypeInv, EnvOK
    <3>1. [Example EXCEPT !.save = saved + 1] \in Maps
      BY <3>0, SavedAs
    <3> QED
      BY <2>1, <3>1 DEF WebCopied
  <2>6. ~Crash
    <3>1. CASE Crash
      <4>1. UNCHANGED file /\ pc["web"] = "copy"
        BY <3>1, <1>0 DEF Crash, FileWhole
      <4>2. "torn" \in mishaps'
        BY <3>1, <4>1 DEF Crash, Suffers, If
      <4> QED
        BY <4>2 DEF Without
    <3> QED
      BY <3>1
  <2>7. Uploads \subseteq Maps
    BY MapAssumption
  <2>8. UNCHANGED file
    BY <1>2, <2>2, <2>3, <2>4, <2>5, <2>6, <2>7
       DEF Next, Web, Sync, Aim, Sweep, Persist, WebLoads, WebMigrates,
       HearsName, HearsStereo, SyncDrains, SyncTakes, SyncMerges, SyncMirrors,
       SyncPersists, AimConfirms, AimMerges, AimPersists, StartSweep,
       SweepBegins, SweepMeasures, SweepFails, SweepTakes, SweepAssigns,
       SweepResets, SweepFills, SweepPersists, SweepDone, Relayout, Locks,
       Dumps, DumpRaises, WriteFails, store, PersistFails
  <2>9. pc["web"] = "copy"
    BY <1>0, <2>8 DEF FileWhole
  <2>10. CASE Web
    BY <1>2, <2>2, <2>3, <2>5, <2>7, <2>9, <2>10 DEF Web, WebLoads, WebMigrates
  <2>11. CASE Sync
    BY <1>0, <1>t, <2>9, <2>11
       DEF Sync, HearsName, HearsStereo, SyncDrains, SyncTakes, SyncMerges,
       SyncMirrors, SyncPersists, CallsPersist, Goto
  <2>12. CASE Aim \/ \E l \in Layouts : Relayout(l)
    BY <1>0, <1>t, <2>9, <2>12
       DEF Aim, AimConfirms, AimMerges, AimPersists, Relayout, CallsPersist, Goto
  <2>13. CASE Sweep
    BY <1>0, <1>t, <2>9, <2>13
       DEF Sweep, StartSweep, SweepBegins, SweepMeasures, SweepFails, SweepTakes,
       SweepAssigns, SweepResets, SweepFills, SweepPersists, SweepDone,
       CallsPersist, Goto
  <2>14. ASSUME NEW t \in Threads, Persist(t)
         PROVE  pc'["web"] = "copy"
    BY <1>0, <1>t, <2>9, <2>14
       DEF Persist, Locks, Dumps, DumpRaises, WriteFails, Replaces, PersistFails,
       Goto
  <2> QED
    BY <2>6, <2>10, <2>11, <2>12, <2>13, <2>14 DEF Next
<1> QED
  BY <1>1, <1>2

\* A reader of the file, and the next start of the program, find a whole map,
\* wherever the threads and a crash come (_persist_channel_map_file and
\* _atomic_write_json write a temporary file and replace), except while the example
\* is copied.
THEOREM FileIsWhole == Spec => []FileWhole
<1>1. Init => FileWhole
  BY MapAssumption DEF Init, FileWhole
<1>2. TypeInv /\ FileWhole /\ [Next]_vars => FileWhole'
  <2>1. TypeInv /\ FileWhole /\ Next => FileWhole'
    BY WholeStep
  <2>2. FileWhole /\ UNCHANGED vars => FileWhole'
    BY DEF FileWhole, Without, vars, store
  <2> QED
    BY <2>1, <2>2
<1> QED
  BY <1>1, <1>2, Types, PTL DEF Spec

-----------------------------------------------------------------------------
(* A save stays.  Whoever is to write, writes a map of the save in use,    *)
(* because nobody holds a map while the web replaces it.                   *)

OneAtATime == up /\ Saving => ~Holding

InUse ==
  /\ map # 0 => The.save >= saved
  /\ file = None /\ map # 0 => The.save = Example.save

InFile ==
  /\ Readable => file.save >= saved
  /\ file = None => saved <= Example.save
  /\ Readable /\ pc["web"] \notin {"copy", "load"} => file.save = The.save

ToWrite ==
  /\ \A t \in Threads : pc[t] \in {"persist", "dump"} => heap[cm[t]].save = The.save
  /\ pc["sweep"] = "assign" => heap[cm["sweep"]].save = The.save

Writing ==
  \A t \in Threads : pc[t] \in {"dump", "replace"} => buf[t].save = The.save

SaveInv ==
  Without({"crossed", "torn"}) =>
    OneAtATime /\ InUse /\ InFile /\ ToWrite /\ Writing

\* While the maps are as many as they were, the one in use stems from the same save.
LEMMA SameUse ==
  ASSUME TypeInv, ToWrite, Next, ~WebLoads, ~Crash
  PROVE  /\ SameSaves
         /\ map = 0 <=> map' = 0
         /\ map # 0 => The'.save = The.save
<1>1. SameSaves
  BY HeapSteps
<1>2. CASE SweepAssigns
  <2>1. pc["sweep"] = "assign" /\ map' = cm["sweep"]
    BY <1>2 DEF SweepAssigns
  <2>2. cm["sweep"] # 0 /\ map # 0 /\ heap[cm["sweep"]].save = heap[map].save
    BY <2>1, AtWork DEF TypeInv, StartOK, ToWrite, Threads, The
  <2>3. heap \in Seq(Maps) /\ cm["sweep"] \in 0..Len(heap)
    BY DEF TypeInv, StoreOK, RefsOK, Threads
  <2>4. cm["sweep"] \in DOMAIN heap
    BY <2>2, <2>3, LenProperties
  <2> QED
    BY <1>1, <2>1, <2>2, <2>4 DEF SameSaves, The
<1>3. CASE UNCHANGED map
  <2>1. map # 0 => map \in DOMAIN heap
    BY TheFits DEF TypeInv
  <2> QED
    BY <1>1, <1>3, <2>1 DEF SameSaves, The
<1> QED
  BY <1>2, <1>3
     DEF Next, Web, Sync, Aim, Sweep, Persist, WebSaves, WebCopies, WebCopied,
     WebMigrates, HearsName, HearsStereo, SyncDrains, SyncTakes, SyncMerges,
     SyncMirrors, SyncPersists, AimConfirms, AimMerges, AimPersists,
     StartSweep, SweepBegins, SweepMeasures, SweepFails, SweepTakes,
     SweepResets, SweepFills, SweepPersists, SweepDone, Relayout, Locks, Dumps,
     DumpRaises, WriteFails, Replaces, store, PersistFails

\* A reference is taken while the web saves only by a crossing.
LEMMA OneAtATimeStep ==
  ASSUME TypeInv, OneAtATime, Next, Without({"crossed"})'
  PROVE  OneAtATime'
<1>0. pc \in [Threads -> Spots] /\ Threads = {"web", "sync", "aim", "sweep"}
  BY DEF TypeInv, LockOK, Threads
<1>c. ASSUME NEW kinds, Suffers(kinds)
      PROVE  "crossed" \notin kinds
  BY <1>c DEF Suffers, Without
<1>1. CASE Web
  <2>1. CASE \E v : up /\ WebSaves(v)
    BY <1>0, <1>c, <2>1 DEF WebSaves, Goto, OneAtATime, Saving, Holding, If
  <2>2. CASE WebCopies
    BY <1>0, <1>c, <2>2 DEF WebCopies, Goto, OneAtATime, Saving, Holding, If
  <2>3. CASE WebCopied
    BY <1>0, <1>c, <2>3 DEF WebCopied, Goto, OneAtATime, Saving, Holding, If
  <2>4. CASE WebLoads
    BY <1>0, <1>c, <2>4 DEF WebLoads, Goto, OneAtATime, Saving, Holding, If
  <2>5. CASE WebMigrates
    BY <1>0, <1>c, <2>5 DEF WebMigrates, Goto, OneAtATime, Saving, Holding, If
  <2> QED
    BY <1>1, <2>1, <2>2, <2>3, <2>4, <2>5 DEF Web
<1>2. CASE Sync
  BY <1>0, <1>c, <1>2
     DEF Sync, HearsName, HearsStereo, SyncDrains, SyncTakes, SyncMerges,
     SyncMirrors, SyncPersists, CallsPersist, Goto, OneAtATime, Saving, Holding,
     If, Takes
<1>3. CASE Aim
  BY <1>0, <1>c, <1>3
     DEF Aim, AimConfirms, AimMerges, AimPersists, CallsPersist, Goto,
     OneAtATime, Saving, Holding, If, Takes
<1>4. CASE Sweep
  <2>1. CASE \E rows, reset : StartSweep(rows, reset)
    BY <1>0, <1>c, <2>1 DEF StartSweep, Goto, OneAtATime, Saving, Holding, If,
       Takes
  <2>2. CASE SweepBegins
    BY <1>0, <1>c, <2>2 DEF SweepBegins, Goto, OneAtATime, Saving, Holding, If,
       Takes
  <2>3. CASE SweepMeasures
    BY <1>0, <1>c, <2>3 DEF SweepMeasures, Goto, OneAtATime, Saving, Holding, If,
       Takes
  <2>4. CASE SweepFails
    BY <1>0, <1>c, <2>4 DEF SweepFails, Goto, OneAtATime, Saving, Holding, If,
       Takes
  <2>5. CASE SweepTakes
    BY <1>0, <1>c, <2>5 DEF SweepTakes, Goto, OneAtATime, Saving, Holding, If,
       Takes
  <2>6. CASE SweepAssigns
    BY <1>0, <1>c, <2>6 DEF SweepAssigns, Goto, OneAtATime, Saving, Holding, If,
       Takes
  <2>7. CASE SweepResets
    BY <1>0, <1>c, <2>7 DEF SweepResets, Goto, OneAtATime, Saving, Holding, If,
       Takes
  <2>8. CASE SweepFills
    BY <1>0, <1>c, <2>8 DEF SweepFills, Goto, OneAtATime, Saving, Holding, If,
       Takes
  <2>9. CASE SweepPersists
    BY <1>0, <1>c, <2>9 DEF SweepPersists, CallsPersist, Goto, OneAtATime, Saving, Holding, If,
       Takes
  <2>10. CASE SweepDone
    BY <1>0, <1>c, <2>10 DEF SweepDone, Goto, OneAtATime, Saving, Holding, If,
       Takes
  <2> QED
    BY <1>4, <2>1, <2>2, <2>3, <2>4, <2>5, <2>6, <2>7, <2>8, <2>9, <2>10 DEF Sweep
<1>5. ASSUME NEW t \in Threads, Persist(t)
      PROVE  OneAtATime'
  <2>1. pc[t] \in {"persist", "dump", "replace"} /\ UNCHANGED up
    BY <1>5 DEF Persist, Locks, Dumps, DumpRaises, WriteFails, Replaces,
       PersistFails
  <2>2. \E p : Goto(t, p) /\ p \notin {"copy", "load"}
    <3>1. AfterPersist[t] \notin {"copy", "load"}
      BY <1>0, <1>5 DEF AfterPersist
    <3>2. \/ Goto(t, "dump") \/ Goto(t, "replace")
          \/ Goto(t, AfterPersist[t]) \/ Goto(t, "idle")
      BY <1>5 DEF Persist, Locks, Dumps, DumpRaises, WriteFails, Replaces,
         PersistFails
    <3> QED
      BY <3>1, <3>2
  <2>3. (Saving' => Saving) /\ (Holding' => Holding)
    BY <1>0, <1>5, <2>1, <2>2 DEF Goto, Saving, Holding
  <2> QED
    BY <2>1, <2>3 DEF OneAtATime
<1>6. CASE Crash
  BY <1>6 DEF Crash, Started, OneAtATime
<1>7. ASSUME NEW l \in Layouts, Relayout(l)
      PROVE  OneAtATime'
  BY <1>7 DEF Relayout, OneAtATime, Saving, Holding
<1> QED
  BY <1>1, <1>2, <1>3, <1>4, <1>5, <1>6, <1>7 DEF Next

LEMMA LoadsUse ==
  ASSUME TypeInv, FileWhole, Without({"torn"}), WebLoads
  PROVE  /\ map' # 0 /\ file # Torn
         /\ file = None => The'.save = Example.save
         /\ Readable => The'.save = file.save
<1>1. pc["web"] = "load"
  BY DEF WebLoads
<1>2. file # Torn
  BY <1>1 DEF FileWhole
<1>3. heap'[map'] = [Read EXCEPT !.phantom = FALSE] /\ Read \in Maps
  BY LoadHeap, ReadFits DEF TypeInv
<1>4. The'.save = Read.save
  BY <1>3 DEF The, Maps
<1>5. map' # 0
  BY LenProperties DEF WebLoads, TypeInv, StoreOK
<1>6. Example # Torn /\ None # Torn
  BY MapAssumption
<1> QED
  BY <1>2, <1>4, <1>5, <1>6 DEF Read, Readable

LEMMA InUseStep ==
  ASSUME TypeInv, FileWhole, SaveInv, Next, Without({"crossed", "torn"})'
  PROVE  InUse'
<1>0. /\ OneAtATime /\ InUse /\ InFile /\ ToWrite /\ Writing
      /\ Without({"torn"}) /\ saved \in Nat
  BY Remembers DEF SaveInv, Without, TypeInv, EnvOK
<1>1. CASE WebLoads
  <2>1. UNCHANGED <<file, saved>>
    BY <1>1 DEF WebLoads, env
  <2> QED
    BY <1>0, <1>1, <2>1, LoadsUse DEF InUse, InFile, Readable
<1>2. CASE Crash
  BY <1>2 DEF Crash, Started, InUse
<1>3. CASE ~WebLoads /\ ~Crash
  <2>1. /\ map = 0 <=> map' = 0
        /\ map # 0 => The'.save = The.save
    BY <1>0, <1>3, SameUse
  <2>2. map # 0 => The.save \in Nat
    BY TheFits, MapFits DEF TypeInv
  <2>3. saved' = saved \/ saved' = The.save
    BY DEF Next, Web, Sync, Aim, Sweep, Persist, WebSaves, WebCopies,
       WebCopied, WebLoads, WebMigrates, HearsName, HearsStereo, SyncDrains,
       SyncTakes, SyncMerges, SyncMirrors, SyncPersists, AimConfirms,
       AimMerges, AimPersists, StartSweep, SweepBegins, SweepMeasures,
       SweepFails, SweepTakes, SweepAssigns, SweepResets, SweepFills,
       SweepPersists, SweepDone, Relayout, Crash, Locks, Dumps, DumpRaises,
       WriteFails, Replaces, env, PersistFails
  <2>4. file' = None => file = None
    <3>1. \A v \in Maps : [v EXCEPT !.save = saved + 1] # None
      BY <1>0, SavedAs, NotTorn
    <3>2. up => The \in Maps
      BY TheFits DEF TypeInv, StartOK
    <3>3. Uploads \subseteq Maps /\ Example \in Maps /\ None # Torn
      BY MapAssumption
    <3>4. \A t \in Threads : buf[t] # None
      BY NotTorn DEF TypeInv, RefsOK
    <3>5. CASE UNCHANGED file
      BY <3>5
    <3>6. CASE Web
      BY <3>1, <3>2, <3>3, <3>6
         DEF Web, WebSaves, WebCopies, WebCopied, WebLoads, WebMigrates
    <3>7. ASSUME NEW t \in Threads, Replaces(t)
          PROVE  file' # None
      BY <3>4, <3>7 DEF Replaces
    <3> QED
      BY <1>3, <3>5, <3>6, <3>7
         DEF Next, Web, Sync, Aim, Sweep, Persist, HearsName, HearsStereo,
         SyncDrains, SyncTakes, SyncMerges, SyncMirrors, SyncPersists,
         AimConfirms, AimMerges, AimPersists, StartSweep, SweepBegins,
         SweepMeasures, SweepFails, SweepTakes, SweepAssigns, SweepResets,
         SweepFills, SweepPersists, SweepDone, Relayout, Crash, Locks, Dumps,
         DumpRaises, WriteFails, store, PersistFails
  <2> QED
    BY <1>0, <2>1, <2>2, <2>3, <2>4 DEF InUse
<1> QED
  BY <1>1, <1>2, <1>3

LEMMA InFileStep ==
  ASSUME TypeInv, FileWhole, SaveInv, Next, Without({"crossed", "torn"})'
  PROVE  InFile'
<1>0. /\ OneAtATime /\ InUse /\ InFile /\ ToWrite /\ Writing
      /\ Without({"torn"}) /\ saved \in Nat
  BY Remembers DEF SaveInv, Without, TypeInv, EnvOK
<1>p. pc \in [Threads -> Spots] /\ Threads = {"web", "sync", "aim", "sweep"}
  BY DEF TypeInv, LockOK, Threads
<1>1. CASE WebLoads
  <2>1. UNCHANGED <<file, saved>>
    BY <1>1 DEF WebLoads, env
  <2> QED
    BY <1>0, <1>1, <2>1, LoadsUse DEF InFile, Readable
<1>2. CASE Crash
  BY <1>0, <1>p, <1>2 DEF Crash, Started, InFile, Readable
<1>s. ~WebLoads /\ ~Crash /\ map # 0 => The'.save = The.save
  BY <1>0, SameUse
<1>n. \A v \in Maps : [v EXCEPT !.save = saved + 1] \in Maps
                      /\ [v EXCEPT !.save = saved + 1].save = saved + 1
  BY <1>0, SavedAs
<1>m. \A v \in Maps : v # None
  BY NotTorn
<1>3. ASSUME NEW v \in Maps, WebSaves(v)
      PROVE  InFile'
  BY <1>0, <1>p, <1>3, <1>n, <1>m DEF WebSaves, Goto, InFile, Readable
<1>4. CASE WebCopies
  BY <1>0, <1>4, MapAssumption DEF WebCopies, InFile, Readable
<1>5. CASE WebCopied
  <2>1. Example \in Maps
    BY MapAssumption
  <2> QED
    BY <1>0, <1>p, <1>5, <1>n, <1>m, <2>1 DEF WebCopied, Goto, env, InFile, Readable
<1>6. CASE WebMigrates
  <2>1. map # 0
    BY <1>6 DEF WebMigrates, TypeInv, StartOK
  <2>2. ~WebLoads /\ ~Crash
    BY <1>6 DEF WebMigrates, WebLoads, Crash, Started
  <2>3. The.save \in Nat
    BY <2>1, TheFits, MapFits DEF TypeInv
  <2> QED
    BY <1>0, <1>6, <1>s, <2>1, <2>2, <2>3
       DEF WebMigrates, InUse, InFile, Readable
<1>7. ASSUME NEW t \in Threads, Replaces(t)
      PROVE  InFile'
  <2>1. map # 0 /\ pc[t] = "replace"
    BY <1>7 DEF Replaces, TypeInv, StartOK
  <2>2. buf[t].save = The.save /\ buf[t] \in Maps
    BY <1>0, <2>1 DEF Writing, TypeInv, RefsOK
  <2>3. ~Crash
    BY <1>7, <2>1 DEF Replaces, Crash, Started
  <2> QED
    BY <1>0, <1>1, <1>m, <1>s, <1>7, <2>1, <2>2, <2>3
       DEF Replaces, env, InUse, InFile, Readable
<1>8. CASE /\ UNCHANGED <<file, saved>> /\ ~WebLoads /\ ~Crash
           /\ pc'["web"] \notin {"copy", "load"} => pc["web"] \notin {"copy", "load"}
  <2>1. Readable /\ pc["web"] \notin {"copy", "load"} => map # 0
    BY DEF TypeInv, StartOK
  <2> QED
    BY <1>0, <1>8, <1>s, <2>1 DEF InFile, Readable
<1>9. CASE Sync \/ Aim \/ \E l \in Layouts : Relayout(l)
  <2>1. /\ UNCHANGED <<file, saved>> /\ ~WebLoads
        /\ pc'["web"] = pc["web"]
    BY <1>p, <1>9
       DEF Sync, HearsName, HearsStereo, SyncDrains, SyncTakes, SyncMerges,
       SyncMirrors, SyncPersists, Aim, AimConfirms, AimMerges, AimPersists,
       Relayout, CallsPersist, Goto, store, env, WebLoads
  <2> QED
    BY <1>2, <1>8, <2>1
<1>10. CASE Sweep
  <2>1. /\ UNCHANGED <<file, saved>>
        /\ pc'["web"] = pc["web"]
    BY <1>p, <1>10
       DEF Sweep, StartSweep, SweepBegins, SweepMeasures, SweepFails, SweepTakes,
       SweepAssigns, SweepResets, SweepFills, SweepPersists, SweepDone,
       CallsPersist, Goto, store, env
  <2> QED
    BY <1>1, <1>2, <1>8, <2>1
<1>11. ASSUME NEW t \in Threads, Persist(t), ~Replaces(t)
       PROVE  InFile'
  <2>1. /\ UNCHANGED <<file, saved>>
        /\ pc'["web"] \notin {"copy", "load"} => pc["web"] \notin {"copy", "load"}
    BY <1>p, <1>11
       DEF Persist, Locks, Dumps, DumpRaises, WriteFails, PersistFails, Goto,
       store, env
  <2> QED
    BY <1>1, <1>2, <1>8, <2>1
<1>12. CASE Web
  <2>1. up => The \in Maps
    BY TheFits DEF TypeInv, StartOK
  <2>2. Uploads \subseteq Maps
    BY MapAssumption
  <2> QED
    BY <1>1, <1>3, <1>4, <1>5, <1>6, <1>12, <2>1, <2>2 DEF Web
<1> QED
  BY <1>2, <1>7, <1>9, <1>10, <1>11, <1>12 DEF Next

\* Who is about to write, has taken the map in use.
LEMMA ToWriteStep ==
  ASSUME TypeInv, SaveInv, Next, Without({"crossed", "torn"})'
  PROVE  ToWrite'
<1>0. OneAtATime /\ ToWrite
  BY Remembers DEF SaveInv
<1>p. pc \in [Threads -> Spots] /\ Threads = {"web", "sync", "aim", "sweep"}
  BY DEF TypeInv, LockOK, Threads
<1>c. cm \in [Threads -> 0..Len(heap)]
  BY DEF TypeInv, RefsOK
<1>1. CASE WebLoads
  <2>1. \A t \in Threads \ {"web"} : pc[t] \in {"idle", "table", "begin", "measure", "flag"}
    BY <1>0, <1>p, <1>1
       DEF WebLoads, OneAtATime, Saving, Holding, TypeInv, StartOK
  <2>2. \A t \in Threads \ {"web"} : pc'[t] = pc[t]
    BY <1>p, <1>1 DEF WebLoads, Goto
  <2>3. pc'["web"] \in {"persist", "migrate"} /\ (pc'["web"] = "persist" => cm'["web"] = map')
    BY <1>p, <1>c, <1>1 DEF WebLoads, Goto
  <2> QED
    BY <1>p, <2>1, <2>2, <2>3 DEF ToWrite, The
<1>2. CASE Crash
  BY <1>p, <1>2 DEF Crash, Started, ToWrite
<1>3. CASE ~WebLoads /\ ~Crash
  <2>1. /\ SameSaves
        /\ map # 0 => map \in DOMAIN heap /\ The'.save = The.save /\ map' # 0
    BY <1>0, <1>3, SameUse, TheFits DEF TypeInv
  <2>2. \A t \in Threads : pc[t] \in {"persist", "dump"} =>
          cm[t] \in DOMAIN heap /\ map # 0 /\ heap'[cm[t]].save = The.save
    BY <1>0, <2>1, Written, AtWork
       DEF ToWrite, SameSaves, TypeInv, StartOK
  <2>3. pc["sweep"] = "assign" => map # 0 /\ heap'[cm["sweep"]].save = The.save
    <3>1. SUFFICES ASSUME pc["sweep"] = "assign"
                   PROVE  map # 0 /\ heap'[cm["sweep"]].save = The.save
      OBVIOUS
    <3>2. map # 0 /\ cm["sweep"] # 0 /\ heap[cm["sweep"]].save = The.save
      BY <1>0, <1>p, <3>1, AtWork DEF TypeInv, StartOK, ToWrite
    <3>3. cm["sweep"] \in DOMAIN heap
      BY <1>c, <1>p, <3>2, LenProperties DEF TypeInv, StoreOK
    <3> QED
      BY <2>1, <3>2, <3>3 DEF SameSaves
  <2>4. map # 0 => heap'[map].save = The.save
    BY <2>1 DEF SameSaves, The
  <2>5. \A t \in Threads : pc'[t] \in {"persist", "dump"} =>
          \/ cm'[t] = cm[t] /\ pc[t] \in {"persist", "dump"}
          \/ cm'[t] = map /\ map # 0
    <3>1. CASE Web
      BY <1>3, <1>p, <3>1
         DEF Web, WebSaves, WebCopies, WebCopied, WebMigrates, Goto, locks
    <3>2. CASE Sync
      <4>1. pc["sync"] # "idle" => map # 0
        BY <1>p, AtWork
      <4>2. CASE \/ SyncDrains \/ SyncTakes
                 \/ \E x \in Fed : HearsName(x[1], x[2]) \/ HearsStereo(x[1], x[2])
        BY <1>p, <3>2, <4>2
           DEF HearsName, HearsStereo, SyncDrains, SyncTakes, Goto, locks
      <4>3. CASE \/ SyncMirrors \/ SyncPersists
                 \/ \E x \in todo : SyncMerges(x)
        BY <1>c, <1>p, <4>1, <4>3
           DEF SyncMerges, SyncMirrors, SyncPersists, CallsPersist, Goto, locks
      <4> QED
        BY <3>2, <4>2, <4>3 DEF Sync
    <3>3. CASE Aim \/ \E l \in Layouts : Relayout(l)
      <4>1. pc["aim"] # "idle" => map # 0
        BY <1>p, AtWork
      <4> QED
        BY <1>c, <1>p, <3>3, <4>1
           DEF Aim, AimConfirms, AimMerges, AimPersists, Relayout, CallsPersist,
           Goto, locks
    <3>4. CASE Sweep
      <4>1. pc["sweep"] # "idle" => map # 0
        BY <1>p, AtWork
      <4> QED
        BY <1>c, <1>p, <3>4, <4>1
           DEF Sweep, StartSweep, SweepBegins, SweepMeasures, SweepFails,
           SweepTakes, SweepAssigns, SweepResets, SweepFills, SweepPersists,
           SweepDone, CallsPersist, Goto, locks
    <3>5. ASSUME NEW u \in Threads, Persist(u)
          PROVE  \A t \in Threads : pc'[t] \in {"persist", "dump"} =>
                   cm'[t] = cm[t] /\ pc[t] \in {"persist", "dump"}
      <4>1. CASE Locks(u) \/ Dumps(u)
        <5>1. /\ UNCHANGED cm
              /\ \/ Goto(u, "dump") /\ pc[u] = "persist"
                 \/ Goto(u, "replace")
          BY <4>1 DEF Locks, Dumps
        <5> QED
          BY <1>p, <3>5, <5>1 DEF Goto
      <4>2. CASE DumpRaises(u) \/ WriteFails(u) \/ Replaces(u)
        <5>1. AfterPersist[u] \notin {"persist", "dump"}
          BY <1>p, <3>5 DEF AfterPersist
        <5>2. /\ cm' = [cm EXCEPT ![u] = 0]
              /\ \E p : Goto(u, p) /\ p \notin {"persist", "dump"}
          BY <4>2, <5>1
             DEF DumpRaises, WriteFails, Replaces, PersistFails, Released
        <5> QED
          BY <1>c, <1>p, <3>5, <5>2 DEF Goto
      <4> QED
        BY <3>5, <4>1, <4>2 DEF Persist
    <3> QED
      BY <1>3, <3>1, <3>2, <3>3, <3>4, <3>5 DEF Next
  <2>6. pc'["sweep"] = "assign" =>
          \/ cm'["sweep"] = cm["sweep"] /\ pc["sweep"] = "assign"
          \/ cm'["sweep"] = map /\ map # 0
    <3>1. CASE Sweep
      <4>1. pc["sweep"] # "idle" => map # 0
        BY <1>p, AtWork
      <4> QED
        BY <1>c, <1>p, <3>1, <4>1
           DEF Sweep, StartSweep, SweepBegins, SweepMeasures, SweepFails,
           SweepTakes, SweepAssigns, SweepResets, SweepFills, SweepPersists,
           SweepDone, CallsPersist, Goto, locks
    <3>2. CASE Web \/ Sync \/ Aim \/ \E l \in Layouts : Relayout(l)
      BY <1>3, <1>c, <1>p, <3>2
         DEF Web, WebSaves, WebCopies, WebCopied, WebMigrates, Sync, HearsName,
         HearsStereo, SyncDrains, SyncTakes, SyncMerges, SyncMirrors, SyncPersists,
         Aim, AimConfirms, AimMerges, AimPersists, Relayout, CallsPersist, Goto,
         locks
    <3>3. ASSUME NEW u \in Threads, Persist(u)
          PROVE  pc'["sweep"] = "assign" =>
                   cm'["sweep"] = cm["sweep"] /\ pc["sweep"] = "assign"
      <4>1. AfterPersist[u] # "assign"
        BY <1>p, <3>3 DEF AfterPersist
      <4>2. /\ UNCHANGED cm \/ cm' = [cm EXCEPT ![u] = 0]
            /\ \E p : Goto(u, p) /\ p # "assign"
        BY <3>3, <4>1
           DEF Persist, Locks, Dumps, DumpRaises, WriteFails, Replaces,
           PersistFails, Released
      <4> QED
        BY <1>c, <1>p, <3>3, <4>2 DEF Goto
    <3> QED
      BY <1>3, <3>1, <3>2, <3>3 DEF Next
  <2> QED
    BY <1>p, <2>1, <2>2, <2>3, <2>4, <2>5, <2>6 DEF ToWrite
<1> QED
  BY <1>1, <1>2, <1>3

LEMMA WritingStep ==
  ASSUME TypeInv, SaveInv, Next, Without({"crossed", "torn"})'
  PROVE  Writing'
<1>0. OneAtATime /\ ToWrite /\ Writing
  BY Remembers DEF SaveInv
<1>p. pc \in [Threads -> Spots] /\ Threads = {"web", "sync", "aim", "sweep"}
  BY DEF TypeInv, LockOK, Threads
<1>b. buf \in [Threads -> Maps]
  BY DEF TypeInv, RefsOK
<1>1. CASE WebLoads
  <2>1. \A t \in Threads \ {"web"} : pc[t] \in {"idle", "table", "begin", "measure", "flag"}
    BY <1>0, <1>p, <1>1
       DEF WebLoads, OneAtATime, Saving, Holding, TypeInv, StartOK
  <2>2. \A t \in Threads \ {"web"} : pc'[t] = pc[t]
    BY <1>p, <1>1 DEF WebLoads, Goto
  <2>3. pc'["web"] \in {"persist", "migrate"}
    BY <1>p, <1>1 DEF WebLoads, Goto
  <2> QED
    BY <1>p, <2>1, <2>2, <2>3 DEF Writing
<1>2. CASE Crash
  BY <1>p, <1>2 DEF Crash, Started, Writing
<1>3. CASE ~WebLoads /\ ~Crash
  <2>1. map # 0 => The'.save = The.save
    BY <1>0, <1>3, SameUse
  <2>2. \A t \in Threads : pc[t] \in {"persist", "dump", "replace"} => map # 0
    BY DEF TypeInv, StartOK
  <2>3. ASSUME NEW t \in Threads, Locks(t)
        PROVE  Writing'
    <3>1. /\ pc[t] = "persist" /\ Goto(t, "dump")
          /\ buf' = [buf EXCEPT ![t] = heap[cm[t]]]
      BY <2>3 DEF Locks
    <3>2. heap[cm[t]].save = The.save
      BY <1>0, <3>1 DEF ToWrite
    <3> QED
      BY <1>0, <1>b, <1>p, <2>1, <2>2, <3>1, <3>2 DEF Writing, Goto
  <2>4. ASSUME NEW t \in Threads, Dumps(t)
        PROVE  Writing'
    <3>1. pc[t] = "dump" /\ Goto(t, "replace")
      BY <2>4 DEF Dumps
    <3>2. PICK source, facts : buf' = [buf EXCEPT ![t].source = source,
                                                  ![t].facts = facts]
      BY <2>4 DEF Dumps
    <3>3. buf' = [buf EXCEPT ![t] = [buf[t] EXCEPT !.source = source, !.facts = facts]]
      BY <1>b, <3>2
    <3>4. [buf[t] EXCEPT !.source = source, !.facts = facts].save = buf[t].save
      BY <1>b DEF Maps
    <3>5. /\ buf'[t].save = buf[t].save
          /\ \A u \in Threads \ {t} : buf'[u] = buf[u] /\ pc'[u] = pc[u]
      BY <1>b, <1>p, <3>1, <3>3, <3>4 DEF Goto
    <3> QED
      BY <1>0, <1>p, <2>1, <2>2, <3>1, <3>5 DEF Writing
  <2>5. ASSUME NEW t \in Threads, DumpRaises(t) \/ WriteFails(t) \/ Replaces(t)
        PROVE  Writing'
    <3>1. AfterPersist[t] \notin {"dump", "replace"}
      BY <1>p, <2>5 DEF AfterPersist
    <3>2. /\ buf' = [buf EXCEPT ![t] = EmptyMap]
          /\ \E p : Goto(t, p) /\ p \notin {"dump", "replace"}
      BY <2>5, <3>1
         DEF DumpRaises, WriteFails, Replaces, PersistFails, Released
    <3> QED
      BY <1>0, <1>b, <1>p, <2>1, <2>2, <2>5, <3>2 DEF Writing, Goto
  <2>6. CASE /\ UNCHANGED buf
             /\ \A t \in Threads : pc'[t] \in {"dump", "replace"} <=>
                                   pc[t] \in {"dump", "replace"}
    BY <1>0, <2>1, <2>2, <2>6 DEF Writing
  <2>7. ASSUME ~\E t \in Threads : Persist(t)
        PROVE  UNCHANGED <<buf, lock>>
    BY <1>3, <2>7
       DEF Next, Web, Sync, Aim, Sweep, Persist, WebSaves, WebCopies,
       WebCopied, WebMigrates, HearsName, HearsStereo, SyncDrains, SyncTakes,
       SyncMerges, SyncMirrors, SyncPersists, AimConfirms, AimMerges,
       AimPersists, StartSweep, SweepBegins, SweepMeasures, SweepFails,
       SweepTakes, SweepAssigns, SweepResets, SweepFills, SweepPersists,
       SweepDone, Relayout, locks, CallsPersist
  <2>8. \A t \in Threads : lock = t <=> pc[t] \in {"dump", "replace"}
    BY DEF TypeInv, LockOK
  <2>9. \A t \in Threads : lock' = t <=> pc'[t] \in {"dump", "replace"}
    BY LockStep DEF LockOK
  <2> QED
    BY <2>3, <2>4, <2>5, <2>6, <2>7, <2>8, <2>9 DEF Persist
<1> QED
  BY <1>1, <1>2, <1>3

LEMMA SaveStep ==
  ASSUME TypeInv, FileWhole, SaveInv, Next
  PROVE  SaveInv'
<1> SUFFICES ASSUME Without({"crossed", "torn"})'
             PROVE  (OneAtATime /\ InUse /\ InFile /\ ToWrite /\ Writing)'
  BY DEF SaveInv
<1>1. Without({"crossed"})' /\ OneAtATime
  BY Remembers DEF Without, SaveInv
<1> QED
  BY <1>1, OneAtATimeStep, InUseStep, InFileStep, ToWriteStep, WritingStep

\* A map that was saved, uploaded or copied from the example, and answered for with
\* success, is the one in use and in the file until the next: neither the name sync
\* nor a confirmed aim nor the sweep writes back the map it replaced
\* (_persist_channel_map_file of a map that is taken again), as long as no save
\* comes between such a thread's taking the map and its use, and no crash while
\* the example is copied.
THEOREM SavesKept == Spec => []SavedIsKept
<1>1. Init => SaveInv
  <2>1. \A v \in Maps : v.save >= 0
    BY DEF Maps
  <2>2. Files \subseteq Maps \cup {None} /\ Example \in Maps
    BY MapAssumption
  <2> SUFFICES ASSUME Init
               PROVE  OneAtATime /\ InUse /\ InFile /\ ToWrite /\ Writing
    BY DEF SaveInv
  <2>3. InFile
    BY <2>1, <2>2 DEF Init, InFile, Readable, Threads
  <2>4. OneAtATime /\ InUse
    BY DEF Init, OneAtATime, InUse
  <2>5. ToWrite /\ Writing
    BY DEF Init, ToWrite, Writing, Threads
  <2> QED
    BY <2>3, <2>4, <2>5
<1>2. TypeInv /\ FileWhole /\ SaveInv /\ [Next]_vars => SaveInv'
  <2>1. TypeInv /\ FileWhole /\ SaveInv /\ Next => SaveInv'
    BY SaveStep
  <2>2. SaveInv /\ UNCHANGED vars => SaveInv'
    BY DEF SaveInv, OneAtATime, InUse, InFile, ToWrite, Writing, Without, Saving,
       Holding, Readable, The, vars, store, locks, env
  <2> QED
    BY <2>1, <2>2
<1>3. TypeInv /\ SaveInv => SavedIsKept
  BY DEF TypeInv, StartOK, SaveInv, InUse, InFile, SavedIsKept
<1> QED
  BY <1>1, <1>2, <1>3, Types, FileIsWhole, PTL DEF Spec

-----------------------------------------------------------------------------
(* What a step does to a map.                                              *)

\* There is nothing left to migrate.
Settled(v) == v.table \/ FromLegacy(v.walks) = {}

LEMMA MigratedIs ==
  ASSUME NEW v \in Maps
  PROVE  /\ Settled(v) => Migrated(v) = v
         /\ ~Settled(v) => /\ Migrated(v).table
                           /\ Migrated(v).facts = FromLegacy(v.walks)
         /\ Migrated(v) \in Maps
         /\ Settled(Migrated(v))
         /\ Migrated(v).walks = v.walks /\ Migrated(v).save = v.save
         /\ Migrated(v).legacy = v.legacy
         /\ v.table => Migrated(v).table
<1>1. Settled(v) => Migrated(v) = v
  BY DEF Settled, Migrated
<1>2. ASSUME ~Settled(v)
      PROVE  /\ Migrated(v).table
             /\ Migrated(v).facts = FromLegacy(v.walks)
             /\ Migrated(v).walks = v.walks /\ Migrated(v).save = v.save
             /\ Migrated(v).legacy = v.legacy
  BY <1>2 DEF Settled, Migrated, Maps
<1>3. Migrated(v) \in Maps
  BY LegacyFits
<1> QED
  BY <1>1, <1>2, <1>3 DEF Settled

\* One of the maps becomes another.
LEMMA HeapAt ==
  ASSUME NEW h \in Seq(Maps), NEW i, NEW v
  PROVE  LET g == [h EXCEPT ![i] = v]
         IN  /\ DOMAIN g = DOMAIN h
             /\ \A j \in DOMAIN h : g[j] = IF j = i THEN v ELSE h[j]
OBVIOUS

LEMMA HeapMaps ==
  ASSUME TypeInv
  PROVE  /\ heap \in Seq(Maps)
         /\ \A j \in DOMAIN heap : heap[j] \in Maps
         /\ map # 0 => map \in DOMAIN heap /\ The \in Maps
BY LenProperties, ElementOfSeq, TheFits DEF TypeInv, StoreOK

\* The map v with the facts x.
Knows(v, x) == [v EXCEPT !.facts = x]

LEMMA KnowsFields ==
  ASSUME NEW v \in Maps, NEW x
  PROVE  /\ Knows(v, x).facts = x /\ Knows(v, x).walks = v.walks
         /\ Knows(v, x).table = v.table /\ Knows(v, x).source = v.source
         /\ Knows(v, x).save = v.save /\ Knows(v, x).legacy = v.legacy
BY DEF Knows, Maps

\* The ways in which a step changes the map j.
Migrates(j) == WebMigrates /\ j = map /\ heap'[j] = Migrated(heap[j])

GetsTable(j) ==
  /\ (SweepBegins /\ j = map) \/ (SweepAssigns /\ j = cm["sweep"])
  /\ heap'[j] = [heap[j] EXCEPT !.table = TRUE]

HeardFact(x) == <<x[1], x[2], heard[x[1]][x[2]].name>>

LearnsName(j) ==
  \E x \in todo :
    /\ SyncMerges(x) /\ j = obj["sync"] /\ Named(HeardFact(x)[3])
    /\ heap'[j] = Knows(heap[j], heap[j].facts \cup {HeardFact(x)})

Mirrored == Taught({<<item[1], item[2] + 1, item[3]>>})

LearnsPair(j) ==
  /\ SyncMirrors /\ j = obj["sync"]
  /\ heap'[j] = Knows(heap[j], heap[j].facts \cup Mirrored)

LearnsAim(j) ==
  /\ AimMerges /\ j = obj["aim"]
  /\ heap'[j] = Knows(heap[j], heap[j].facts \cup Taught({seen}))

Row == job.rows[job.at]

\* What a row that is filled has for its source.
Measure == [kind |-> "sweep", read |-> RowOf(found, Row)]

LosesRow(j) ==
  /\ SweepResets /\ j = obj["sweep"]
  /\ heap'[j] = Knows(heap[j], heap[j].facts \ RowOf(heap[j].facts, Row))

GetsRow(j) ==
  /\ SweepFills /\ j = obj["sweep"]
  /\ heap'[j] = [Knows(heap[j], heap[j].facts \cup RowOf(Taught(found), Row))
                   EXCEPT !.source[Row] = Measure]

Pruned(j) ==
  /\ SweepPersists /\ j = map /\ AllMeasured(heap[obj["sweep"]])
  /\ heap'[j] = [heap[j] EXCEPT !.legacy = "pruned"]

LEMMA MapSteps ==
  ASSUME TypeInv, Next, ~WebLoads, ~Crash
  PROVE  /\ DOMAIN heap' = DOMAIN heap
         /\ \A j \in DOMAIN heap :
              \/ heap'[j] = heap[j]
              \/ Migrates(j) \/ GetsTable(j) \/ LearnsName(j) \/ LearnsPair(j)
              \/ LearnsAim(j) \/ LosesRow(j) \/ GetsRow(j) \/ Pruned(j)
<1>0. heap \in Seq(Maps) /\ \A j \in DOMAIN heap : heap[j] \in Maps
  BY HeapMaps
<1>1. CASE WebMigrates
  <2>1. heap' = [heap EXCEPT ![map] = Migrated(heap[map])]
    BY <1>1 DEF WebMigrates
  <2> QED
    BY <1>0, <1>1, <2>1, HeapAt DEF Migrates
<1>2. ASSUME NEW x \in todo, SyncMerges(x)
      PROVE  /\ DOMAIN heap' = DOMAIN heap
             /\ \A j \in DOMAIN heap : heap'[j] = heap[j] \/ LearnsName(j)
  <2>1. x \in Rows \X Hw
    BY <1>2, MapAssumption DEF TypeInv, FeedOK
  <2>2. CASE ~Named(HeardFact(x)[3])
    BY <1>2, <2>2 DEF SyncMerges, HeardFact
  <2>3. CASE Named(HeardFact(x)[3])
    <3> DEFINE i == obj["sync"]
               v == Knows(heap[i], heap[i].facts \cup {HeardFact(x)})
    <3>1. Taught({HeardFact(x)}) = {HeardFact(x)}
      BY <2>1, <2>3 DEF HeardFact, Taught, Named
    <3>2. Merge(i, {HeardFact(x)})
      BY <1>2, <2>3 DEF SyncMerges, HeardFact
    <3>3. heap' = [heap EXCEPT ![i] = v]
      BY <3>1, <3>2 DEF Merge, Knows
    <3>4. \A j \in DOMAIN heap : heap'[j] = IF j = i THEN v ELSE heap[j]
      BY <1>0, <3>3, HeapAt
    <3>5. DOMAIN heap' = DOMAIN heap
      BY <1>0, <3>3
    <3> QED
      BY <1>2, <2>3, <3>4, <3>5 DEF LearnsName
  <2> QED
    BY <2>2, <2>3
<1>3. CASE SyncMirrors
  <2> DEFINE i == obj["sync"]
             v == Knows(heap[i], heap[i].facts \cup Mirrored)
  <2>1. heap' = heap \/ heap' = [heap EXCEPT ![i] = v]
    BY <1>3 DEF SyncMirrors, Merge, Taught, Knows, Mirrored
  <2> HIDE DEF v
  <2>2. \A j \in DOMAIN heap : heap'[j] = heap[j] \/ (j = i /\ heap'[j] = v)
    BY <1>0, <2>1, HeapAt
  <2>3. DOMAIN heap' = DOMAIN heap
    BY <1>0, <2>1
  <2> QED
    BY <1>3, <2>2, <2>3 DEF LearnsPair, v
<1>4. CASE AimMerges
  <2> DEFINE i == obj["aim"]
             v == Knows(heap[i], heap[i].facts \cup Taught({seen}))
  <2>1. heap' = [heap EXCEPT ![i] = v]
    BY <1>4 DEF AimMerges, Merge, Knows
  <2> HIDE DEF v
  <2>2. \A j \in DOMAIN heap : heap'[j] = heap[j] \/ (j = i /\ heap'[j] = v)
    BY <1>0, <2>1, HeapAt
  <2>3. DOMAIN heap' = DOMAIN heap
    BY <1>0, <2>1
  <2> QED
    BY <1>4, <2>2, <2>3 DEF LearnsAim, v
<1>5. CASE SweepBegins \/ SweepAssigns
  <2>1. PICK i : /\ heap' = [heap EXCEPT ![i] = [heap[i] EXCEPT !.table = TRUE]]
                 /\ (SweepBegins /\ i = map) \/ (SweepAssigns /\ i = cm["sweep"])
    BY <1>5 DEF SweepBegins, SweepAssigns
  <2> DEFINE v == [heap[i] EXCEPT !.table = TRUE]
  <2> HIDE DEF v
  <2>2. \A j \in DOMAIN heap : heap'[j] = heap[j] \/ (j = i /\ heap'[j] = v)
    BY <1>0, <2>1, HeapAt DEF v
  <2>3. DOMAIN heap' = DOMAIN heap
    BY <1>0, <2>1
  <2> QED
    BY <2>1, <2>2, <2>3 DEF GetsTable, v
<1>6. CASE SweepResets
  <2> DEFINE i == obj["sweep"]
             v == Knows(heap[i], heap[i].facts \ RowOf(heap[i].facts, Row))
  <2>1. heap' = [heap EXCEPT ![i] = v]
    BY <1>6 DEF SweepResets, Knows, Row
  <2> HIDE DEF v
  <2>2. \A j \in DOMAIN heap : heap'[j] = heap[j] \/ (j = i /\ heap'[j] = v)
    BY <1>0, <2>1, HeapAt
  <2>3. DOMAIN heap' = DOMAIN heap
    BY <1>0, <2>1
  <2> QED
    BY <1>6, <2>2, <2>3 DEF LosesRow, v
<1>7. CASE SweepFills
  <2> DEFINE i == obj["sweep"]
             u == Knows(heap[i], heap[i].facts \cup RowOf(Taught(found), Row))
             v == [u EXCEPT !.source[Row] = Measure]
  <2>1. heap' = [heap EXCEPT ![i].facts = @ \cup RowOf(Taught(found), Row),
                             ![i].source[Row] = Measure]
    BY <1>7 DEF SweepFills, Row, Measure
  <2>2. i \in DOMAIN heap => heap' = [heap EXCEPT ![i] = v]
    BY <2>1 DEF Knows
  <2>3. i \notin DOMAIN heap => heap' = heap
    <3>1. heap \in [1..Len(heap) -> Maps] /\ DOMAIN heap = 1..Len(heap)
      BY <1>0, LenProperties
    <3> QED
      BY <2>1, <3>1
  <2> HIDE DEF v
  <2>4. \A j \in DOMAIN heap : heap'[j] = heap[j] \/ (j = i /\ heap'[j] = v)
    BY <1>0, <2>2, <2>3, HeapAt
  <2>5. DOMAIN heap' = DOMAIN heap
    BY <1>0, <2>2, <2>3
  <2> QED
    BY <1>7, <2>4, <2>5 DEF GetsRow, v
<1>8. CASE SweepPersists
  <2> DEFINE v == [heap[map] EXCEPT !.legacy = "pruned"]
  <2>1. \/ heap' = heap
        \/ AllMeasured(heap[obj["sweep"]]) /\ heap' = [heap EXCEPT ![map] = v]
    BY <1>8 DEF SweepPersists
  <2> HIDE DEF v
  <2>2. \A j \in DOMAIN heap :
          \/ heap'[j] = heap[j]
          \/ AllMeasured(heap[obj["sweep"]]) /\ j = map /\ heap'[j] = v
    BY <1>0, <2>1, HeapAt
  <2>3. DOMAIN heap' = DOMAIN heap
    BY <1>0, <2>1
  <2> QED
    BY <1>8, <2>2, <2>3 DEF Pruned, v
<1>9. CASE UNCHANGED heap
  BY <1>9
<1> QED
  BY <1>1, <1>2, <1>3, <1>4, <1>5, <1>6, <1>7, <1>8, <1>9
     DEF Next, Web, Sync, Aim, Sweep, Persist, WebSaves, WebCopies, WebCopied,
     HearsName, HearsStereo, SyncDrains, SyncTakes, SyncPersists, AimConfirms,
     AimPersists, StartSweep, SweepMeasures, SweepFails, SweepTakes, SweepDone,
     Relayout, Locks, Dumps, DumpRaises, WriteFails, Replaces, PersistFails,
     store

LEMMA SomeLowest ==
  ASSUME NEW s \in SUBSET Nat, s # {}
  PROVE  \E i \in s : \A j \in s : i <= j
<1> DEFINE R == OpToRel(<, Nat)
<1>1. IsWellFoundedOn(R, Nat)
  BY NatLessThanWellFounded
<1>2. \A i, j \in Nat : i < j => <<i, j>> \in R
  BY DEF OpToRel
<1> HIDE DEF R
<1>3. PICK i \in s : \A j \in s : <<j, i>> \notin R
  BY <1>1, WFMin
<1>4. ASSUME NEW j \in s
      PROVE  i <= j
  <2>1. i \in Nat /\ j \in Nat /\ ~(j < i)
    BY <1>2, <1>3
  <2> QED
    BY <2>1
<1> QED
  BY <1>4

\* What is of a thread, the steps of others leave alone.
Stays(t) ==
  /\ pc'[t] = pc[t] /\ obj'[t] = obj[t] /\ cm'[t] = cm[t] /\ buf'[t] = buf[t]

LEMMA Frame ==
  ASSUME TypeInv, Next, ~Crash
  PROVE  /\ Web \/ Persist("web") \/ Stays("web")
         /\ Sync \/ ((Persist("sync") \/ Stays("sync")) /\ UNCHANGED syncs)
         /\ Aim \/ ((Persist("aim") \/ Stays("aim")) /\ UNCHANGED seen)
         /\ Sweep \/ Persist("sweep") \/ (Stays("sweep") /\ UNCHANGED sweep)
<1>0. /\ pc \in [Threads -> Spots] /\ Threads = {"web", "sync", "aim", "sweep"}
      /\ obj \in [Threads -> 0..Len(heap)] /\ cm \in [Threads -> 0..Len(heap)]
      /\ buf \in [Threads -> Maps]
  BY DEF TypeInv, LockOK, RefsOK, Threads
<1>1. CASE Web
  BY <1>0, <1>1
     DEF Web, WebSaves, WebCopies, WebCopied, WebLoads, WebMigrates, Goto, Stays,
     locks, sweep, syncs
<1>2. CASE Sync
  <2>1. CASE \/ SyncDrains \/ SyncTakes
             \/ \E x \in Fed : HearsName(x[1], x[2]) \/ HearsStereo(x[1], x[2])
    BY <1>0, <1>2, <2>1
       DEF HearsName, HearsStereo, SyncDrains, SyncTakes, Goto, Stays, locks, sweep
  <2>2. CASE SyncMirrors \/ SyncPersists \/ \E x \in todo : SyncMerges(x)
    BY <1>0, <1>2, <2>2
       DEF SyncMerges, SyncMirrors, SyncPersists, CallsPersist, Goto, Stays, locks,
       sweep
  <2> QED
    BY <1>2, <2>1, <2>2 DEF Sync
<1>3. CASE Aim
  BY <1>0, <1>3
     DEF Aim, AimConfirms, AimMerges, AimPersists, CallsPersist, Goto, Stays,
     locks, sweep, syncs
<1>4. CASE Sweep
  BY <1>0, <1>4
     DEF Sweep, StartSweep, SweepBegins, SweepMeasures, SweepFails, SweepTakes,
     SweepAssigns, SweepResets, SweepFills, SweepPersists, SweepDone,
     CallsPersist, Goto, Stays, locks, syncs
<1>5. ASSUME NEW t \in Threads, Persist(t)
      PROVE  /\ \A u \in Threads : u # t => Stays(u)
             /\ UNCHANGED <<syncs, seen>>
             /\ t # "sweep" => UNCHANGED sweep
  BY <1>0, <1>5
     DEF Persist, Locks, Dumps, DumpRaises, WriteFails, Replaces, PersistFails,
     Released, Goto, Stays
<1>6. ASSUME NEW l \in Layouts, Relayout(l)
      PROVE  (\A u \in Threads : Stays(u)) /\ UNCHANGED <<syncs, seen, sweep>>
  BY <1>0, <1>6 DEF Relayout, Stays, locks
<1> QED
  BY <1>0, <1>1, <1>2, <1>3, <1>4, <1>5, <1>6 DEF Next

\* A map keeps its walks and its table, and what it knows unless it is migrated or
\* a row is swept anew.
LEMMA MapGrows ==
  ASSUME TypeInv, Next, ~Crash, NEW j \in DOMAIN heap
  PROVE  /\ j \in DOMAIN heap'
         /\ heap'[j].walks = heap[j].walks
         /\ heap[j].table => heap'[j].table
         /\ \/ heap[j].facts \subseteq heap'[j].facts
            \/ LosesRow(j)
            \/ Migrates(j) /\ ~Settled(heap[j])
<1> DEFINE v == heap[j]
<1>0. v \in Maps /\ StoreOK
  BY HeapMaps DEF TypeInv
<1>1. CASE WebLoads
  <2>1. /\ heap' \in Seq(Maps) /\ Len(heap') = Len(heap) + 1
        /\ heap'[j] = heap[j] /\ heap \in Seq(Maps)
    BY <1>0, <1>1, LoadHeap DEF StoreOK
  <2>2. DOMAIN heap' = 1..(Len(heap) + 1) /\ DOMAIN heap = 1..Len(heap)
        /\ Len(heap) \in Nat
    BY <2>1, LenProperties
  <2>3. j \in DOMAIN heap'
    BY <2>2
  <2> QED
    BY <2>1, <2>3
<1>2. CASE ~WebLoads
  <2>1. j \in DOMAIN heap'
    BY <1>2, MapSteps
  <2>2. CASE heap'[j] = v
    BY <2>1, <2>2
  <2>3. CASE Migrates(j)
    BY <1>0, <2>1, <2>3, MigratedIs DEF Migrates
  <2>4. CASE LearnsName(j) \/ LearnsPair(j) \/ LearnsAim(j) \/ LosesRow(j)
    <3>1. PICK x : /\ heap'[j] = Knows(v, x)
                   /\ v.facts \subseteq x \/ LosesRow(j)
      BY <2>4 DEF LearnsName, LearnsPair, LearnsAim, LosesRow
    <3> QED
      BY <1>0, <2>1, <3>1, KnowsFields
  <2>5. CASE GetsTable(j) \/ Pruned(j)
    BY <1>0, <2>1, <2>5 DEF GetsTable, Pruned, Maps
  <2>6. CASE GetsRow(j)
    BY <1>0, <2>1, <2>6 DEF GetsRow, Knows, Maps
  <2> QED
    BY <1>2, <2>2, <2>3, <2>4, <2>5, <2>6, MapSteps
<1> QED
  BY <1>1, <1>2

LEMMA MergeAdds ==
  ASSUME heap \in Seq(Maps), NEW i \in DOMAIN heap, NEW facts, Merge(i, facts)
  PROVE  heap'[i].facts = heap[i].facts \cup Taught(facts)
<1> DEFINE v == [heap[i] EXCEPT !.facts = heap[i].facts \cup Taught(facts)]
<1>1. heap[i] \in Maps
  BY LenProperties, ElementOfSeq
<1>2. heap'[i] = v
  BY HeapAt DEF Merge
<1> QED
  BY <1>1, <1>2 DEF Maps

\* What a mishap would have let happen, does not.
LEMMA Spared ==
  ASSUME NEW kinds, NEW kind \in kinds, NEW happens \in BOOLEAN,
         Suffers(If(kind, happens)), Without(kinds)'
  PROVE  ~happens
BY DEF Suffers, If, Without

-----------------------------------------------------------------------------
(* Aims.  A name is first found at a channel of its own: of a pair, the    *)
(* left member has learned a name before the right one does.               *)

Own(f) == f[2] \in f[3]

SoundMap(v) == Sound(v.facts) /\ (v.table \/ Sound(FromLegacy(v.walks)))

LEMMA SoundUnion ==
  ASSUME NEW a \in SUBSET Facts, NEW b \in SUBSET Facts,
         Sound(a), \A f \in b : Own(f)
  PROVE  Sound(a \cup b)
<1>1. \A f \in a \cup b : f[2] \in Nat
  BY MapAssumption DEF Facts, Hw
<1>2. \A f \in b : f[2] <= f[2]
  BY <1>1
<1> QED
  BY <1>2 DEF Sound, Own

LEMMA SoundRows ==
  ASSUME NEW a, NEW b, Sound(a), Sound(b), NEW rows
  PROVE  Sound({f \in a : f[1] \notin rows} \cup {f \in b : f[1] \in rows})
BY DEF Sound

LEMMA SoundWithout ==
  ASSUME NEW a, Sound(a), NEW r
  PROVE  Sound(a \ RowOf(a, r))
BY DEF Sound, RowOf

LEMMA SoundPair ==
  ASSUME NEW a \in SUBSET Facts, Sound(a), NEW g \in a, Own(g)
  PROVE  Sound(a \cup {<<g[1], g[2] + 1, g[3]>>})
<1> DEFINE f == <<g[1], g[2] + 1, g[3]>>
<1>1. g[2] \in Nat
  BY MapAssumption DEF Facts, Hw
<1>2. f[1] = g[1] /\ f[3] = g[3] /\ g[2] <= f[2]
  BY <1>1
<1> QED
  BY <1>2 DEF Sound, Own

LEMMA RecordsSound ==
  \A v \in (Files \ {None}) \cup Uploads \cup {Example} : SoundMap(v)
<1> SUFFICES ASSUME NEW v \in (Files \ {None}) \cup Uploads \cup {Example}
             PROVE  SoundMap(v)
  OBVIOUS
<1>1. v \in Maps
  BY MapAssumption
<1>2. Sound(v.facts) /\ Sound(Migrated(v).facts)
  BY RecordAssumption
<1>3. Sound({})
  BY DEF Sound
<1>4. CASE Settled(v)
  BY <1>2, <1>3, <1>4 DEF SoundMap, Settled
<1>5. CASE ~Settled(v)
  BY <1>1, <1>2, <1>5, MigratedIs DEF SoundMap
<1> QED
  BY <1>4, <1>5

LEMMA SoundEmpty == SoundMap(EmptyMap)
BY DEF SoundMap, EmptyMap, Sound, FromLegacy

LEMMA SoundMigrated ==
  ASSUME NEW v \in Maps, SoundMap(v)
  PROVE  SoundMap(Migrated(v))
BY MigratedIs DEF SoundMap, Settled

\* The fields that matter here are the same.
LEMMA SoundSame ==
  ASSUME NEW v \in Maps, SoundMap(v)
  PROVE  /\ \A n : SoundMap([v EXCEPT !.save = n])
         /\ SoundMap([v EXCEPT !.phantom = FALSE])
         /\ SoundMap([v EXCEPT !.legacy = "pruned"])
         /\ SoundMap([v EXCEPT !.table = TRUE])
         /\ \A x : Sound(x) => SoundMap(Knows(v, x))
         /\ \A x, s : Sound(x) => SoundMap([v EXCEPT !.source = s, !.facts = x])
BY DEF SoundMap, Maps, Knows

HeapSound == \A i \in DOMAIN heap : SoundMap(heap[i])

BufSound == \A t \in Threads : SoundMap(buf[t])

FileSound == Readable => SoundMap(file)

HeardSound ==
  /\ ~Swapped(layout)
  /\ \A r \in Rows, h \in Hw : Named(heard[r][h].name) => h \in heard[r][h].name

SeenSound ==
  /\ \A f \in Taught(found) : Own(f)
  /\ pc["aim"] = "merge" => Own(seen)

\* The left member has learned the name that the right one is about to learn.
ItemSound ==
  /\ pc["sync"] \in {"merge", "mirror"} =>
       obj["sync"] \in DOMAIN heap /\ heap[obj["sync"]].table
  /\ pc["sync"] = "mirror" =>
       Own(item) /\ item \in heap[obj["sync"]].facts

SoundInv ==
  Without({"reused", "wiped"}) =>
    HeapSound /\ BufSound /\ FileSound /\ HeardSound /\ SeenSound /\ ItemSound

LEMMA ReadSound ==
  ASSUME FileSound
  PROVE  SoundMap(Read)
<1>1. CASE file = None
  BY <1>1, RecordsSound, MapAssumption DEF Read
<1>2. CASE file = Torn
  BY <1>2, SoundEmpty, MapAssumption DEF Read
<1>3. CASE Readable
  BY <1>3 DEF Read, FileSound, Readable
<1> QED
  BY <1>1, <1>2, <1>3 DEF Readable

LEMMA HeapSoundStep ==
  ASSUME TypeInv, HeapSound, FileSound, HeardSound, SeenSound, ItemSound, Next
  PROVE  HeapSound'
<1>0. /\ heap \in Seq(Maps) /\ \A j \in DOMAIN heap : heap[j] \in Maps
      /\ StoreOK /\ found \in SUBSET Facts
  BY HeapMaps DEF TypeInv, SweepOK
<1>1. CASE Crash
  BY <1>1 DEF Crash, Started, HeapSound
<1>2. CASE WebLoads
  <2>1. SoundMap(Read) /\ Read \in Maps
    BY <1>0, ReadSound, ReadFits
  <2>2. SoundMap([Read EXCEPT !.phantom = FALSE])
    BY <2>1, SoundSame
  <2>3. /\ heap' \in Seq(Maps) /\ Len(heap') = Len(heap) + 1
        /\ map' = Len(heap')
        /\ \A i \in DOMAIN heap : heap'[i] = heap[i]
        /\ heap'[map'] = [Read EXCEPT !.phantom = FALSE]
    BY <1>0, <1>2, LoadHeap
  <2>4. DOMAIN heap' = 1..(Len(heap) + 1) /\ DOMAIN heap = 1..Len(heap)
        /\ Len(heap) \in Nat
    BY <1>0, <2>3, LenProperties
  <2>5. \A i \in DOMAIN heap' : i \in DOMAIN heap \/ i = map'
    BY <2>3, <2>4
  <2> QED
    BY <2>2, <2>3, <2>5 DEF HeapSound
<1>3. CASE ~Crash /\ ~WebLoads
  <2> SUFFICES ASSUME NEW j \in DOMAIN heap
               PROVE  SoundMap(heap'[j])
    BY <1>3, MapSteps DEF HeapSound
  <2> DEFINE v == heap[j]
  <2>0. v \in Maps /\ SoundMap(v) /\ v.facts \in SUBSET Facts /\ Sound(v.facts)
    BY <1>0, MapFits DEF HeapSound, SoundMap
  <2>1. CASE Migrates(j)
    BY <2>0, <2>1, SoundMigrated DEF Migrates
  <2>2. CASE GetsTable(j) \/ Pruned(j)
    BY <2>0, <2>2, SoundSame DEF GetsTable, Pruned
  <2>3. CASE LearnsName(j)
    <3>1. PICK x \in todo : /\ Named(HeardFact(x)[3])
                            /\ heap'[j] = Knows(v, v.facts \cup {HeardFact(x)})
      BY <2>3 DEF LearnsName
    <3>2. x \in Rows \X Hw
      BY MapAssumption DEF TypeInv, FeedOK
    <3>3. heard[x[1]][x[2]].name \in Names \cup {None}
      BY <3>2 DEF TypeInv, FeedOK, Heard
    <3>4. HeardFact(x) \in Facts /\ Own(HeardFact(x))
      BY <3>1, <3>2, <3>3 DEF HeardFact, Facts, Own, HeardSound, Named
    <3>5. Sound(v.facts \cup {HeardFact(x)})
      BY <2>0, <3>4, SoundUnion
    <3> QED
      BY <2>0, <3>1, <3>5, SoundSame
  <2>4. CASE LearnsPair(j)
    <3>1. /\ pc["sync"] = "mirror" /\ j = obj["sync"]
          /\ heap'[j] = Knows(v, v.facts \cup Mirrored)
      BY <2>4 DEF LearnsPair, SyncMirrors
    <3>2. item \in v.facts /\ Own(item)
      BY <3>1 DEF ItemSound
    <3>3. Sound(v.facts \cup {<<item[1], item[2] + 1, item[3]>>})
      BY <2>0, <3>2, SoundPair
    <3>4. Sound(v.facts \cup Mirrored)
      <4>1. \/ Mirrored = {} \/ Mirrored = {<<item[1], item[2] + 1, item[3]>>}
        BY DEF Mirrored, Taught
      <4> QED
        BY <2>0, <3>3, <4>1
    <3> QED
      BY <2>0, <3>1, <3>4, SoundSame
  <2>5. CASE LearnsAim(j)
    <3>1. /\ pc["aim"] = "merge"
          /\ heap'[j] = Knows(v, v.facts \cup Taught({seen}))
      BY <2>5 DEF LearnsAim, AimMerges
    <3>2. Own(seen) /\ FactIfThere(seen)
      BY <3>1 DEF SeenSound, TypeInv, FeedOK
    <3> DEFINE x == Taught({seen})
    <3>3. x \in SUBSET Facts /\ \A f \in x : Own(f)
      BY <3>2 DEF FactIfThere, Taught
    <3>4. Sound(v.facts \cup x)
      BY <2>0, <3>3, SoundUnion
    <3> QED
      BY <2>0, <3>1, <3>4, SoundSame
  <2>6. CASE LosesRow(j)
    <3>1. heap'[j] = Knows(v, v.facts \ RowOf(v.facts, Row))
      BY <2>6 DEF LosesRow
    <3>2. Sound(v.facts \ RowOf(v.facts, Row))
      BY <2>0, SoundWithout
    <3> QED
      BY <2>0, <3>1, <3>2, SoundSame
  <2>7. CASE GetsRow(j)
    <3> DEFINE x == v.facts \cup RowOf(Taught(found), Row)
    <3>1. heap'[j] = [Knows(v, x) EXCEPT !.source[Row] = Measure]
      BY <2>7 DEF GetsRow
    <3>2. Sound(x)
      <4>1. /\ RowOf(Taught(found), Row) \in SUBSET Facts
            /\ \A f \in RowOf(Taught(found), Row) : Own(f)
        BY <1>0 DEF RowOf, Taught, SeenSound
      <4> QED
        BY <2>0, <4>1, SoundUnion
    <3> HIDE DEF x
    <3>3. SoundMap(Knows(v, x))
      BY <2>0, <3>2, SoundSame
    <3>4. /\ heap'[j].facts = Knows(v, x).facts
          /\ heap'[j].table = Knows(v, x).table
          /\ heap'[j].walks = Knows(v, x).walks
      BY <2>0, <3>1 DEF Knows, Maps
    <3> QED
      BY <3>3, <3>4 DEF SoundMap
  <2>8. CASE heap'[j] = v
    BY <2>0, <2>8
  <2> QED
    BY <1>3, <2>1, <2>2, <2>3, <2>4, <2>5, <2>6, <2>7, <2>8, MapSteps
<1> QED
  BY <1>1, <1>2, <1>3

LEMMA BufSoundStep ==
  ASSUME TypeInv, HeapSound, BufSound, Next
  PROVE  BufSound'
<1>0. /\ buf \in [Threads -> Maps]
      /\ \A t \in Threads : SoundMap(buf[t])
  BY DEF TypeInv, RefsOK, BufSound
<1>1. ASSUME NEW t \in Threads, Locks(t)
      PROVE  BufSound'
  <2>1. SoundMap(heap[cm[t]])
    BY <1>1, Written DEF Locks, HeapSound
  <2> QED
    BY <1>0, <1>1, <2>1 DEF Locks, BufSound
<1>2. ASSUME NEW t \in Threads, Dumps(t)
      PROVE  BufSound'
  <2> DEFINE was == buf[t]
             is  == heap[cm[t]]
  <2>1. /\ is \in Maps /\ was \in Maps /\ SoundMap(is) /\ SoundMap(was)
    BY <1>0, <1>2, Written DEF Dumps, HeapSound
  <2>2. PICK new \in SUBSET Rows, source \in {was.source, is.source} :
          buf' = [buf EXCEPT ![t].source = source,
                             ![t].facts = {f \in was.facts : f[1] \notin new} \cup
                                          {f \in is.facts : f[1] \in new}]
    BY <1>2 DEF Dumps
  <2> DEFINE facts == {f \in was.facts : f[1] \notin new} \cup
                      {f \in is.facts : f[1] \in new}
             v == [was EXCEPT !.source = source, !.facts = facts]
  <2>3. buf' = [buf EXCEPT ![t] = v]
    BY <1>0, <2>2
  <2>4. Sound(facts)
    <3>1. Sound(was.facts) /\ Sound(is.facts)
      BY <2>1 DEF SoundMap
    <3> QED
      BY <3>1, SoundRows
  <2> HIDE DEF facts, is
  <2>5. SoundMap(v)
    BY <2>1, <2>4, SoundSame
  <2> HIDE DEF v
  <2> QED
    BY <1>0, <2>3, <2>5 DEF BufSound
<1>3. ASSUME NEW t \in Threads, Released(t)
      PROVE  BufSound'
  BY <1>0, <1>3, SoundEmpty DEF Released, BufSound
<1>4. CASE Crash
  BY <1>4, SoundEmpty DEF Crash, Started, BufSound
<1>5. CASE UNCHANGED buf
  BY <1>0, <1>5 DEF BufSound
<1> QED
  BY <1>1, <1>2, <1>3, <1>4, <1>5
     DEF Next, Web, Sync, Aim, Sweep, Persist, WebSaves, WebCopies, WebCopied,
     WebLoads, WebMigrates, HearsName, HearsStereo, SyncDrains, SyncTakes,
     SyncMerges, SyncMirrors, SyncPersists, AimConfirms, AimMerges,
     AimPersists, StartSweep, SweepBegins, SweepMeasures, SweepFails,
     SweepTakes, SweepAssigns, SweepResets, SweepFills, SweepPersists,
     SweepDone, Relayout, DumpRaises, WriteFails, Replaces, locks, PersistFails

\* What a step puts into the file.
LEMMA FileSteps ==
  ASSUME TypeInv, Next
  PROVE  \/ file' = file
         \/ /\ up /\ WebSaves(The) /\ map # 0
            /\ file' = [The EXCEPT !.save = saved + 1]
         \/ \E v \in Uploads :
              up /\ WebSaves(v) /\ file' = [v EXCEPT !.save = saved + 1]
         \/ WebCopies /\ file' = Torn
         \/ WebCopied /\ file = Torn /\ file' = [Example EXCEPT !.save = saved + 1]
         \/ \E t \in Threads : Replaces(t) /\ file' = buf[t]
<1>1. up => map # 0
  BY DEF TypeInv, StartOK
<1>2. CASE Web
  BY <1>1, <1>2 DEF Web, WebSaves, WebCopies, WebCopied, WebLoads, WebMigrates
<1>3. CASE Sync
  BY <1>3
     DEF Sync, HearsName, HearsStereo, SyncDrains, SyncTakes, SyncMerges,
     SyncMirrors, SyncPersists, store
<1>4. CASE Aim
  BY <1>4 DEF Aim, AimConfirms, AimMerges, AimPersists, store
<1>5. CASE Sweep
  BY <1>5
     DEF Sweep, StartSweep, SweepBegins, SweepMeasures, SweepFails, SweepTakes,
     SweepAssigns, SweepResets, SweepFills, SweepPersists, SweepDone, store
<1>6. ASSUME NEW t \in Threads, Persist(t)
      PROVE  file' = file \/ (Replaces(t) /\ file' = buf[t])
  BY <1>6
     DEF Persist, Locks, Dumps, DumpRaises, WriteFails, Replaces, PersistFails,
     store
<1>7. CASE Crash \/ \E l \in Layouts : Relayout(l)
  BY <1>7 DEF Crash, Relayout, store
<1> QED
  BY <1>2, <1>3, <1>4, <1>5, <1>6, <1>7 DEF Next

LEMMA FileSoundStep ==
  ASSUME TypeInv, HeapSound, BufSound, FileSound, Next
  PROVE  FileSound'
<1>0. Example \in Maps /\ Uploads \subseteq Maps /\ saved + 1 \in Nat
  BY MapAssumption DEF TypeInv, EnvOK
<1>1. CASE file' = file
  BY <1>1 DEF FileSound, Readable
<1>2. ASSUME map # 0, file' = [The EXCEPT !.save = saved + 1]
      PROVE  FileSound'
  <2>1. The \in Maps /\ SoundMap(The)
    BY <1>2, HeapMaps DEF HeapSound, The
  <2> QED
    BY <1>2, <2>1, SoundSame DEF FileSound
<1>3. ASSUME NEW v \in Uploads \cup {Example}, file' = [v EXCEPT !.save = saved + 1]
      PROVE  FileSound'
  BY <1>0, <1>3, SoundSame, RecordsSound DEF FileSound
<1>4. CASE file' = Torn
  BY <1>4 DEF FileSound, Readable
<1>5. ASSUME NEW t \in Threads, file' = buf[t]
      PROVE  FileSound'
  BY <1>5 DEF FileSound, BufSound
<1> QED
  BY <1>1, <1>2, <1>3, <1>4, <1>5, FileSteps

\* A name that moves to another channel is a mishap.
LEMMA HeardSoundStep ==
  ASSUME TypeInv, HeardSound, Next, Without({"reused", "wiped"})'
  PROVE  HeardSound'
<1>0. heard \in Heard /\ layout \in Layouts
  BY DEF TypeInv, FeedOK, EnvOK
<1>n. \A h \in Hw : Shows[layout][h] # NoName => h \in Shows[layout][h]
  BY DEF HeardSound, Swapped
<1>1. ASSUME NEW r \in Rows, NEW h \in Hw, HearsName(r, h)
      PROVE  HeardSound'
  BY <1>0, <1>1, <1>n DEF HearsName, HeardSound, Heard, Swapped, Named, env
<1>2. ASSUME NEW r \in Rows, NEW h \in Hw, HearsStereo(r, h)
      PROVE  HeardSound'
  BY <1>0, <1>2, <1>n DEF HearsStereo, HeardSound, Heard, Swapped, env
<1>3. ASSUME NEW l \in Layouts, Relayout(l)
      PROVE  HeardSound'
  <2>1. Suffers(If("reused", Swapped(l))) /\ Swapped(l) \in BOOLEAN
    BY <1>3 DEF Relayout, Swapped
  <2>2. ~Swapped(l)
    BY <2>1, Spared
  <2> QED
    BY <1>3, <2>2 DEF Relayout, HeardSound, Swapped, feed
<1>4. CASE Crash
  BY <1>4, <1>n DEF Crash, Started, HeardSound, Swapped, Named
<1>5. CASE UNCHANGED <<heard, layout>>
  BY <1>5 DEF HeardSound, Swapped
<1>6. Fed \subseteq Rows \X Hw
  BY MapAssumption
<1> QED
  BY <1>1, <1>2, <1>3, <1>4, <1>5, <1>6
     DEF Next, Web, Sync, Aim, Sweep, Persist, WebSaves, WebCopies, WebCopied,
     WebLoads, WebMigrates, SyncDrains, SyncTakes,
     SyncMerges, SyncMirrors, SyncPersists, AimConfirms, AimMerges,
     AimPersists, StartSweep, SweepBegins, SweepMeasures, SweepFails,
     SweepTakes, SweepAssigns, SweepResets, SweepFills, SweepPersists,
     SweepDone, Locks, Dumps, DumpRaises, WriteFails, Replaces, PersistFails,
     feed, env

LEMMA ResolveFinds ==
  ASSUME NEW facts \in SUBSET Facts, NEW r, NEW n, ResolveStart(facts, r, n) # None
  PROVE  LET h == ResolveStart(facts, r, n)
         IN  /\ h \in Hw /\ <<r, h, n>> \in facts
             /\ \A o \in Hw : <<r, o, n>> \in facts => h <= o
<1> DEFINE offsets == {h \in Hw : <<r, h, n>> \in facts}
<1>1. offsets # {} /\ offsets \in SUBSET Nat
  BY MapAssumption DEF ResolveStart, Hw
<1>2. \E h \in offsets : \A o \in offsets : h <= o
  BY <1>1, SomeLowest
<1> QED
  BY <1>1, <1>2 DEF ResolveStart

LEMMA SeenSoundStep ==
  ASSUME TypeInv, SeenSound, HeardSound, Next
  PROVE  SeenSound'
<1>0. pc \in [Threads -> Spots] /\ Threads = {"web", "sync", "aim", "sweep"}
  BY DEF TypeInv, LockOK, Threads
<1>n. \A h \in Hw : Shows[layout][h] # NoName => h \in Shows[layout][h]
  BY DEF HeardSound, Swapped
<1>1. \A f \in Taught(found') : Own(f)
  <2>1. CASE SweepMeasures
    <3>1. \A h \in Hw : Shows[layout][h] # NoName =>
                         Own(<<job.rows[job.at], h, Shows[layout][h]>>)
      BY <1>n DEF Own
    <3> QED
      BY <2>1, <3>1 DEF SweepMeasures, SeenSound, Taught
  <2>2. CASE found' = {} \/ found' = found
    BY <2>2 DEF SeenSound, Taught
  <2> QED
    BY <2>1, <2>2
       DEF Next, Web, Sync, Aim, Sweep, Persist, WebSaves, WebCopies, WebCopied,
       WebLoads, WebMigrates, HearsName, HearsStereo, SyncDrains, SyncTakes,
       SyncMerges, SyncMirrors, SyncPersists, AimConfirms, AimMerges,
       AimPersists, StartSweep, SweepBegins, SweepFails, SweepTakes,
       SweepAssigns, SweepResets, SweepFills, SweepPersists, SweepDone, Locks,
       Dumps, DumpRaises, WriteFails, Replaces, PersistFails, Relayout, Crash,
       Started, sweep
<1>2. pc'["aim"] = "merge" => Own(seen')
  <2>1. ASSUME NEW r \in Rows, NEW n \in Names, AimConfirms(r, n), up
        PROVE  Own(seen')
    <3> DEFINE h == ResolveStart(The.facts, r, n)
    <3>1. The.facts \in SUBSET Facts
      BY <2>1, HeapMaps, MapFits DEF TypeInv, StartOK
    <3>2. /\ h # None /\ seen' = <<r, h, Shows[layout][h]>>
          /\ Shows[layout][h] # NoName
      BY <2>1 DEF AimConfirms, NoName
    <3>3. h \in Hw
      BY <3>1, <3>2, ResolveFinds
    <3> QED
      BY <1>n, <3>2, <3>3 DEF Own
  <2>2. CASE AimMerges \/ AimPersists
    BY <1>0, <2>2 DEF AimMerges, AimPersists, CallsPersist, Goto
  <2>3. ASSUME UNCHANGED seen, pc'["aim"] = "merge" => pc["aim"] = "merge"
        PROVE  pc'["aim"] = "merge" => Own(seen')
    BY <2>3 DEF SeenSound
  <2>4. CASE Web \/ Sync
    BY <1>0, <2>3, <2>4
       DEF Web, Sync, WebSaves, WebCopies, WebCopied, WebLoads, WebMigrates,
       HearsName, HearsStereo, SyncDrains, SyncTakes, SyncMerges, SyncMirrors,
       SyncPersists, CallsPersist, Goto
  <2>5. CASE Sweep
    BY <1>0, <2>3, <2>5
       DEF Sweep, StartSweep, SweepBegins, SweepMeasures, SweepFails,
       SweepTakes, SweepAssigns, SweepResets, SweepFills, SweepPersists,
       SweepDone, CallsPersist, Goto
  <2>6. ASSUME NEW t \in Threads, Persist(t)
        PROVE  UNCHANGED seen /\ (pc'["aim"] = "merge" => pc["aim"] = "merge")
    <3>1. AfterPersist[t] # "merge"
      BY <1>0, <2>6 DEF AfterPersist
    <3> QED
      BY <1>0, <2>6, <3>1
         DEF Persist, Locks, Dumps, DumpRaises, WriteFails, Replaces,
         PersistFails, Goto
  <2>7. CASE Crash \/ \E l \in Layouts : Relayout(l)
    BY <2>3, <2>7, <1>0 DEF Crash, Started, Relayout
  <2> QED
    BY <2>1, <2>2, <2>3, <2>4, <2>5, <2>6, <2>7 DEF Next, Aim
<1> QED
  BY <1>1, <1>2 DEF SeenSound

LEMMA ItemSoundStep ==
  ASSUME TypeInv, ItemSound, HeardSound, Next, Without({"reused", "wiped"})'
  PROVE  ItemSound'
<1>0. /\ pc \in [Threads -> Spots] /\ Threads = {"web", "sync", "aim", "sweep"}
      /\ obj \in [Threads -> 0..Len(heap)]
  BY DEF TypeInv, LockOK, RefsOK, Threads
<1>1. CASE Crash
  BY <1>1 DEF Crash, Started, ItemSound, Threads
<1> DEFINE j == obj["sync"]
<1>2. ASSUME ~Crash, j \in DOMAIN heap, heap[j].table
      PROVE  /\ j \in DOMAIN heap' /\ heap'[j].table
             /\ pc["sync"] = "mirror" => heap[j].facts \subseteq heap'[j].facts
  <2>1. ASSUME LosesRow(j)
        PROVE  pc["sync"] # "mirror"
    <3>1. Suffers(If("wiped", ~(Known(Row) \subseteq found) \/ pc["sync"] = "mirror"))
      BY <2>1 DEF LosesRow, SweepResets, Row
    <3> QED
      BY <3>1, Spared
  <2>2. Settled(heap[j])
    BY <1>2 DEF Settled
  <2> QED
    BY <1>2, <2>1, <2>2, MapGrows
<1>3. CASE ~Crash /\ Sync
  <2>1. ASSUME NEW x \in Fed, HearsName(x[1], x[2]) \/ HearsStereo(x[1], x[2])
        PROVE  ItemSound'
    BY <1>2, <1>3, <2>1 DEF HearsName, HearsStereo, ItemSound, syncs
  <2>2. CASE SyncDrains
    BY <1>0, <2>2 DEF SyncDrains, Goto, ItemSound
  <2>3. CASE SyncTakes
    <3>1. map # 0
      BY <1>0, <2>3 DEF SyncTakes, TypeInv, StartOK
    <3>2. map \in DOMAIN heap
      BY <3>1, HeapMaps
    <3>3. CASE The.table
      BY <1>0, <2>3, <3>2, <3>3 DEF SyncTakes, Goto, ItemSound, The, store
    <3>4. CASE ~The.table
      BY <1>0, <2>3, <3>4 DEF SyncTakes, Goto, ItemSound
    <3> QED
      BY <3>3, <3>4
  <2>4. ASSUME NEW x \in todo, SyncMerges(x)
        PROVE  ItemSound'
    <3>1. j \in DOMAIN heap /\ heap[j].table /\ UNCHANGED obj
      BY <2>4 DEF SyncMerges, ItemSound
    <3>2. j \in DOMAIN heap' /\ heap'[j].table
      BY <1>2, <1>3, <3>1
    <3>3. CASE ~Named(HeardFact(x)[3])
      BY <2>4, <3>1, <3>2, <3>3 DEF SyncMerges, HeardFact, ItemSound
    <3>4. CASE Named(HeardFact(x)[3])
      <4>1. /\ Merge(j, {HeardFact(x)}) /\ item' = HeardFact(x)
            /\ pc'["sync"] = "mirror"
        BY <1>0, <2>4, <3>4 DEF SyncMerges, HeardFact, Goto
      <4>2. x \in Rows \X Hw
        BY MapAssumption DEF TypeInv, FeedOK
      <4>3. item'[2] \in Hw
        BY <4>1, <4>2 DEF HeardFact
      <4>n. item'[3] # NoName
        BY <3>4, <4>1 DEF HeardFact, Named
      <4>t. item' \in Taught({HeardFact(x)})
        BY <4>1, <4>3, <4>n DEF Taught
      <4>4. item' \in heap'[j].facts
        BY <3>1, <4>1, <4>t, MergeAdds, HeapMaps
      <4>5. Own(item)'
        BY <3>4, <4>1, <4>2 DEF HeardFact, Own, HeardSound
      <4> QED
        BY <3>1, <3>2, <4>1, <4>4, <4>5 DEF ItemSound
    <3> QED
      BY <3>3, <3>4
  <2>5. CASE SyncMirrors
    BY <1>0, <1>2, <1>3, <2>5 DEF SyncMirrors, Goto, ItemSound
  <2>6. CASE SyncPersists
    BY <1>0, <2>6 DEF SyncPersists, CallsPersist, Goto, ItemSound
  <2> QED
    BY <1>3, <2>1, <2>2, <2>3, <2>4, <2>5, <2>6 DEF Sync
<1>4. CASE Persist("sync")
  BY <1>0, <1>4
     DEF Persist, Locks, Dumps, DumpRaises, WriteFails, Replaces, PersistFails,
     Goto, AfterPersist, ItemSound
<1>5. CASE ~Crash /\ Stays("sync") /\ UNCHANGED syncs
  BY <1>2, <1>5 DEF Stays, ItemSound, syncs, Own
<1> QED
  BY <1>1, <1>3, <1>4, <1>5, Frame

LEMMA InitSound ==
  ASSUME Init
  PROVE  SoundInv
<1>1. FileSound
  BY RecordsSound DEF Init, FileSound, Readable
<1>2. BufSound
  BY SoundEmpty DEF Init, BufSound
<1>3. HeapSound /\ HeardSound /\ SeenSound /\ ItemSound
  BY DEF Init, HeapSound, HeardSound, SeenSound, ItemSound, Threads, Taught, Named
<1> QED
  BY <1>1, <1>2, <1>3 DEF SoundInv

LEMMA SoundStep ==
  ASSUME TypeInv, SoundInv, [Next]_vars
  PROVE  SoundInv'
<1>1. CASE Next
  <2> SUFFICES ASSUME Without({"reused", "wiped"})'
               PROVE  /\ HeapSound' /\ BufSound' /\ FileSound'
                      /\ HeardSound' /\ SeenSound' /\ ItemSound'
    BY DEF SoundInv
  <2>1. /\ HeapSound /\ BufSound /\ FileSound
        /\ HeardSound /\ SeenSound /\ ItemSound
    BY <1>1, Remembers DEF SoundInv
  <2> QED
    BY <1>1, <2>1, HeapSoundStep, BufSoundStep, FileSoundStep, HeardSoundStep,
       SeenSoundStep, ItemSoundStep
<1>2. CASE UNCHANGED vars
  BY <1>2
     DEF SoundInv, HeapSound, BufSound, FileSound, HeardSound, SeenSound,
     ItemSound, Without, Readable, Swapped, Own, vars, store, locks, feed, syncs,
     sweep, env
<1> QED
  BY <1>1, <1>2

LEMMA SoundAims ==
  ASSUME TypeInv, SoundInv
  PROVE  AimsRight
<1> SUFFICES ASSUME Without({"reused", "wiped"}), up, NEW r \in Rows,
                    NEW wanted \in Names,
                    ResolveStart(The.facts, r, wanted) # None,
                    Covers(The.facts, r, ResolveStart(The.facts, r, wanted), wanted,
                           Shows[layout][ResolveStart(The.facts, r, wanted)])
             PROVE  wanted \cap Shows[layout][ResolveStart(The.facts, r, wanted)] # {}
  BY DEF AimsRight
<1> DEFINE h == ResolveStart(The.facts, r, wanted)
<1>1. map \in DOMAIN heap /\ The.facts \in SUBSET Facts
  BY HeapMaps, MapFits DEF TypeInv, StartOK
<1>2. Sound(The.facts) /\ ~Swapped(layout)
  BY <1>1 DEF SoundInv, HeapSound, SoundMap, HeardSound, The
<1>3. /\ h \in Hw /\ <<r, h, wanted>> \in The.facts
      /\ \A o \in Hw : <<r, o, wanted>> \in The.facts => h <= o
  BY <1>1, ResolveFinds
<1> HIDE DEF h
<1>4. PICK g \in The.facts : g[1] = r /\ g[3] = wanted /\ g[2] <= h /\ g[2] \in g[3]
  BY <1>2, <1>3 DEF Sound
<1>5. g = <<r, g[2], wanted>> /\ g[2] \in Hw
  BY <1>1, <1>4 DEF Facts
<1>6. h <= g[2]
  BY <1>3, <1>4, <1>5
<1>7. h \in Int /\ g[2] \in Int
  BY <1>3, <1>5 DEF Hw
<1>8. g[2] = h
  BY <1>4, <1>6, <1>7
<1>c. <<r, h, Shows[layout][h]>> \in The.facts
  BY DEF Covers, h
<1>s. PICK k \in The.facts : k[3] = Shows[layout][h] /\ k[2] \in k[3]
  BY <1>2, <1>c DEF Sound
<1>9. h \in Shows[layout][h]
  BY <1>2, <1>3, <1>s DEF Swapped, NoName
<1> QED
  BY <1>4, <1>8, <1>9 DEF h

\* As long as no name has passed to another channel and no reset has wiped a row that
\* was renamed: where the table says a name is, _confirm_page2_aim accepts no strip
\* that shares no channel with it, for any rows, layouts, maps and interleaving of the
\* threads.  (Of what the aim records it says nothing.)
THEOREM AimsFindTheirs == Spec => []AimsRight
<1>1. TypeInv /\ SoundInv => AimsRight
  BY SoundAims
<1>2. Init => SoundInv
  BY InitSound
<1>3. TypeInv /\ SoundInv /\ [Next]_vars => SoundInv'
  BY SoundStep
<1> QED
  BY <1>1, <1>2, <1>3, Types, PTL DEF Spec


-----------------------------------------------------------------------------
(* One map.  As long as no web save crosses a thread, every thread works   *)
(* on the map in use.                                                      *)

\* Where a thread other than the web has a table in hand.
AtTable ==
  {"rows", "fill", "merge", "mirror", "check", "persist", "dump", "replace"}

WritesThis == \A t \in Threads : pc[t] \in {"persist", "dump"} => cm[t] = map

HoldsThis ==
  /\ pc["sweep"] = "assign" => cm["sweep"] = map
  /\ pc["sweep"] \in {"rows", "fill"} => obj["sweep"] = map
  /\ pc["sync"] \in {"merge", "mirror"} => obj["sync"] = map
  /\ pc["aim"] = "merge" => obj["aim"] = map

HasTable == \A t \in Threads \ {"web"} : pc[t] \in AtTable => The.table

SameWalks == \A t \in Threads : pc[t] = "dump" => buf[t].walks = The.walks

CopyTorn == pc["web"] = "copy" => up /\ file = Torn

Migrations == up /\ pc["web"] \in {"idle", "copy", "load"} => Settled(The)

Together ==
  OneAtATime /\ WritesThis /\ HoldsThis /\ HasTable /\ SameWalks /\ CopyTorn
  /\ Migrations

OneMap == Without({"crossed"}) => Together

LEMMA ThreadTypes ==
  ASSUME TypeInv
  PROVE  /\ Threads = {"web", "sync", "aim", "sweep"}
         /\ pc \in [Threads -> Spots]
         /\ obj \in [Threads -> 0..Len(heap)] /\ cm \in [Threads -> 0..Len(heap)]
         /\ buf \in [Threads -> Maps]
BY DEF TypeInv, LockOK, RefsOK, Threads

\* When the web puts its map in place, nobody has another in hand.
LEMMA LoadsAlone ==
  ASSUME TypeInv, WebLoads, Without({"crossed"})'
  PROVE  /\ ~Holding
         /\ \A t \in Threads \ {"web"} : Stays(t)
<1>0. pc \in [Threads -> Spots] /\ Threads = {"web", "sync", "aim", "sweep"}
      /\ cm \in [Threads -> 0..Len(heap)]
  BY ThreadTypes
<1>1. Suffers(If("crossed", up /\ Holding)) /\ (up /\ Holding) \in BOOLEAN
  BY DEF WebLoads, TypeInv, StoreOK, Holding
<1>2. ~(up /\ Holding)
  BY <1>1, Spared
<1>3. ~up => ~Holding
  BY <1>0 DEF TypeInv, StartOK, Holding
<1>4. \A t \in Threads \ {"web"} : Stays(t)
  BY <1>0 DEF WebLoads, Goto, Stays
<1> QED
  BY <1>2, <1>3, <1>4

LEMMA UseStays ==
  ASSUME TypeInv, Together, Next, ~WebLoads, ~Crash
  PROVE  /\ map' = map
         /\ map # 0 => /\ The'.walks = The.walks
                       /\ The.table => The'.table
                       /\ Settled(The) => Settled(The')
                       /\ \/ The.facts \subseteq The'.facts
                          \/ LosesRow(map)
                          \/ WebMigrates /\ ~Settled(The)
<1>1. map' = map
  BY DEF Together, HoldsThis, Next, Web, Sync, Aim, Sweep, Persist, WebSaves,
     WebCopies, WebCopied, WebMigrates, HearsName, HearsStereo, SyncDrains,
     SyncTakes, SyncMerges, SyncMirrors, SyncPersists, AimConfirms, AimMerges,
     AimPersists, StartSweep, SweepBegins, SweepMeasures, SweepFails,
     SweepTakes, SweepAssigns, SweepResets, SweepFills, SweepPersists,
     SweepDone, Relayout, Locks, Dumps, DumpRaises, WriteFails, Replaces,
     store, PersistFails
<1>2. map # 0 => map \in DOMAIN heap
  BY HeapMaps
<1> QED
  BY <1>1, <1>2, MapGrows DEF The, Settled, Migrates

\* Nobody but the web moves while the map is replaced, and the web is not there.
LEMMA TogetherLoads ==
  ASSUME TypeInv, Together, WebLoads, Without({"crossed"})'
  PROVE  Together'
<1>0. /\ Threads = {"web", "sync", "aim", "sweep"} /\ pc \in [Threads -> Spots]
      /\ cm \in [Threads -> 0..Len(heap)]
  BY ThreadTypes
<1>1. ~Holding /\ \A t \in Threads \ {"web"} : Stays(t)
  BY LoadsAlone
<1>2. /\ pc'["web"] \in {"persist", "migrate"}
      /\ pc'["web"] = "persist" => cm'["web"] = map'
  BY <1>0 DEF WebLoads, Goto
<1>3. /\ pc'["sync"] \in {"idle", "table"} /\ pc'["aim"] = "idle"
      /\ pc'["sweep"] \in {"idle", "begin", "measure", "flag"}
  BY <1>0, <1>1 DEF Holding, Stays
<1> QED
  BY <1>0, <1>2, <1>3
     DEF Together, OneAtATime, Saving, WritesThis, HoldsThis, HasTable, AtTable,
     SameWalks, CopyTorn, Migrations

LEMMA WritesThisStep ==
  ASSUME TypeInv, Together, Next, ~WebLoads, ~Crash
  PROVE  WritesThis'
<1>0. /\ Threads = {"web", "sync", "aim", "sweep"} /\ pc \in [Threads -> Spots]
      /\ cm \in [Threads -> 0..Len(heap)]
  BY ThreadTypes
<1>1. map' = map
  BY UseStays
<1>2. ASSUME NEW t \in Threads, pc'[t] \in {"persist", "dump"}
      PROVE  \/ cm'[t] = map
             \/ pc[t] \in {"persist", "dump"} /\ cm'[t] = cm[t]
  <2>1. CASE Web
    BY <1>0, <1>2, <2>1
       DEF Web, WebSaves, WebCopies, WebCopied, WebMigrates, Goto, locks
  <2>2. CASE Sync
    BY <1>0, <1>2, <2>2
       DEF Sync, HearsName, HearsStereo, SyncDrains, SyncTakes, SyncMerges,
       SyncMirrors, SyncPersists, CallsPersist, Goto, locks
  <2>3. CASE Aim
    BY <1>0, <1>2, <2>3
       DEF Aim, AimConfirms, AimMerges, AimPersists, CallsPersist, Goto, locks
  <2>4. CASE Sweep
    BY <1>0, <1>2, <2>4
       DEF Sweep, StartSweep, SweepBegins, SweepMeasures, SweepFails, SweepTakes,
       SweepAssigns, SweepResets, SweepFills, SweepPersists, SweepDone,
       CallsPersist, Goto, locks
  <2>5. ASSUME NEW u \in Threads, Persist(u)
        PROVE  pc[t] \in {"persist", "dump"} /\ cm'[t] = cm[t]
    <3>1. AfterPersist[u] \notin {"persist", "dump"}
      BY <1>0, <2>5 DEF AfterPersist
    <3> QED
      BY <1>0, <1>2, <2>5, <3>1
         DEF Persist, Locks, Dumps, DumpRaises, WriteFails, Replaces,
         PersistFails, Released, Goto
  <2>6. CASE \E l \in Layouts : Relayout(l)
    BY <1>2, <2>6 DEF Relayout, locks
  <2> QED
    BY <2>1, <2>2, <2>3, <2>4, <2>5, <2>6 DEF Next
<1> QED
  BY <1>1, <1>2 DEF WritesThis, Together

LEMMA HoldsThisStep ==
  ASSUME TypeInv, Together, Next, ~WebLoads, ~Crash
  PROVE  HoldsThis'
<1>0. /\ Threads = {"web", "sync", "aim", "sweep"} /\ pc \in [Threads -> Spots]
      /\ obj \in [Threads -> 0..Len(heap)] /\ cm \in [Threads -> 0..Len(heap)]
  BY ThreadTypes
<1>1. map' = map /\ HoldsThis
  BY UseStays DEF Together
<1>p. ASSUME NEW t \in Threads, Persist(t)
      PROVE  pc'[t] \in {"dump", "replace", "idle", "migrate", "flag"}
  BY <1>0, <1>p
     DEF Persist, Locks, Dumps, DumpRaises, WriteFails, Replaces, PersistFails,
     AfterPersist, Goto
<1>2. /\ pc'["sweep"] = "assign" => cm'["sweep"] = map
      /\ pc'["sweep"] \in {"rows", "fill"} => obj'["sweep"] = map
  <2>1. CASE Sweep
    BY <1>0, <1>1, <2>1
       DEF HoldsThis, Sweep, StartSweep, SweepBegins, SweepMeasures, SweepFails,
       SweepTakes, SweepAssigns, SweepResets, SweepFills, SweepPersists,
       SweepDone, CallsPersist, Goto, locks
  <2>2. CASE Persist("sweep")
    BY <1>0, <1>p, <2>2
  <2>3. CASE Stays("sweep")
    BY <1>1, <2>3 DEF HoldsThis, Stays
  <2> QED
    BY <2>1, <2>2, <2>3, Frame
<1>3. pc'["sync"] \in {"merge", "mirror"} => obj'["sync"] = map
  <2>1. CASE Sync
    BY <1>0, <1>1, <2>1
       DEF HoldsThis, Sync, HearsName, HearsStereo, SyncDrains, SyncTakes,
       SyncMerges, SyncMirrors, SyncPersists, CallsPersist, Goto
  <2>2. CASE Persist("sync")
    BY <1>0, <1>p, <2>2
  <2>3. CASE Stays("sync")
    BY <1>1, <2>3 DEF HoldsThis, Stays
  <2> QED
    BY <2>1, <2>2, <2>3, Frame
<1>4. pc'["aim"] = "merge" => obj'["aim"] = map
  <2>1. CASE Aim
    BY <1>0, <1>1, <2>1
       DEF HoldsThis, Aim, AimConfirms, AimMerges, AimPersists, CallsPersist, Goto
  <2>2. CASE Persist("aim")
    BY <1>0, <1>p, <2>2
  <2>3. CASE Stays("aim")
    BY <1>1, <2>3 DEF HoldsThis, Stays
  <2> QED
    BY <2>1, <2>2, <2>3, Frame
<1> QED
  BY <1>1, <1>2, <1>3, <1>4 DEF HoldsThis

LEMMA HasTableStep ==
  ASSUME TypeInv, Together, Next, ~WebLoads, ~Crash
  PROVE  HasTable'
<1>0. /\ Threads = {"web", "sync", "aim", "sweep"} /\ pc \in [Threads -> Spots]
  BY ThreadTypes
<1>t. ASSUME NEW t \in Threads \ {"web"}, pc[t] # "idle", The.table
      PROVE  The'.table
  BY <1>t, AtWork, UseStays
<1>p. ASSUME NEW t \in Threads \ {"web"}, Persist(t)
      PROVE  pc'[t] \in AtTable => The'.table
  BY <1>0, <1>p, <1>t
     DEF Persist, Locks, Dumps, DumpRaises, WriteFails, Replaces, PersistFails,
     AfterPersist, Goto, AtTable, Together, HasTable
<1>s. ASSUME NEW t \in Threads \ {"web"}, Stays(t)
      PROVE  pc'[t] \in AtTable => The'.table
  BY <1>s, <1>t DEF Stays, AtTable, Together, HasTable
<1>1. pc'["sync"] \in AtTable => The'.table
  <2>1. CASE Sync
    BY <1>0, <1>t, <2>1
       DEF Sync, HearsName, HearsStereo, SyncDrains, SyncTakes, SyncMerges,
       SyncMirrors, SyncPersists, CallsPersist, Goto, AtTable, Together, HasTable
  <2> QED
    BY <1>0, <1>p, <1>s, <2>1, Frame
<1>2. pc'["aim"] \in AtTable => The'.table
  <2>1. ASSUME NEW r \in Rows, NEW n \in Names, up, AimConfirms(r, n)
        PROVE  The'.table
    BY <2>1 DEF AimConfirms, The, store
  <2>2. CASE AimMerges \/ AimPersists
    BY <1>0, <1>t, <2>2
       DEF AimMerges, AimPersists, CallsPersist, Goto, AtTable, Together, HasTable
  <2> QED
    BY <1>0, <1>p, <1>s, <2>1, <2>2, Frame DEF Aim
<1>3. pc'["sweep"] \in AtTable => The'.table
  <2>1. CASE SweepAssigns
    <3>1. map \in DOMAIN heap /\ The \in Maps /\ cm["sweep"] = map
      BY <1>0, <2>1, HeapMaps, AtWork DEF SweepAssigns, Together, HoldsThis
    <3>2. heap'[map] = [heap[map] EXCEPT !.table = TRUE] /\ map' = map
      BY <2>1, <3>1, HeapMaps, HeapAt DEF SweepAssigns
    <3> QED
      BY <3>1, <3>2 DEF The, Maps
  <2>2. CASE Sweep /\ ~SweepAssigns
    BY <1>0, <1>t, <2>2
       DEF Sweep, StartSweep, SweepBegins, SweepMeasures, SweepFails, SweepTakes,
       SweepResets, SweepFills, SweepPersists, SweepDone, CallsPersist, Goto,
       AtTable, Together, HasTable
  <2> QED
    BY <1>0, <1>p, <1>s, <2>1, <2>2, Frame
<1> QED
  BY <1>0, <1>1, <1>2, <1>3 DEF HasTable

\* Who is at the file comes there, and leaves, by writing it.
LEMMA Writers ==
  ASSUME TypeInv, Next, ~Crash, NEW t \in Threads, pc'[t] \in {"dump", "replace"}
  PROVE  Persist(t) \/ Stays(t)
<1>0. /\ Threads = {"web", "sync", "aim", "sweep"} /\ pc \in [Threads -> Spots]
  BY ThreadTypes
<1>1. t = "web" /\ Web => Stays(t)
  BY <1>0
     DEF Web, WebSaves, WebCopies, WebCopied, WebLoads, WebMigrates, Goto
<1>2. t = "sync" /\ Sync => Stays(t)
  BY <1>0
     DEF Sync, HearsName, HearsStereo, SyncDrains, SyncTakes, SyncMerges,
     SyncMirrors, SyncPersists, CallsPersist, Goto, Stays, locks
<1>3. t = "aim" /\ Aim => Stays(t)
  BY <1>0 DEF Aim, AimConfirms, AimMerges, AimPersists, CallsPersist, Goto
<1>4. t = "sweep" /\ Sweep => Stays(t)
  BY <1>0
     DEF Sweep, StartSweep, SweepBegins, SweepMeasures, SweepFails, SweepTakes,
     SweepAssigns, SweepResets, SweepFills, SweepPersists, SweepDone,
     CallsPersist, Goto, Stays, locks
<1> QED
  BY <1>0, <1>1, <1>2, <1>3, <1>4, Frame

LEMMA SameWalksStep ==
  ASSUME TypeInv, Together, Next, ~WebLoads, ~Crash
  PROVE  SameWalks'
<1>0. /\ Threads = {"web", "sync", "aim", "sweep"} /\ pc \in [Threads -> Spots]
      /\ buf \in [Threads -> Maps]
  BY ThreadTypes
<1> SUFFICES ASSUME NEW t \in Threads, pc'[t] = "dump"
             PROVE  buf'[t].walks = The'.walks
  BY DEF SameWalks
<1>1. CASE Stays(t)
  <2>1. pc[t] = "dump" /\ buf'[t] = buf[t]
    BY <1>1 DEF Stays
  <2>2. map # 0
    BY <2>1 DEF TypeInv, StartOK
  <2> QED
    BY <2>1, <2>2, UseStays DEF Together, SameWalks
<1>2. CASE Persist(t)
  <2>1. ~Dumps(t) /\ ~DumpRaises(t) /\ ~WriteFails(t) /\ ~Replaces(t)
    BY <1>0, <1>2
       DEF Persist, Dumps, DumpRaises, WriteFails, Replaces, PersistFails,
       AfterPersist, Goto
  <2>2. /\ pc[t] = "persist" /\ buf' = [buf EXCEPT ![t] = heap[cm[t]]]
        /\ UNCHANGED store
    BY <1>2, <2>1 DEF Persist, Locks
  <2> QED
    BY <1>0, <2>2 DEF Together, WritesThis, The, store
<1> QED
  BY <1>1, <1>2, Writers

LEMMA CopyTornStep ==
  ASSUME TypeInv, Together, Next, ~WebLoads, ~Crash
  PROVE  CopyTorn'
<1>0. /\ Threads = {"web", "sync", "aim", "sweep"} /\ pc \in [Threads -> Spots]
  BY ThreadTypes
<1>1. CASE Web
  <2>1. CASE WebCopies
    BY <1>0, <2>1 DEF WebCopies, CopyTorn
  <2>2. CASE ~WebCopies
    <3>1. pc'["web"] # "copy"
      BY <1>0, <1>1, <2>2 DEF Web, WebSaves, WebCopied, WebMigrates, Goto
    <3> QED
      BY <3>1 DEF CopyTorn
  <2> QED
    BY <2>1, <2>2
<1>2. CASE ~Web
  <2>1. /\ Persist("web") => pc'["web"] # "copy"
        /\ Persist("web") \/ Stays("web")
    BY <1>0, <1>2, Frame
       DEF Persist, Locks, Dumps, DumpRaises, WriteFails, Replaces, PersistFails,
       AfterPersist, Goto
  <2>2. ASSUME pc["web"] = "copy"
        PROVE  UNCHANGED <<up, file>>
    <3>1. file' = file
      <4>1. ASSUME NEW t \in Threads, Replaces(t)
            PROVE  FALSE
        BY <1>0, <2>2, <4>1
           DEF Replaces, Together, OneAtATime, CopyTorn, Saving, Holding
      <4>2. \A v : ~(up /\ WebSaves(v)) /\ ~WebCopies
        BY <2>2 DEF WebSaves, WebCopies
      <4>3. ~WebCopied
        BY <1>2 DEF Web
      <4> QED
        BY <4>1, <4>2, <4>3, FileSteps
    <3>2. up' = up
      BY <1>2
         DEF Next, Sync, Aim, Sweep, Persist, HearsName, HearsStereo, SyncDrains,
         SyncTakes, SyncMerges, SyncMirrors, SyncPersists, AimConfirms,
         AimMerges, AimPersists, StartSweep, SweepBegins, SweepMeasures,
         SweepFails, SweepTakes, SweepAssigns, SweepResets, SweepFills,
         SweepPersists, SweepDone, Relayout, Locks, Dumps, DumpRaises,
         WriteFails, Replaces, PersistFails
    <3> QED
      BY <3>1, <3>2
  <2> QED
    BY <2>1, <2>2 DEF Stays, CopyTorn, Together
<1> QED
  BY <1>1, <1>2

LEMMA UpStays ==
  ASSUME Next, ~WebMigrates, ~Crash
  PROVE  up' = up
BY DEF Next, Web, Sync, Aim, Sweep, Persist, WebSaves, WebCopies, WebCopied,
   WebLoads, HearsName, HearsStereo, SyncDrains, SyncTakes, SyncMerges,
   SyncMirrors, SyncPersists, AimConfirms, AimMerges, AimPersists, StartSweep,
   SweepBegins, SweepMeasures, SweepFails, SweepTakes, SweepAssigns,
   SweepResets, SweepFills, SweepPersists, SweepDone, Relayout, Locks, Dumps,
   DumpRaises, WriteFails, Replaces, PersistFails

LEMMA MigrationsStep ==
  ASSUME TypeInv, Together, Next, ~WebLoads, ~Crash
  PROVE  Migrations'
<1>0. /\ Threads = {"web", "sync", "aim", "sweep"} /\ pc \in [Threads -> Spots]
  BY ThreadTypes
<1>1. CASE WebMigrates
  <2>1. map # 0
    BY <1>0, <1>1 DEF WebMigrates, TypeInv, StartOK
  <2>2. map \in DOMAIN heap /\ The \in Maps
    BY <2>1, HeapMaps
  <2>3. heap'[map] = Migrated(heap[map]) /\ map' = map
    BY <1>1, <2>2, HeapMaps, HeapAt DEF WebMigrates
  <2> QED
    BY <2>2, <2>3, MigratedIs DEF Migrations, The
<1>2. CASE ~WebMigrates
  <2>1. up' = up
    BY <1>2, UpStays
  <2>2. ASSUME up, pc'["web"] \in {"idle", "copy", "load"}
        PROVE  pc["web"] \in {"idle", "copy", "load"}
    <3>1. CASE Web
      BY <1>0, <1>2, <3>1
         DEF Web, WebSaves, WebCopies, WebCopied
    <3>2. CASE Persist("web")
      BY <1>0, <2>2, <3>2
         DEF Persist, Locks, Dumps, DumpRaises, WriteFails, Replaces,
         PersistFails, AfterPersist, Goto
    <3>3. CASE Stays("web")
      BY <2>2, <3>3 DEF Stays
    <3> QED
      BY <3>1, <3>2, <3>3, Frame
  <2>3. up => map # 0
    BY DEF TypeInv, StartOK
  <2> QED
    BY <2>1, <2>2, <2>3, UseStays DEF Migrations, Together
<1> QED
  BY <1>1, <1>2

LEMMA OneMapStep ==
  ASSUME TypeInv, OneMap, [Next]_vars
  PROVE  OneMap'
<1>1. CASE Next
  <2> SUFFICES ASSUME Without({"crossed"})'
               PROVE  Together'
    BY DEF OneMap
  <2>1. Together
    BY <1>1, Remembers DEF OneMap
  <2>2. CASE Crash
    BY <2>2
       DEF Crash, Started, Together, OneAtATime, WritesThis, HoldsThis, HasTable,
       AtTable, SameWalks, CopyTorn, Migrations, Threads
  <2>3. CASE WebLoads
    BY <2>1, <2>3, TogetherLoads
  <2>4. CASE ~Crash /\ ~WebLoads
    <3>1. OneAtATime'
      BY <1>1, <2>1, OneAtATimeStep DEF Together
    <3> QED
      BY <1>1, <2>1, <2>4, <3>1, WritesThisStep, HoldsThisStep, HasTableStep,
         SameWalksStep, CopyTornStep, MigrationsStep DEF Together
  <2> QED
    BY <2>2, <2>3, <2>4
<1>2. CASE UNCHANGED vars
  BY <1>2
     DEF OneMap, Without, Together, OneAtATime, Saving, Holding, WritesThis,
     HoldsThis, HasTable, SameWalks, CopyTorn, Migrations, The, vars, store,
     locks, feed, syncs, sweep, env
<1> QED
  BY <1>1, <1>2

LEMMA InitOne ==
  ASSUME Init
  PROVE  OneMap
BY DEF Init, OneMap, Together, OneAtATime, WritesThis, HoldsThis, HasTable, AtTable,
   SameWalks, CopyTorn, Migrations, Threads


-----------------------------------------------------------------------------
(* What a sweep measured stays.                                            *)

Has(v) == Taught(found) \subseteq Migrated(v).facts

Measured ==
  /\ \A f \in found : \E j \in DOMAIN job.rows : f[1] = job.rows[j]
  /\ job.at # 0
  /\ pc["sweep"] = "assign" => job.at = 1

\* The rows before this one are in the table, but for this one when it is reset.
Filled ==
  \A j \in DOMAIN job.rows :
    \/ pc["sweep"] \notin {"rows", "fill"} \/ j >= job.at
    \/ pc["sweep"] = "fill" /\ job.rows[j] = Row
    \/ RowOf(Taught(found), job.rows[j]) \subseteq The.facts

InHand ==
  /\ pc["sweep"] \in {"persist", "dump", "replace"} => Taught(found) \subseteq The.facts
  /\ pc["sweep"] \in {"dump", "replace"} =>
       Taught(found) \subseteq buf["sweep"].facts /\ buf["sweep"].table

\* Once it is written, whoever writes or saves writes it too.
Everywhere ==
  /\ Has(The)
  /\ \A t \in Threads : pc[t] \in {"dump", "replace"} => Has(buf[t])
  /\ file # None
  /\ Readable => Has(file)
  /\ file = Torn => pc["web"] = "copy" /\ Has(Example)

Kept == Measured /\ Filled /\ InHand /\ (pc["sweep"] = "flag" => Everywhere)

KeptInv == Without({"crossed", "behind"}) => Kept

LEMMA MigratedGrows ==
  ASSUME NEW v \in Maps, NEW w \in Maps, v.walks = w.walks, v.table = w.table,
         v.facts \subseteq w.facts
  PROVE  Migrated(v).facts \subseteq Migrated(w).facts
<1>1. Settled(v) <=> Settled(w)
  BY DEF Settled
<1> QED
  BY <1>1, MigratedIs

\* The fields that matter here are the same.
LEMMA HasSame ==
  ASSUME NEW v \in Maps
  PROVE  /\ \A n \in Nat : Migrated([v EXCEPT !.save = n]).facts = Migrated(v).facts
         /\ Migrated([v EXCEPT !.phantom = FALSE]).facts = Migrated(v).facts
<1>1. ASSUME NEW w \in Maps, w.walks = v.walks, w.table = v.table, w.facts = v.facts
      PROVE  Migrated(w).facts = Migrated(v).facts
  <2>1. Migrated(w).facts \subseteq Migrated(v).facts
    BY <1>1, MigratedGrows
  <2>2. Migrated(v).facts \subseteq Migrated(w).facts
    BY <1>1, MigratedGrows
  <2> QED
    BY <2>1, <2>2
<1>2. \A n \in Nat : LET w == [v EXCEPT !.save = n]
                     IN  /\ w \in Maps /\ w.walks = v.walks /\ w.table = v.table
                         /\ w.facts = v.facts
  BY DEF Maps
<1>3. LET w == [v EXCEPT !.phantom = FALSE]
      IN  /\ w \in Maps /\ w.walks = v.walks /\ w.table = v.table
          /\ w.facts = v.facts
  BY DEF Maps
<1> QED
  BY <1>1, <1>2, <1>3

\* The steps of the sweep itself, and of others.
LEMMA MeasuredStep ==
  ASSUME TypeInv, Measured, Next
  PROVE  Measured'
<1>0. /\ Threads = {"web", "sync", "aim", "sweep"} /\ pc \in [Threads -> Spots]
      /\ job \in Jobs
  BY ThreadTypes DEF TypeInv, SweepOK
<1>1. CASE Crash
  BY <1>1 DEF Crash, Started, Measured, NoJob, Threads
<1>2. ASSUME NEW rows \in Sweeps, NEW reset \in BOOLEAN, StartSweep(rows, reset)
      PROVE  Measured'
  BY <1>0, <1>2 DEF StartSweep, Measured, Goto
<1>3. CASE SweepMeasures
  <2>1. /\ job.at \in DOMAIN job.rows /\ job' = [job EXCEPT !.at = job.at + 1]
        /\ found' = found \cup {<<job.rows[job.at], h, Shows[layout][h]>> : h \in Hw}
    BY <1>3 DEF SweepMeasures
  <2>2. job'.rows = job.rows /\ job'.at = job.at + 1 /\ job.at \in Nat
    BY <1>0, <2>1 DEF Jobs
  <2>3. \A f \in found' \ found : f[1] = job.rows[job.at]
    BY <2>1
  <2>4. pc'["sweep"] = "measure"
    BY <1>3 DEF SweepMeasures
  <2> QED
    BY <2>1, <2>2, <2>3, <2>4 DEF Measured
<1>4. CASE SweepTakes
  <2>1. job' = [job EXCEPT !.at = 1] /\ UNCHANGED found
    BY <1>4 DEF SweepTakes
  <2>2. job'.rows = job.rows /\ job'.at = 1
    BY <1>0, <2>1 DEF Jobs
  <2> QED
    BY <2>1, <2>2 DEF Measured
<1>5. CASE SweepFills
  <2>1. job' = [job EXCEPT !.at = job.at + 1] /\ UNCHANGED found
        /\ pc'["sweep"] = "rows"
    BY <1>0, <1>5 DEF SweepFills, Goto
  <2>2. job'.rows = job.rows /\ job'.at = job.at + 1 /\ job.at \in Nat
    BY <1>0, <2>1 DEF Jobs
  <2> QED
    BY <2>1, <2>2 DEF Measured
<1>6. CASE SweepBegins \/ SweepAssigns \/ SweepResets \/ SweepPersists
  BY <1>0, <1>6
     DEF SweepBegins, SweepAssigns, SweepResets, SweepPersists, CallsPersist,
     Goto, Measured, sweep
<1>7. CASE SweepFails \/ SweepDone
  BY <1>0, <1>7 DEF SweepFails, SweepDone, Goto, Measured, NoJob
<1>8. CASE Persist("sweep")
  BY <1>0, <1>8
     DEF Persist, Locks, Dumps, DumpRaises, WriteFails, Replaces, PersistFails,
     AfterPersist, Goto, Measured, NoJob, sweep
<1>9. CASE Stays("sweep") /\ UNCHANGED sweep
  BY <1>9 DEF Stays, Measured, sweep
<1> QED
  BY <1>1, <1>2, <1>3, <1>4, <1>5, <1>6, <1>7, <1>8, <1>9, Frame DEF Sweep

\* While the sweep is at the table, or writes it, only itself takes from it.
LEMMA SweepGrows ==
  ASSUME TypeInv, Together, Next, ~Crash, Without({"crossed"})',
         pc["sweep"] \in {"rows", "fill", "persist", "dump", "replace"}
  PROVE  ~WebLoads /\ map' = map /\ (SweepResets \/ The.facts \subseteq The'.facts)
<1>1. ~WebLoads
  BY LoadsAlone DEF Holding
<1>2. map # 0 /\ The.table
  BY AtWork, ThreadTypes DEF Together, HasTable, AtTable
<1>3. Settled(The)
  BY <1>2 DEF Settled
<1> QED
  BY <1>1, <1>2, <1>3, UseStays DEF LosesRow

LEMMA FilledStep ==
  ASSUME TypeInv, Together, Measured, Filled, Next, Without({"crossed"})'
  PROVE  Filled'
<1>0. /\ Threads = {"web", "sync", "aim", "sweep"} /\ pc \in [Threads -> Spots]
      /\ job \in Jobs /\ job.at \in Nat
  BY ThreadTypes DEF TypeInv, SweepOK, Jobs
<1>1. CASE Crash
  BY <1>1 DEF Crash, Started, Filled, Threads
<1>2. CASE pc'["sweep"] \notin {"rows", "fill"}
  BY <1>2 DEF Filled
<1>3. CASE SweepAssigns
  <2>1. UNCHANGED job /\ job.at = 1
    BY <1>3 DEF SweepAssigns, sweep, Measured
  <2>2. DOMAIN job.rows = 1..Len(job.rows)
    BY <1>0, LenProperties DEF Jobs
  <2> QED
    BY <2>1, <2>2 DEF Filled
<1>4. CASE SweepResets
  <2>1. /\ pc["sweep"] = "rows" /\ pc'["sweep"] = "fill" /\ UNCHANGED <<sweep, map>>
        /\ heap' = [heap EXCEPT ![obj["sweep"]].facts = @ \ RowOf(@, Row)]
    BY <1>0, <1>4 DEF SweepResets, Goto, Row
  <2>2. obj["sweep"] = map /\ map \in DOMAIN heap /\ The \in Maps
    BY <1>0, <2>1, HeapMaps, AtWork DEF Together, HoldsThis
  <2>3. The' = [The EXCEPT !.facts = @ \ RowOf(@, Row)]
    BY <2>1, <2>2, HeapMaps, HeapAt DEF The
  <2>4. The'.facts = The.facts \ RowOf(The.facts, Row)
    BY <2>2, <2>3 DEF Maps
  <2>5. ASSUME NEW j \in DOMAIN job.rows, j < job.at, job.rows[j] # Row,
               RowOf(Taught(found), job.rows[j]) \subseteq The.facts
        PROVE  RowOf(Taught(found), job.rows[j]) \subseteq The'.facts
    BY <2>4, <2>5 DEF RowOf
  <2>6. \A j \in DOMAIN job.rows : j \in Nat
    BY <1>0, LenProperties DEF Jobs
  <2>7. \A j \in DOMAIN job.rows : j < job.at \/ j >= job.at
    BY <1>0, <2>6
  <2> QED
    BY <2>1, <2>5, <2>7 DEF Filled, sweep, Row
<1>5. CASE SweepFills
  <2>1. /\ pc["sweep"] \in {"rows", "fill"} /\ UNCHANGED <<found, map>>
        /\ pc'["sweep"] = "rows"
        /\ job' = [job EXCEPT !.at = job.at + 1] /\ job.at \in DOMAIN job.rows
        /\ heap' = [heap EXCEPT
                       ![obj["sweep"]].facts = @ \cup RowOf(Taught(found), Row),
                       ![obj["sweep"]].source[Row] = Measure]
    BY <1>0, <1>5 DEF SweepFills, Goto, Row, Measure
  <2>2. obj["sweep"] = map /\ map \in DOMAIN heap /\ The \in Maps
    BY <1>0, <2>1, HeapMaps, AtWork DEF Together, HoldsThis
  <2>3. The'.facts = The.facts \cup RowOf(Taught(found), Row)
    <3>1. heap \in [1..Len(heap) -> Maps] /\ map \in 1..Len(heap)
      BY <2>2, HeapMaps, LenProperties
    <3> QED
      BY <2>1, <2>2, <3>1 DEF The, Maps
  <2>4. job'.rows = job.rows /\ job'.at = job.at + 1
    BY <1>0, <2>1 DEF Jobs
  <2>5. \A j \in DOMAIN job.rows : j \in Nat
    BY <1>0, LenProperties DEF Jobs
  <2>6. ASSUME NEW j \in DOMAIN job.rows
        PROVE  j >= job'.at \/ RowOf(Taught(found'), job'.rows[j]) \subseteq The'.facts
    <3>1. j >= job'.at \/ j = job.at \/ ~(j >= job.at)
      BY <1>0, <2>4, <2>5
    <3>2. CASE job.rows[j] = Row
      BY <2>1, <2>3, <2>4, <3>2
    <3>3. CASE job.rows[j] # Row /\ ~(j >= job.at)
      BY <2>1, <2>3, <2>4, <3>3 DEF Filled
    <3> QED
      BY <3>1, <3>2, <3>3 DEF Row
  <2> QED
    BY <2>1, <2>4, <2>6 DEF Filled
<1>6. CASE Sweep /\ ~SweepAssigns /\ ~SweepResets /\ ~SweepFills
  BY <1>0, <1>2, <1>6
     DEF Sweep, StartSweep, SweepBegins, SweepMeasures, SweepFails, SweepTakes,
     SweepPersists, SweepDone, CallsPersist, Goto
<1>7. CASE Persist("sweep")
  BY <1>0, <1>2, <1>7
     DEF Persist, Locks, Dumps, DumpRaises, WriteFails, Replaces, PersistFails,
     AfterPersist, Goto
<1>8. CASE ~Crash /\ Stays("sweep") /\ UNCHANGED sweep
  <2>1. CASE pc["sweep"] \in {"rows", "fill"} /\ ~SweepResets
    <3>1. The.facts \subseteq The'.facts
      BY <1>8, <2>1, SweepGrows
    <3> QED
      BY <1>8, <3>1 DEF Stays, Filled, sweep, Row
  <2> QED
    BY <1>2, <1>4, <1>8, <2>1 DEF Stays
<1> QED
  BY <1>1, <1>3, <1>4, <1>5, <1>6, <1>7, <1>8, Frame

\* What is dumped while a map changes, is of the one or the other.
LEMMA Dumped ==
  ASSUME TypeInv, Together, NEW t \in Threads, Dumps(t)
  PROVE  /\ map \in DOMAIN heap /\ The \in Maps /\ buf[t] \in Maps
         /\ buf'[t] \in Maps
         /\ buf'[t].walks = The.walks /\ buf'[t].table = The.table
         /\ buf[t].walks = The.walks /\ buf[t].table = The.table
         /\ buf[t].legacy = The.legacy
         /\ buf'[t].save = buf[t].save /\ buf'[t].legacy = buf[t].legacy
         /\ buf'[t].source \in {buf[t].source, The.source}
         /\ \E new \in SUBSET Rows :
              buf'[t].facts = {f \in buf[t].facts : f[1] \notin new} \cup
                              {f \in The.facts : f[1] \in new}
         /\ \A u \in Threads : u # t => buf'[u] = buf[u]
<1>0. buf \in [Threads -> Maps] /\ pc[t] = "dump"
  BY ThreadTypes DEF Dumps
<1>1. cm[t] = map /\ cm[t] \in DOMAIN heap /\ heap[cm[t]] \in Maps
  BY <1>0, Written DEF Together, WritesThis
<1>2. buf[t].walks = The.walks
  BY <1>0 DEF Together, SameWalks
<1> DEFINE was == buf[t]
<1>3. was.legacy = The.legacy /\ was.table = The.table
  BY <1>1 DEF Dumps, The
<1>4. PICK new \in SUBSET Rows, source \in {was.source, The.source} :
        buf' = [buf EXCEPT ![t].source = source,
                           ![t].facts = {f \in was.facts : f[1] \notin new} \cup
                                        {f \in The.facts : f[1] \in new}]
  BY <1>1 DEF Dumps, The
<1> DEFINE facts == {f \in was.facts : f[1] \notin new} \cup
                    {f \in The.facts : f[1] \in new}
           v == [was EXCEPT !.source = source, !.facts = facts]
<1>5. buf' = [buf EXCEPT ![t] = v]
  BY <1>0, <1>4
<1>6. was \in Maps /\ The \in Maps /\ map \in DOMAIN heap
  BY <1>0, <1>1 DEF The
<1>7. facts \in SUBSET Facts /\ source \in [Rows -> Sources]
  BY <1>6, MapFits
<1> HIDE DEF facts
<1>8. v \in Maps /\ v.walks = was.walks /\ v.table = was.table /\ v.save = was.save
      /\ v.legacy = was.legacy /\ v.source = source /\ v.facts = facts
  BY <1>6, <1>7 DEF Maps
<1> HIDE DEF v
<1>9. buf'[t] = v /\ \A u \in Threads : u # t => buf'[u] = buf[u]
  BY <1>0, <1>5
<1> QED
  BY <1>2, <1>3, <1>4, <1>6, <1>8, <1>9 DEF facts

LEMMA InHandStep ==
  ASSUME TypeInv, Together, Measured, Filled, InHand, Next, Without({"crossed"})'
  PROVE  InHand'
<1>0. /\ Threads = {"web", "sync", "aim", "sweep"} /\ pc \in [Threads -> Spots]
      /\ job \in Jobs /\ job.at \in Nat /\ buf \in [Threads -> Maps]
      /\ found \subseteq Facts
  BY ThreadTypes DEF TypeInv, SweepOK, Jobs
<1>1. CASE Crash
  BY <1>1 DEF Crash, Started, InHand, Threads
<1>2. CASE pc'["sweep"] \notin {"persist", "dump", "replace"}
  BY <1>2 DEF InHand
<1>3. CASE SweepPersists
  <2>1. /\ pc["sweep"] = "rows" /\ pc'["sweep"] = "persist" /\ UNCHANGED sweep
        /\ job.at \notin DOMAIN job.rows
    BY <1>0, <1>3 DEF SweepPersists, CallsPersist, Goto
  <2>2. DOMAIN job.rows = 1..Len(job.rows) /\ Len(job.rows) \in Nat
    BY <1>0, LenProperties DEF Jobs
  <2>3. \A j \in DOMAIN job.rows : ~(j >= job.at)
    BY <1>0, <2>1, <2>2 DEF Measured
  <2>4. \A j \in DOMAIN job.rows : RowOf(Taught(found), job.rows[j]) \subseteq The.facts
    BY <2>1, <2>3 DEF Filled
  <2>5. Taught(found) \subseteq The.facts
    BY <2>4 DEF Measured, RowOf, Taught
  <2>6. The.facts \subseteq The'.facts
    <3>1. ~Crash
      BY <2>1 DEF Crash, Started, Threads
    <3>2. ~SweepResets
      BY <1>0, <2>1 DEF SweepResets, Goto
    <3> QED
      BY <2>1, <3>1, <3>2, SweepGrows
  <2> QED
    BY <2>1, <2>5, <2>6 DEF InHand, sweep
<1>4. CASE Sweep /\ ~SweepPersists
  BY <1>0, <1>2, <1>4
     DEF Sweep, StartSweep, SweepBegins, SweepMeasures, SweepFails, SweepTakes,
     SweepAssigns, SweepResets, SweepFills, SweepDone, CallsPersist, Goto
<1>5. CASE Locks("sweep")
  <2>1. /\ pc["sweep"] = "persist" /\ UNCHANGED <<sweep, store>>
        /\ buf' = [buf EXCEPT !["sweep"] = The] /\ pc'["sweep"] = "dump"
    BY <1>0, <1>5 DEF Locks, Together, WritesThis, The, Goto
  <2>2. Taught(found) \subseteq The.facts /\ The.table
    BY <1>0, <2>1 DEF InHand, Together, HasTable, AtTable
  <2> QED
    BY <1>0, <2>1, <2>2 DEF InHand, sweep, store, The
<1>6. CASE Dumps("sweep")
  <2>1. /\ pc["sweep"] = "dump" /\ UNCHANGED <<sweep, store>>
    BY <1>6 DEF Dumps
  <2>2. /\ Taught(found) \subseteq The.facts /\ Taught(found) \subseteq buf["sweep"].facts
        /\ buf["sweep"].table
    BY <2>1 DEF InHand
  <2>3. /\ Taught(found) \subseteq buf'["sweep"].facts /\ buf'["sweep"].table
    BY <1>0, <1>6, <2>2, Dumped
  <2> QED
    BY <2>1, <2>2, <2>3 DEF InHand, sweep, store, The
<1>7. CASE DumpRaises("sweep") \/ WriteFails("sweep") \/ Replaces("sweep")
  BY <1>0, <1>2, <1>7
     DEF DumpRaises, WriteFails, Replaces, PersistFails, AfterPersist, Goto
<1>8. CASE ~Crash /\ Stays("sweep") /\ UNCHANGED sweep
  <2>1. CASE pc["sweep"] \in {"persist", "dump", "replace"}
    <3>1. ~SweepResets
      BY <2>1 DEF SweepResets
    <3>2. The.facts \subseteq The'.facts
      BY <1>8, <2>1, <3>1, SweepGrows
    <3> QED
      BY <1>8, <3>2 DEF Stays, InHand, sweep
  <2> QED
    BY <1>2, <1>8, <2>1 DEF Stays
<1> QED
  BY <1>1, <1>3, <1>4, <1>5, <1>6, <1>7, <1>8, Frame DEF Persist

\* The sweep's write.
LEMMA EverywhereFirst ==
  ASSUME TypeInv, Together, InHand, Replaces("sweep")
  PROVE  Everywhere'
<1>0. /\ Threads = {"web", "sync", "aim", "sweep"} /\ pc \in [Threads -> Spots]
      /\ buf \in [Threads -> Maps]
  BY ThreadTypes
<1>1. /\ pc["sweep"] = "replace" /\ file' = buf["sweep"] /\ lock' = None
      /\ UNCHANGED <<heap, map, sweep>> /\ pc'["sweep"] = "flag"
  BY <1>0 DEF Replaces, Released, AfterPersist, Goto
<1>2. /\ Taught(found) \subseteq The.facts /\ Taught(found) \subseteq buf["sweep"].facts
      /\ buf["sweep"].table /\ The.table
  BY <1>0, <1>1 DEF InHand, Together, HasTable, AtTable
<1>3. /\ Migrated(The) = The /\ Migrated(buf["sweep"]) = buf["sweep"]
  BY <1>2 DEF Migrated
<1>4. file' # Torn /\ file' # None
  BY <1>0, <1>1, NotTorn
<1>5. \A t \in Threads : pc'[t] \notin {"dump", "replace"}
  <2>1. lock = "sweep"
    BY <1>0, <1>1 DEF TypeInv, LockOK
  <2>2. \A t \in Threads : t # "sweep" => pc[t] \notin {"dump", "replace"}
    BY <1>0, <2>1 DEF TypeInv, LockOK
  <2> QED
    BY <1>0, <1>1, <2>2 DEF Replaces, Goto
<1> QED
  BY <1>1, <1>2, <1>3, <1>4, <1>5 DEF Everywhere, Has, sweep, The

\* A save of what has not learned as much is a mishap.
LEMMA SavesAll ==
  ASSUME TypeInv, Together, Next, Without({"crossed", "behind"})',
         NEW v \in Maps, WebSaves(v) \/ (WebCopies /\ v = Example)
  PROVE  The.facts \subseteq Migrated(v).facts
<1>1. \E kinds : Suffers(kinds \cup If("behind", Loses(v)))
  BY DEF WebSaves, WebCopies
<1>2. "behind" \notin If("behind", Loses(v))
  BY <1>1 DEF Suffers, Without
<1> QED
  BY <1>2 DEF If, Loses

LEMMA FlagStays ==
  ASSUME TypeInv, Next, pc["sweep"] = "flag", pc'["sweep"] = "flag"
  PROVE  ~Crash /\ ~Sweep /\ Stays("sweep") /\ UNCHANGED sweep
<1>0. Threads = {"web", "sync", "aim", "sweep"} /\ pc \in [Threads -> Spots]
  BY ThreadTypes
<1>1. ~Crash
  BY <1>0 DEF Crash, Started
<1>2. ~Sweep
  <2>1. status = "running"
    BY DEF TypeInv, SweepOK
  <2> QED
    BY <1>0, <2>1
       DEF Sweep, StartSweep, SweepBegins, SweepMeasures, SweepFails, SweepTakes,
       SweepAssigns, SweepResets, SweepFills, SweepPersists, SweepDone, Goto
<1>3. ~Persist("sweep")
  BY DEF Persist, Locks, Dumps, DumpRaises, WriteFails, Replaces
<1> QED
  BY <1>1, <1>2, <1>3, Frame

\* A table comes to a map only where there is nothing to migrate.
LEMMA TableGrows ==
  ASSUME TypeInv, Together, Next, ~WebLoads, ~Crash, ~SweepResets, map # 0,
         Without({"crossed"})'
  PROVE  Migrated(The).facts \subseteq Migrated(The').facts
<1>0. /\ map \in DOMAIN heap /\ The \in Maps /\ map' = map /\ The' = heap'[map]
      /\ The'.walks = The.walks
  BY HeapMaps, UseStays DEF The
<1>w. The' \in Maps
  <2>1. heap' \in Seq(Maps) /\ DOMAIN heap' = DOMAIN heap
    BY StoreStep, MapSteps DEF StoreOK
  <2> QED
    BY <1>0, <2>1, LenProperties, ElementOfSeq
<1> DEFINE v == The
           w == The'
<1>1. CASE Settled(v)
  <2>1. Settled(w) /\ v.facts \subseteq w.facts
    BY <1>1, UseStays DEF LosesRow
  <2> QED
    BY <1>0, <1>w, <1>1, <2>1, MigratedIs
<1>2. CASE ~Settled(v)
  <2>1. CASE Migrates(map)
    <3>1. w = Migrated(v)
      BY <1>0, <2>1 DEF Migrates, The
    <3>2. Migrated(Migrated(v)) = Migrated(v)
      BY <1>0, MigratedIs
    <3> QED
      BY <3>1, <3>2
  <2>2. ASSUME GetsTable(map)
        PROVE  FALSE
    <3>1. pc["sweep"] \in {"begin", "assign"} /\ Suffers(Early)
      BY <2>2 DEF GetsTable, SweepBegins, SweepAssigns
    <3>2. up
      BY <3>1, AtWork, ThreadTypes
    <3>3. ~(pc["web"] # "idle" /\ ~The.table)
      BY <3>1 DEF Early, Suffers, If, Without
    <3> QED
      BY <1>2, <3>2, <3>3 DEF Together, Migrations, Settled
  <2>3. ASSUME ~Migrates(map)
        PROVE  w.table = v.table
    <3>1. CASE LearnsName(map) \/ LearnsPair(map) \/ LearnsAim(map)
      <4>1. \E x : w = Knows(v, x)
        BY <1>0, <3>1 DEF LearnsName, LearnsPair, LearnsAim, The
      <4> QED
        BY <1>0, <4>1, KnowsFields
    <3>2. CASE Pruned(map) \/ GetsRow(map)
      BY <1>0, <3>2 DEF Pruned, GetsRow, Knows, The, Maps
    <3> QED
      BY <1>0, <2>2, <2>3, <3>1, <3>2, MapSteps DEF LosesRow, The
  <2>4. CASE ~Migrates(map)
    <3>1. ~Settled(w)
      BY <1>0, <1>2, <2>3, <2>4 DEF Settled
    <3> QED
      BY <1>0, <1>w, <1>2, <3>1, MigratedIs
  <2> QED
    BY <2>1, <2>4
<1> QED
  BY <1>1, <1>2

LEMMA HasTheStep ==
  ASSUME TypeInv, Together, Everywhere, Next, Without({"crossed", "behind"})',
         pc["sweep"] = "flag", pc'["sweep"] = "flag"
  PROVE  Has(The)'
<1>0. /\ map \in DOMAIN heap /\ The \in Maps /\ UNCHANGED found /\ ~Crash /\ ~Sweep
      /\ StoreOK
  BY FlagStays, AtWork, HeapMaps, ThreadTypes DEF sweep, TypeInv
<1>1. CASE WebLoads
  <2>1. file # Torn
    BY <1>1 DEF WebLoads, Everywhere
  <2>2. file \in Maps /\ Read = file /\ Has(file)
    BY <2>1 DEF Everywhere, Readable, Read, TypeInv, StoreOK
  <2>3. The' = [file EXCEPT !.phantom = FALSE]
    BY <1>0, <1>1, <2>2, LoadHeap DEF The
  <2> QED
    BY <1>0, <2>2, <2>3, HasSame DEF Has
<1>2. CASE ~WebLoads
  <2>1. map # 0 /\ ~SweepResets /\ Without({"crossed"})'
    BY <1>0, AtWork, ThreadTypes DEF Sweep, Without
  <2>2. Migrated(The).facts \subseteq Migrated(The').facts
    BY <1>0, <1>2, <2>1, TableGrows
  <2> QED
    BY <1>0, <2>2 DEF Has, Everywhere
<1> QED
  BY <1>1, <1>2

LEMMA HasBufStep ==
  ASSUME TypeInv, Together, Everywhere, Next, Without({"crossed", "behind"})',
         pc["sweep"] = "flag", pc'["sweep"] = "flag",
         NEW t \in Threads, pc'[t] \in {"dump", "replace"}
  PROVE  Has(buf[t])'
<1>0. /\ UNCHANGED found /\ ~Crash
      /\ Threads = {"web", "sync", "aim", "sweep"} /\ pc \in [Threads -> Spots]
      /\ buf \in [Threads -> Maps]
  BY FlagStays, ThreadTypes DEF sweep
<1>1. CASE Stays(t)
  BY <1>0, <1>1 DEF Stays, Has, Everywhere
<1>2. CASE Locks(t)
  <2>1. buf'[t] = The
    BY <1>0, <1>2 DEF Locks, Together, WritesThis, The
  <2> QED
    BY <1>0, <2>1 DEF Has, Everywhere
<1>3. CASE Dumps(t)
  <2> DEFINE was == buf[t]
             new == buf'[t]
  <2>1. /\ The \in Maps /\ was \in Maps /\ new \in Maps
        /\ new.walks = The.walks /\ new.table = The.table
        /\ was.walks = The.walks /\ was.table = The.table
        /\ \E rows \in SUBSET Rows :
             new.facts = {f \in was.facts : f[1] \notin rows} \cup
                         {f \in The.facts : f[1] \in rows}
    BY <1>3, Dumped
  <2>2. Has(was) /\ Has(The) /\ pc[t] = "dump"
    BY <1>3 DEF Everywhere, Dumps
  <2> HIDE DEF was, new
  <2>3. CASE Settled(The)
    <3>1. Settled(was) /\ Settled(new)
      BY <2>1, <2>3 DEF Settled
    <3>2. Taught(found) \subseteq was.facts /\ Taught(found) \subseteq The.facts
      BY <2>1, <2>2, <2>3, <3>1, MigratedIs DEF Has
    <3>3. Taught(found) \subseteq new.facts
      BY <2>1, <3>2
    <3> QED
      BY <1>0, <2>1, <3>1, <3>3, MigratedIs DEF Has, new
  <2>4. CASE ~Settled(The)
    <3>1. ~Settled(new)
      BY <2>1, <2>4 DEF Settled
    <3>2. Migrated(new).facts = Migrated(The).facts
      BY <2>1, <2>4, <3>1, MigratedIs
    <3> QED
      BY <1>0, <2>2, <3>2 DEF Has, new
  <2> QED
    BY <2>3, <2>4
<1>4. ~DumpRaises(t) /\ ~WriteFails(t) /\ ~Replaces(t)
  BY <1>0 DEF DumpRaises, WriteFails, Replaces, PersistFails, AfterPersist, Goto
<1> QED
  BY <1>0, <1>1, <1>2, <1>3, <1>4, Writers DEF Persist

LEMMA HasFileStep ==
  ASSUME TypeInv, Together, Everywhere, Next, Without({"crossed", "behind"})',
         pc["sweep"] = "flag", pc'["sweep"] = "flag"
  PROVE  /\ file' # None
         /\ Readable' => Has(file)'
         /\ file' = Torn => pc'["web"] = "copy" /\ Has(Example)'
<1>0. /\ UNCHANGED found /\ ~Crash /\ Example \in Maps /\ Uploads \subseteq Maps
      /\ Threads = {"web", "sync", "aim", "sweep"} /\ pc \in [Threads -> Spots]
      /\ saved + 1 \in Nat /\ map \in DOMAIN heap /\ The \in Maps /\ Torn # None
  <2>1. UNCHANGED found /\ ~Crash
    BY FlagStays DEF sweep
  <2>2. Example \in Maps /\ Uploads \subseteq Maps /\ Torn # None
    BY MapAssumption
  <2>3. saved + 1 \in Nat
    BY DEF TypeInv, EnvOK
  <2>4. map # 0
    BY AtWork, ThreadTypes
  <2> QED
    BY <2>1, <2>2, <2>3, <2>4, ThreadTypes, HeapMaps
<1>1. ASSUME NEW v \in Maps, Has(v), file' = [v EXCEPT !.save = saved + 1]
      PROVE  file' # None /\ file' # Torn /\ Has(file)'
  <2>1. file' \in Maps
    BY <1>0, <1>1, SavedAs
  <2>2. file' # None /\ file' # Torn
    BY <2>1, NotTorn
  <2> QED
    BY <1>0, <1>1, <2>2, HasSame DEF Has
<1>2. ASSUME NEW v \in Maps, WebSaves(v) \/ (WebCopies /\ v = Example), up
      PROVE  Has(v)
  <2>1. pc["web"] = "idle"
    BY <1>2 DEF WebSaves, WebCopies
  <2>2. Settled(The)
    BY <1>2, <2>1 DEF Together, Migrations
  <2>3. Taught(found) \subseteq The.facts
    BY <1>0, <2>2, MigratedIs DEF Has, Everywhere
  <2>4. The.facts \subseteq Migrated(v).facts
    BY <1>2, SavesAll
  <2> QED
    BY <2>3, <2>4 DEF Has
<1>3. CASE file' = file
  <2>1. file = Torn /\ pc["web"] = "copy" => pc'["web"] = "copy" \/ WebCopied
    BY <1>0, Frame
       DEF Web, WebSaves, WebCopies, WebLoads, WebMigrates, Stays, Persist,
       Locks, Dumps, DumpRaises, WriteFails, Replaces
  <2>2. WebCopied => file # Torn
    <3>1. CASE WebCopied /\ file = Torn
      BY <1>0, <1>3, <3>1, SavedAs, NotTorn DEF WebCopied
    <3> QED
      BY <3>1
  <2> QED
    BY <1>0, <1>3, <2>1, <2>2 DEF Everywhere, Readable, Has
<1>4. ASSUME NEW v \in Maps, up, WebSaves(v), file' = [v EXCEPT !.save = saved + 1]
      PROVE  file' # None /\ file' # Torn /\ Has(file)'
  BY <1>1, <1>2, <1>4
<1>5. CASE WebCopies /\ file' = Torn
  <2>1. pc'["web"] = "copy" /\ up
    BY <1>0, <1>5 DEF WebCopies, Goto
  <2> QED
    BY <1>0, <1>2, <1>5, <2>1 DEF Readable, Has
<1>6. CASE WebCopied /\ file = Torn /\ file' = [Example EXCEPT !.save = saved + 1]
  BY <1>0, <1>1, <1>6 DEF Everywhere
<1>7. ASSUME NEW t \in Threads, Replaces(t), file' = buf[t]
      PROVE  file' # None /\ file' # Torn /\ Has(file)'
  <2>1. Has(buf[t]) /\ buf[t] \in Maps
    BY <1>7, ThreadTypes DEF Replaces, Everywhere
  <2> QED
    BY <1>0, <1>7, <2>1, NotTorn DEF Has
<1> QED
  BY <1>0, <1>3, <1>4, <1>5, <1>6, <1>7, FileSteps

LEMMA EverywhereStep ==
  ASSUME TypeInv, Together, InHand, pc["sweep"] = "flag" => Everywhere, Next,
         Without({"crossed", "behind"})', pc'["sweep"] = "flag"
  PROVE  Everywhere'
<1>0. Threads = {"web", "sync", "aim", "sweep"} /\ pc \in [Threads -> Spots]
  BY ThreadTypes
<1>1. CASE pc["sweep"] = "flag"
  BY <1>1, HasTheStep, HasBufStep, HasFileStep DEF Everywhere
<1>2. CASE pc["sweep"] # "flag"
  <2>1. ~Crash
    BY <1>0 DEF Crash, Started
  <2>2. ~Stays("sweep")
    BY <1>2 DEF Stays
  <2>3. ~Sweep
    BY <1>0
       DEF Sweep, StartSweep, SweepBegins, SweepMeasures, SweepFails, SweepTakes,
       SweepAssigns, SweepResets, SweepFills, SweepPersists, SweepDone,
       CallsPersist, Goto
  <2>4. Persist("sweep")
    BY <2>1, <2>2, <2>3, Frame
  <2>5. Replaces("sweep")
    BY <1>0, <2>4
       DEF Persist, Locks, Dumps, DumpRaises, WriteFails, PersistFails, Goto
  <2> QED
    BY <2>5, EverywhereFirst
<1> QED
  BY <1>1, <1>2

LEMMA InitKept ==
  ASSUME Init
  PROVE  KeptInv
BY DEF Init, KeptInv, Kept, Measured, Filled, InHand, NoJob, Threads

LEMMA KeptStep ==
  ASSUME TypeInv, OneMap, KeptInv, [Next]_vars
  PROVE  KeptInv'
<1>1. CASE Next
  <2> SUFFICES ASSUME Without({"crossed", "behind"})'
               PROVE  Kept'
    BY DEF KeptInv
  <2>1. Kept
    BY <1>1, Remembers DEF KeptInv
  <2>2. Without({"crossed"})'
    BY DEF Without
  <2>3. Together
    BY <1>1, <2>2, Remembers DEF OneMap
  <2> QED
    BY <1>1, <2>1, <2>2, <2>3, MeasuredStep, FilledStep, InHandStep, EverywhereStep
       DEF Kept
<1>2. CASE UNCHANGED vars
  BY <1>2
     DEF KeptInv, Without, Kept, Measured, Filled, InHand, Everywhere, Has, Row,
     Readable, The, vars, store, locks, sweep
<1> QED
  BY <1>1, <1>2

LEMMA StaysTogether == Spec => [](TypeInv /\ OneMap)
<1>1. Init => OneMap
  BY InitOne
<1>2. TypeInv /\ OneMap /\ [Next]_vars => OneMap'
  BY OneMapStep
<1> QED
  BY <1>1, <1>2, Types, PTL DEF Spec

\* When a sweep is about to report that it is done, the names it read are in the map
\* in use and in the file, for any rows, maps and uploads, and whatever the sync, an
\* aim or the web saved while it measured, unless a save crosses a thread that has
\* taken a reference (which is what #38 repaired where the sweep measures), or is
\* older than the table.  (Of later it says nothing.)
THEOREM SweptIsKept == Spec => []SweepKept
<1>1. TypeInv /\ KeptInv => SweepKept
  BY DEF TypeInv, KeptInv, SweepKept, Kept, Everywhere, Has, Readable
<1>2. Init => KeptInv
  BY InitKept
<1>3. TypeInv /\ OneMap /\ KeptInv /\ [Next]_vars => KeptInv'
  BY KeptStep
<1> QED
  BY <1>1, <1>2, <1>3, StaysTogether, PTL DEF Spec


-----------------------------------------------------------------------------
(* What counts as measured is complete.                                    *)

\* The map v is complete but for the rows x.
CompleteBut(v, x) ==
  /\ \A r \in Rows \ x : v.source[r].kind = "sweep" =>
       \A h \in Hw : ReadAt(v.source[r].read, v.facts, r, h)
  /\ v.legacy = "pruned" => v.table /\ \A r \in Rows : v.source[r].kind = "sweep"

\* Of the row that is being filled anew, what was found of it is still to come.
Owed(i) == IF pc["sweep"] = "fill" /\ i = map THEN {Row} ELSE {}

Due(i) == IF pc["sweep"] = "fill" /\ i = map THEN RowOf(Taught(found), Row) ELSE {}

MapsComplete == \A i \in DOMAIN heap : CompleteBut(heap[i], Owed(i))

Rewriting == pc["sweep"] \in {"rows", "fill", "persist"}

\* Who writes while the sweep rewrites the table, is halfway.
DumpsComplete ==
  \A t \in Threads : pc[t] = "dump" =>
    \/ t # "sweep" /\ Rewriting
    \/ Complete(buf[t]) /\ buf[t].source = The.source

ReplacesComplete == \A t \in Threads : pc[t] = "replace" => Complete(buf[t])

FileComplete == Readable => Complete(file)

\* Every row has been read, of those before this one.
RowsRead ==
  \A j \in DOMAIN job.rows :
    \/ pc["sweep"] \notin {"begin", "measure", "assign", "rows", "fill"}
    \/ pc["sweep"] \in {"begin", "measure"} /\ j >= job.at
    \/ \A h \in Hw : \E n \in Names : <<job.rows[j], h, n>> \in found

AllComplete ==
  Measured /\ RowsRead /\ MapsComplete /\ DumpsComplete /\ ReplacesComplete
  /\ FileComplete

CompleteInv == Without({"halfway", "crossed"}) => AllComplete

LEMMA CompleteIs == \A v : CompleteBut(v, {}) <=> Complete(v)
BY DEF CompleteBut, Complete

LEMMA CompleteGrows ==
  ASSUME NEW v, NEW w, NEW x, CompleteBut(v, x), v.facts \subseteq w.facts,
         w.source = v.source, w.legacy = v.legacy, v.table => w.table
  PROVE  CompleteBut(w, x)
<1>1. ASSUME NEW r \in Rows \ x, w.source[r].kind = "sweep", NEW h \in Hw
      PROVE  ReadAt(w.source[r].read, w.facts, r, h)
  <2>1. ReadAt(v.source[r].read, v.facts, r, h)
    BY <1>1 DEF CompleteBut
  <2> QED
    BY <2>1 DEF ReadAt
<1> QED
  BY <1>1 DEF CompleteBut

\* Who is past the load has a map.
LEMMA HasMap ==
  ASSUME TypeInv, NEW t \in Threads, pc[t] \notin {"idle", "load"}
  PROVE  map # 0 /\ map \in DOMAIN heap /\ The \in Maps
<1>1. map # 0
  BY DEF TypeInv, StartOK
<1> QED
  BY <1>1, HeapMaps

\* The fields that matter here are the same.
LEMMA CompleteSame ==
  ASSUME NEW v \in Maps, Complete(v)
  PROVE  /\ \A n : Complete([v EXCEPT !.save = n])
         /\ Complete([v EXCEPT !.phantom = FALSE])
BY DEF Complete, Maps

LEMMA ReadComplete ==
  ASSUME FileComplete
  PROVE  Complete(Read)
<1>1. CASE file = None
  BY <1>1, RecordAssumption, MapAssumption DEF Read
<1>2. CASE file = Torn
  <2>1. Complete(EmptyMap)
    BY DEF Complete, EmptyMap, Source
  <2> QED
    BY <1>2, <2>1, MapAssumption DEF Read
<1>3. CASE Readable
  BY <1>3 DEF Read, FileComplete, Readable
<1> QED
  BY <1>1, <1>2, <1>3 DEF Readable

LEMMA RowsReadStep ==
  ASSUME TypeInv, Measured, RowsRead, Next
  PROVE  RowsRead'
<1>0. /\ Threads = {"web", "sync", "aim", "sweep"} /\ pc \in [Threads -> Spots]
      /\ job \in Jobs /\ job.at \in Nat /\ layout \in Layouts
      /\ \A h \in Hw : Shows[layout][h] \in Names
  BY ThreadTypes, MapAssumption DEF TypeInv, SweepOK, EnvOK, Jobs
<1>d. /\ DOMAIN job.rows = 1..Len(job.rows) /\ Len(job.rows) \in Nat
      /\ \A j \in DOMAIN job.rows : j \in Nat
  BY <1>0, LenProperties DEF Jobs
<1>1. CASE Crash
  BY <1>1 DEF Crash, Started, RowsRead, Threads
<1>2. ASSUME NEW rows \in Sweeps, NEW reset \in BOOLEAN, StartSweep(rows, reset)
      PROVE  RowsRead'
  <2>1. job'.rows = rows /\ job'.at = 1 /\ pc'["sweep"] = "begin"
    BY <1>0, <1>2 DEF StartSweep, Goto
  <2>2. rows \in Seq(Rows)
    BY MapAssumption
  <2>3. \A j \in DOMAIN rows : j >= 1
    BY <2>2, LenProperties
  <2> QED
    BY <2>1, <2>3 DEF RowsRead
<1>3. CASE SweepMeasures
  <2>1. /\ pc["sweep"] = "measure" /\ UNCHANGED pc
        /\ job.at \in DOMAIN job.rows /\ job' = [job EXCEPT !.at = job.at + 1]
        /\ found' = found \cup {<<job.rows[job.at], h, Shows[layout][h]>> : h \in Hw}
    BY <1>3 DEF SweepMeasures
  <2>2. job'.rows = job.rows /\ job'.at = job.at + 1
    BY <1>0, <2>1 DEF Jobs
  <2>3. ASSUME NEW j \in DOMAIN job.rows
        PROVE  \/ j >= job'.at
               \/ \A h \in Hw : \E n \in Names : <<job.rows[j], h, n>> \in found'
    <3>1. j >= job'.at \/ j = job.at \/ ~(j >= job.at)
      BY <1>0, <1>d, <2>2
    <3>2. CASE j = job.at
      BY <1>0, <2>1, <3>2
    <3>3. CASE ~(j >= job.at)
      BY <2>1, <3>3 DEF RowsRead
    <3> QED
      BY <3>1, <3>2, <3>3
  <2> QED
    BY <2>1, <2>2, <2>3 DEF RowsRead
<1>4. CASE SweepTakes
  <2>1. /\ pc["sweep"] = "measure" /\ pc'["sweep"] = "assign" /\ UNCHANGED found
        /\ job.at \notin DOMAIN job.rows /\ job' = [job EXCEPT !.at = 1]
    BY <1>0, <1>4 DEF SweepTakes, Goto
  <2>2. job'.rows = job.rows
    BY <1>0, <2>1 DEF Jobs
  <2>3. \A j \in DOMAIN job.rows : ~(j >= job.at)
    BY <1>0, <1>d, <2>1 DEF Measured
  <2> QED
    BY <2>1, <2>2, <2>3 DEF RowsRead
<1>5. CASE SweepFills
  <2>1. /\ pc["sweep"] \in {"rows", "fill"} /\ pc'["sweep"] = "rows"
        /\ UNCHANGED found /\ job' = [job EXCEPT !.at = job.at + 1]
    BY <1>0, <1>5 DEF SweepFills, Goto
  <2>2. job'.rows = job.rows
    BY <1>0, <2>1 DEF Jobs
  <2> QED
    BY <2>1, <2>2 DEF RowsRead
<1>6. CASE SweepBegins \/ SweepAssigns \/ SweepResets \/ SweepPersists
  <2>1. UNCHANGED sweep
    BY <1>6 DEF SweepBegins, SweepAssigns, SweepResets, SweepPersists
  <2>2. \/ pc["sweep"] = "begin" /\ pc'["sweep"] = "measure"
        \/ pc["sweep"] \in {"assign", "rows"}
           /\ pc'["sweep"] \in {"rows", "fill", "persist"}
    BY <1>0, <1>6
       DEF SweepBegins, SweepAssigns, SweepResets, SweepPersists, CallsPersist, Goto
  <2>3. UNCHANGED job /\ UNCHANGED found
    BY <2>1 DEF sweep
  <2> QED
    BY <2>2, <2>3 DEF RowsRead
<1>7. CASE SweepFails \/ SweepDone \/ Persist("sweep")
  <2>1. pc'["sweep"] \notin {"begin", "measure", "assign", "rows", "fill"}
    BY <1>0, <1>7
       DEF SweepFails, SweepDone, Persist, Locks, Dumps, DumpRaises, WriteFails,
       Replaces, PersistFails, AfterPersist, Goto
  <2> QED
    BY <2>1 DEF RowsRead
<1>8. CASE Stays("sweep") /\ UNCHANGED sweep
  BY <1>8 DEF Stays, RowsRead, sweep
<1> QED
  BY <1>1, <1>2, <1>3, <1>4, <1>5, <1>6, <1>7, <1>8, Frame DEF Sweep

\* While a row is filled anew, the sweep alone can end that.
LEMMA DueStays ==
  ASSUME TypeInv, Together, Next, ~WebLoads, ~Crash, NEW i,
         ~(i = map /\ SweepResets), ~(i = map /\ SweepFills)
  PROVE  Due(i)' = Due(i) /\ Owed(i)' = Owed(i)
<1>0. Threads = {"web", "sync", "aim", "sweep"} /\ pc \in [Threads -> Spots]
  BY ThreadTypes
<1>1. map' = map
  BY UseStays
<1> SUFFICES ASSUME i = map
             PROVE  Due(i)' = Due(i) /\ Owed(i)' = Owed(i)
  BY <1>1 DEF Due, Owed
<1>2. CASE Sweep
  <2>0. status = "running" <=> pc["sweep"] # "idle"
    BY DEF TypeInv, SweepOK
  <2>1. pc["sweep"] # "fill" /\ pc'["sweep"] # "fill"
    BY <1>0, <1>2, <2>0
       DEF Sweep, StartSweep, SweepBegins, SweepMeasures, SweepFails, SweepTakes,
       SweepAssigns, SweepPersists, SweepDone, SweepResets, SweepFills,
       CallsPersist, Goto
  <2> QED
    BY <2>1 DEF Due, Owed
<1>3. CASE Persist("sweep")
  <2>1. pc["sweep"] # "fill" /\ pc'["sweep"] # "fill"
    BY <1>0, <1>3
       DEF Persist, Locks, Dumps, DumpRaises, WriteFails, Replaces, PersistFails,
       AfterPersist, Goto
  <2> QED
    BY <2>1 DEF Due, Owed
<1>4. CASE Stays("sweep") /\ UNCHANGED sweep
  BY <1>1, <1>4 DEF Stays, Due, Owed, Row, sweep
<1> QED
  BY <1>2, <1>3, <1>4, Frame

LEMMA MapsCompleteStep ==
  ASSUME TypeInv, Together, RowsRead, MapsComplete, FileComplete, Next,
         Without({"crossed"})'
  PROVE  MapsComplete'
<1>0. /\ heap \in Seq(Maps) /\ \A j \in DOMAIN heap : heap[j] \in Maps
      /\ StoreOK /\ found \in SUBSET Facts /\ job \in Jobs
      /\ Threads = {"web", "sync", "aim", "sweep"} /\ pc \in [Threads -> Spots]
  BY HeapMaps, ThreadTypes DEF TypeInv, SweepOK
<1>1. CASE Crash
  BY <1>1 DEF Crash, Started, MapsComplete
<1>2. CASE WebLoads
  <2>1. Complete(Read) /\ Read \in Maps
    BY <1>0, ReadComplete, ReadFits
  <2>2. Complete([Read EXCEPT !.phantom = FALSE])
    BY <2>1, CompleteSame
  <2>3. /\ heap' \in Seq(Maps) /\ Len(heap') = Len(heap) + 1
        /\ map' = Len(heap')
        /\ \A i \in DOMAIN heap : heap'[i] = heap[i]
        /\ heap'[map'] = [Read EXCEPT !.phantom = FALSE]
    BY <1>0, <1>2, LoadHeap
  <2>4. DOMAIN heap' = 1..(Len(heap) + 1) /\ DOMAIN heap = 1..Len(heap)
        /\ Len(heap) \in Nat
    BY <1>0, <2>3, LenProperties
  <2>5. \A i \in DOMAIN heap' : heap'[i] \in Maps /\ (i \in DOMAIN heap \/ i = map')
    BY <2>3, <2>4
  <2>6. pc["sweep"] # "fill" /\ pc'["sweep"] # "fill"
    BY <1>0, <1>2, LoadsAlone DEF Holding, Stays
  <2>7. (\A i : Owed(i) = {}) /\ (\A i : Owed(i)' = {})
    BY <2>6 DEF Owed
  <2>8. \A i \in DOMAIN heap : Complete(heap[i])
    BY <2>7, CompleteIs DEF MapsComplete
  <2>9. \A i \in DOMAIN heap' : Complete(heap'[i])
    BY <2>2, <2>3, <2>5, <2>8
  <2> QED
    BY <2>7, <2>9, CompleteIs DEF MapsComplete
<1>3. CASE ~Crash /\ ~WebLoads
  <2>0. DOMAIN heap' = DOMAIN heap /\ map' = map
    BY <1>3, MapSteps, UseStays
  <2> SUFFICES ASSUME NEW j \in DOMAIN heap
               PROVE  CompleteBut(heap'[j], Owed(j)')
    BY <2>0 DEF MapsComplete
  <2> DEFINE v == heap[j]
             w == heap'[j]
             x == Owed(j)
  <2>v. v \in Maps /\ CompleteBut(v, x)
    BY <1>0 DEF MapsComplete
  <2>1. CASE j = map /\ SweepResets
    <3>1. /\ pc["sweep"] = "rows" /\ pc'["sweep"] = "fill" /\ obj["sweep"] = map
          /\ UNCHANGED sweep /\ job.at \in DOMAIN job.rows
      BY <1>0, <2>1 DEF SweepResets, Together, HoldsThis, Goto
    <3>2. w = Knows(v, v.facts \ RowOf(v.facts, Row))
      BY <1>0, <2>1, <3>1, HeapAt DEF SweepResets, Knows, Row
    <3>3. /\ w.facts = v.facts \ RowOf(v.facts, Row) /\ w.source = v.source
          /\ w.legacy = v.legacy /\ w.table = v.table
      BY <2>v, <3>2, KnowsFields
    <3>4. Owed(j)' = {Row} /\ x = {}
      BY <2>0, <2>1, <3>1 DEF Owed, sweep, Row
    <3>5. ASSUME NEW r \in Rows \ {Row}, w.source[r].kind = "sweep", NEW h \in Hw
          PROVE  ReadAt(w.source[r].read, w.facts, r, h)
      <4>1. ReadAt(v.source[r].read, v.facts, r, h)
        BY <2>v, <3>3, <3>4, <3>5 DEF CompleteBut
      <4> QED
        BY <3>3, <3>5, <4>1 DEF ReadAt, RowOf
    <3>6. w.legacy = "pruned" => w.table /\ \A r \in Rows : w.source[r].kind = "sweep"
      BY <2>v, <3>3 DEF CompleteBut
    <3> QED
      BY <3>4, <3>5, <3>6 DEF CompleteBut
  <2>2. CASE j = map /\ SweepFills
    <3>1. /\ pc["sweep"] \in {"rows", "fill"} /\ pc'["sweep"] = "rows"
          /\ obj["sweep"] = map /\ job.at \in DOMAIN job.rows
          /\ heap' = [heap EXCEPT
                         ![obj["sweep"]].facts = @ \cup RowOf(Taught(found), Row),
                         ![obj["sweep"]].source[Row] = Measure]
      BY <1>0, <2>2 DEF SweepFills, Together, HoldsThis, Goto, Row, Measure
    <3>r. Row \in Rows
      BY <1>0, <3>1, LenProperties, ElementOfSeq DEF Jobs, Row
    <3>2. /\ w.facts = v.facts \cup RowOf(Taught(found), Row)
          /\ w.source = [v.source EXCEPT ![Row] = Measure]
          /\ w.legacy = v.legacy /\ w.table = v.table
      BY <1>0, <2>2, <2>v, <3>1 DEF Maps
    <3>3. Owed(j)' = {} /\ x \subseteq {Row}
      BY <3>1 DEF Owed
    <3>4. \A h \in Hw : \E n \in Names : <<Row, h, n>> \in found
      BY <3>1 DEF RowsRead, Row
    <3>5. v.source \in [Rows -> Sources]
      BY <2>v, MapFits
    <3>s. /\ w.source[Row] = Measure
          /\ \A r \in Rows : r # Row => w.source[r] = v.source[r]
      BY <3>2, <3>5, <3>r
    <3>6. ASSUME NEW r \in Rows, w.source[r].kind = "sweep", NEW h \in Hw
          PROVE  ReadAt(w.source[r].read, w.facts, r, h)
      <4>1. CASE r = Row
        <5>1. PICK n \in Names : <<Row, h, n>> \in found
          BY <3>4
        <5>2. <<Row, h, n>> \in RowOf(found, Row)
          BY <5>1 DEF RowOf
        <5>3. n # NoName => <<Row, h, n>> \in RowOf(Taught(found), Row)
          BY <5>1 DEF RowOf, Taught
        <5> QED
          BY <3>2, <3>s, <4>1, <5>2, <5>3 DEF ReadAt, Measure
      <4>2. CASE r # Row
        <5>1. ReadAt(v.source[r].read, v.facts, r, h)
          BY <2>v, <3>3, <3>s, <3>6, <4>2 DEF CompleteBut
        <5> QED
          BY <3>2, <3>s, <4>2, <5>1 DEF ReadAt
      <4> QED
        BY <4>1, <4>2
    <3>7. w.legacy = "pruned" => w.table /\ \A r \in Rows : w.source[r].kind = "sweep"
      BY <2>v, <3>2, <3>s DEF CompleteBut, Measure
    <3> QED
      BY <3>3, <3>6, <3>7 DEF CompleteBut
  <2>3. CASE ~(j = map /\ SweepResets) /\ ~(j = map /\ SweepFills)
    <3>0. Owed(j)' = x
      BY <1>3, <2>3, DueStays
    <3>1. CASE w = v
      BY <2>v, <3>0, <3>1
    <3>2. CASE Migrates(j)
      <4>1. CASE Settled(v)
        BY <2>v, <3>0, <3>2, <4>1, MigratedIs DEF Migrates
      <4>2. CASE ~Settled(v)
        <5>1. w.source = [r \in Rows |->
                            Source(IF r = "outputs" THEN "legacy" ELSE "none")]
              /\ w.legacy = v.legacy /\ ~v.table
          BY <2>v, <3>2, <4>2 DEF Migrates, Migrated, Settled, Maps
        <5>2. (\A r \in Rows : w.source[r].kind # "sweep") /\ w.legacy # "pruned"
          BY <2>v, <5>1 DEF Source, CompleteBut
        <5> QED
          BY <3>0, <5>2 DEF CompleteBut
      <4> QED
        BY <4>1, <4>2
    <3>3. CASE GetsTable(j)
      <4>1. /\ w.facts = v.facts /\ w.source = v.source /\ w.legacy = v.legacy
            /\ w.table
        BY <2>v, <3>3 DEF GetsTable, Maps
      <4> QED
        BY <2>v, <3>0, <4>1, CompleteGrows
    <3>4. CASE LearnsName(j) \/ LearnsPair(j) \/ LearnsAim(j)
      <4>1. PICK y : w = Knows(v, y) /\ v.facts \subseteq y
        BY <3>4 DEF LearnsName, LearnsPair, LearnsAim
      <4>2. /\ v.facts \subseteq w.facts /\ w.source = v.source
            /\ w.legacy = v.legacy /\ w.table = v.table
        BY <2>v, <4>1, KnowsFields
      <4> QED
        BY <2>v, <3>0, <4>2, CompleteGrows
    <3>5. CASE LosesRow(j) \/ GetsRow(j)
      <4>1. pc["sweep"] \in {"rows", "fill"} /\ j = obj["sweep"]
        BY <3>5 DEF LosesRow, GetsRow, SweepResets, SweepFills
      <4> QED
        BY <2>3, <3>5, <4>1 DEF LosesRow, GetsRow, Together, HoldsThis
    <3>6. CASE Pruned(j)
      <4>1. /\ pc["sweep"] = "rows" /\ obj["sweep"] = map /\ j = map
            /\ AllMeasured(heap[obj["sweep"]])
        BY <3>6 DEF Pruned, SweepPersists, Together, HoldsThis
      <4>2. v.table
        BY <1>0, <4>1 DEF Together, HasTable, AtTable, The
      <4>3. /\ w.facts = v.facts /\ w.source = v.source /\ w.table = v.table
        BY <2>v, <3>6 DEF Pruned, Maps
      <4>4. \A r \in Rows : w.source[r].kind = "sweep"
        BY <4>1, <4>3 DEF AllMeasured
      <4> QED
        BY <2>v, <3>0, <4>2, <4>3, <4>4 DEF CompleteBut
    <3> QED
      BY <1>3, <3>1, <3>2, <3>3, <3>4, <3>5, <3>6, MapSteps
  <2> QED
    BY <2>1, <2>2, <2>3
<1> QED
  BY <1>1, <1>2, <1>3

\* The map in use, when no row of it is being filled anew.
LEMMA TheComplete ==
  ASSUME TypeInv, MapsComplete, map # 0, pc["sweep"] # "fill"
  PROVE  Complete(The)
<1>1. map \in DOMAIN heap /\ The \in Maps
  BY HeapMaps
<1>2. CompleteBut(The, {})
  BY <1>1 DEF MapsComplete, Owed, The
<1> QED
  BY <1>2, CompleteIs

LEMMA DumpsCompleteStep ==
  ASSUME TypeInv, Together, MapsComplete, DumpsComplete, Next, Without({"crossed"})'
  PROVE  DumpsComplete'
<1>0. /\ Threads = {"web", "sync", "aim", "sweep"} /\ pc \in [Threads -> Spots]
      /\ buf \in [Threads -> Maps]
  BY ThreadTypes
<1> SUFFICES ASSUME NEW t \in Threads, pc'[t] = "dump"
             PROVE  \/ t # "sweep" /\ Rewriting'
                    \/ Complete(buf'[t]) /\ buf'[t].source = The'.source
  BY DEF DumpsComplete
<1>1. ~Crash
  BY DEF Crash, Started
<1>2. CASE Locks(t)
  <2>1. buf'[t] = The /\ UNCHANGED store /\ pc[t] = "persist"
        /\ \A u \in Threads : u # t => pc'[u] = pc[u]
    BY <1>0, <1>2 DEF Locks, Together, WritesThis, The, Goto
  <2>2. The' = The
    BY <2>1 DEF store, The
  <2>3. CASE pc["sweep"] = "fill"
    BY <1>0, <2>1, <2>3 DEF Rewriting
  <2>4. CASE pc["sweep"] # "fill"
    <3>1. map # 0
      BY <2>1, HasMap
    <3> QED
      BY <2>1, <2>2, <2>4, <3>1, TheComplete
  <2> QED
    BY <2>3, <2>4
<1>3. CASE Stays(t)
  <2>1. pc[t] = "dump" /\ buf'[t] = buf[t] /\ lock = t
    BY <1>3 DEF Stays, TypeInv, LockOK
  <2>2. ~WebLoads
    <3>1. CASE t = "web"
      BY <2>1, <3>1 DEF WebLoads
    <3>2. CASE t # "web"
      BY <1>0, <2>1, <3>2, LoadsAlone DEF Holding
    <3> QED
      BY <3>1, <3>2
  <2>3. map \in DOMAIN heap /\ The \in Maps /\ map' = map
    BY <1>1, <2>1, <2>2, UseStays, HasMap
  <2>4. CASE t # "sweep" /\ Rewriting
    <3>1. ~Locks("sweep")
      BY <1>0, <2>1, <2>4, MapAssumption DEF Locks
    <3>2. Persist("sweep") => FALSE
      BY <2>4, <3>1 DEF Persist, Dumps, DumpRaises, WriteFails, Replaces, Rewriting
    <3>3. Sweep => Rewriting'
      BY <1>0, <2>4
         DEF Sweep, StartSweep, SweepBegins, SweepMeasures, SweepFails,
         SweepTakes, SweepAssigns, SweepResets, SweepFills, SweepPersists,
         SweepDone, CallsPersist, Goto, Rewriting, TypeInv, SweepOK
    <3> QED
      BY <1>1, <2>4, <3>2, <3>3, Frame DEF Stays, Rewriting
  <2>5. CASE Complete(buf[t]) /\ buf[t].source = The.source
    <3>1. CASE SweepFills
      <4>1. pc["sweep"] \in {"rows", "fill"} /\ pc'["sweep"] = "rows"
        BY <1>0, <3>1 DEF SweepFills, Goto
      <4> QED
        BY <2>1, <4>1 DEF Rewriting
    <3>2. CASE ~SweepFills
      <4>1. CASE Migrates(map)
        <5>1. t # "web"
          BY <2>1, <4>1 DEF Migrates, WebMigrates
        <5>2. Settled(The)
          BY <1>0, <2>1, <5>1 DEF Together, HasTable, AtTable, Settled
        <5> QED
          BY <2>1, <2>3, <2>5, <4>1, <5>2, MigratedIs DEF Migrates, The
      <4>2. CASE ~Migrates(map)
        <5> DEFINE v == heap[map]
                   w == heap'[map]
        <5>0. v \in Maps /\ v = The /\ w = The'
          BY <2>3 DEF The
        <5>2. ASSUME LearnsName(map) \/ LearnsPair(map) \/ LearnsAim(map) \/ LosesRow(map)
              PROVE  w.source = v.source
          <6>1. \E y : w = Knows(v, y)
            BY <5>2 DEF LearnsName, LearnsPair, LearnsAim, LosesRow
          <6> QED
            BY <5>0, <6>1, KnowsFields
        <5>3. ASSUME GetsTable(map) \/ Pruned(map)
              PROVE  w.source = v.source
          <6>1. w = [v EXCEPT !.table = TRUE] \/ w = [v EXCEPT !.legacy = "pruned"]
            BY <5>3 DEF GetsTable, Pruned
          <6> QED
            BY <5>0, <6>1 DEF Maps
        <5>4. ~GetsRow(map)
          BY <3>2 DEF GetsRow
        <5>1. The'.source = The.source
          BY <1>1, <2>2, <2>3, <4>2, <5>0, <5>2, <5>3, <5>4, MapSteps
        <5> QED
          BY <2>1, <2>5, <5>1
      <4> QED
        BY <4>1, <4>2
    <3> QED
      BY <3>1, <3>2
  <2> QED
    BY <2>1, <2>4, <2>5 DEF DumpsComplete
<1>4. ~Dumps(t) /\ ~DumpRaises(t) /\ ~WriteFails(t) /\ ~Replaces(t)
  BY <1>0
     DEF Dumps, DumpRaises, WriteFails, Replaces, PersistFails, AfterPersist, Goto
<1> QED
  BY <1>1, <1>2, <1>3, <1>4, Writers DEF Persist

LEMMA ReplacesCompleteStep ==
  ASSUME TypeInv, Together, MapsComplete, DumpsComplete, ReplacesComplete, Next,
         Without({"halfway"})'
  PROVE  ReplacesComplete'
<1>0. /\ Threads = {"web", "sync", "aim", "sweep"} /\ pc \in [Threads -> Spots]
      /\ buf \in [Threads -> Maps]
  BY ThreadTypes
<1> SUFFICES ASSUME NEW t \in Threads, pc'[t] = "replace"
             PROVE  Complete(buf'[t])
  BY DEF ReplacesComplete
<1>1. ~Crash
  BY DEF Crash, Started
<1>2. CASE Stays(t)
  BY <1>2 DEF Stays, ReplacesComplete
<1>3. CASE Dumps(t)
  <2>1. pc[t] = "dump"
        /\ Suffers(If("halfway", t # "sweep" /\ pc["sweep"] \in {"rows", "fill", "persist"}))
    BY <1>3 DEF Dumps
  <2>2. ~(t # "sweep" /\ Rewriting)
    BY <2>1, Spared DEF Rewriting
  <2>3. Complete(buf[t]) /\ buf[t].source = The.source
    BY <2>1, <2>2 DEF DumpsComplete
  <2>4. map # 0 /\ Complete(The)
    BY <1>0, <2>1, <2>2, HasMap, TheComplete DEF Rewriting
  <2> DEFINE was == buf[t]
             new == buf'[t]
  <2>5. PICK rows \in SUBSET Rows :
          new.facts = {f \in was.facts : f[1] \notin rows} \cup
                      {f \in The.facts : f[1] \in rows}
    BY <1>3, Dumped
  <2>6. /\ new.source = The.source /\ new.legacy = The.legacy
        /\ new.table = The.table
    BY <1>3, <2>3, Dumped
  <2>7. was.source = The.source /\ Complete(was)
    BY <2>3
  <2> HIDE DEF was, new
  <2>8. ASSUME NEW r \in Rows, The.source[r].kind = "sweep", NEW h \in Hw
        PROVE  ReadAt(The.source[r].read, new.facts, r, h)
    <3>1. CASE r \in rows
      <4>1. ReadAt(The.source[r].read, The.facts, r, h)
        BY <2>4, <2>8 DEF Complete
      <4> QED
        BY <2>5, <3>1, <4>1 DEF ReadAt
    <3>2. CASE r \notin rows
      <4>1. ReadAt(The.source[r].read, was.facts, r, h)
        BY <2>7, <2>8 DEF Complete
      <4> QED
        BY <2>5, <3>2, <4>1 DEF ReadAt
    <3> QED
      BY <3>1, <3>2
  <2>9. Complete(new)
    BY <2>4, <2>6, <2>8 DEF Complete
  <2> QED
    BY <2>9 DEF new
<1>4. ~Locks(t) /\ ~DumpRaises(t) /\ ~WriteFails(t) /\ ~Replaces(t)
  BY <1>0
     DEF Locks, DumpRaises, WriteFails, Replaces, PersistFails, AfterPersist, Goto
<1> QED
  BY <1>1, <1>2, <1>3, <1>4, Writers DEF Persist

LEMMA FileCompleteStep ==
  ASSUME TypeInv, MapsComplete, ReplacesComplete, FileComplete, Next,
         Without({"crossed"})'
  PROVE  FileComplete'
<1>0. Example \in Maps /\ Uploads \subseteq Maps
  BY MapAssumption
<1>1. CASE file' = file
  BY <1>1 DEF FileComplete, Readable
<1>2. ASSUME map # 0, WebSaves(The), file' = [The EXCEPT !.save = saved + 1]
      PROVE  FileComplete'
  <2>1. ~Holding
    BY <1>2 DEF WebSaves, Suffers, If, Without
  <2>2. The \in Maps /\ Complete(The)
    BY <1>2, <2>1, HeapMaps, TheComplete DEF Holding
  <2> QED
    BY <1>2, <2>2, CompleteSame DEF FileComplete
<1>3. ASSUME NEW v \in Uploads \cup {Example}, file' = [v EXCEPT !.save = saved + 1]
      PROVE  FileComplete'
  BY <1>0, <1>3, CompleteSame, RecordAssumption DEF FileComplete
<1>4. CASE file' = Torn
  BY <1>4 DEF FileComplete, Readable
<1>5. ASSUME NEW t \in Threads, Replaces(t), file' = buf[t]
      PROVE  FileComplete'
  BY <1>5 DEF FileComplete, ReplacesComplete, Replaces
<1> QED
  BY <1>1, <1>2, <1>3, <1>4, <1>5, FileSteps

LEMMA InitComplete ==
  ASSUME Init
  PROVE  CompleteInv
<1>1. FileComplete
  BY RecordAssumption DEF Init, FileComplete, Readable
<1>2. Measured /\ RowsRead /\ MapsComplete /\ DumpsComplete /\ ReplacesComplete
  BY DEF Init, Measured, RowsRead, MapsComplete, DumpsComplete, ReplacesComplete,
     NoJob, Threads
<1> QED
  BY <1>1, <1>2 DEF CompleteInv, AllComplete

LEMMA CompleteStep ==
  ASSUME TypeInv, OneMap, CompleteInv, [Next]_vars
  PROVE  CompleteInv'
<1>1. CASE Next
  <2> SUFFICES ASSUME Without({"halfway", "crossed"})'
               PROVE  AllComplete'
    BY DEF CompleteInv
  <2>1. AllComplete
    BY <1>1, Remembers DEF CompleteInv
  <2>2. Without({"crossed"})' /\ Without({"halfway"})'
    BY DEF Without
  <2>3. Together
    BY <1>1, <2>2, Remembers DEF OneMap
  <2> QED
    BY <1>1, <2>1, <2>2, <2>3, MeasuredStep, RowsReadStep, MapsCompleteStep,
       DumpsCompleteStep, ReplacesCompleteStep, FileCompleteStep DEF AllComplete
<1>2. CASE UNCHANGED vars
  BY <1>2
     DEF CompleteInv, Without, AllComplete, Measured, RowsRead, MapsComplete, Owed,
     Row, DumpsComplete, Rewriting, ReplacesComplete, FileComplete,
     Readable, The, vars, store, locks, sweep, env
<1> QED
  BY <1>1, <1>2

\* What the file counts as measured was read at every channel of its row, and the file
\* has the names that were read; the legacy structures are gone only when every row
\* was measured, for any rows, maps and sweeps, unless a thread writes the table while
\* the sweep fills it or a save crosses it.  (A channel that shows no name stays
\* unknown: measured is not named.  Of the map in use it says nothing.)
THEOREM MeasuredComplete == Spec => []MeasuredIsComplete
<1>1. CompleteInv => MeasuredIsComplete
  BY DEF CompleteInv, MeasuredIsComplete, AllComplete, FileComplete
<1>2. Init => CompleteInv
  BY InitComplete
<1>3. TypeInv /\ OneMap /\ CompleteInv /\ [Next]_vars => CompleteInv'
  BY CompleteStep
<1> QED
  BY <1>1, <1>2, <1>3, StaysTogether, PTL DEF Spec


-----------------------------------------------------------------------------
(* What was heard is learned.                                              *)

\* What the table holds, or is about to hold again.
Table == Migrated(The).facts \cup Due(map)

\* The same name at the right member.
PairFact(x) == <<x[1], x[2] + 1, heard[x[1]][x[2]].name>>

Learned(x) ==
  /\ HeardFact(x) \in Table
  /\ heard[x[1]][x[2]].stereo =>
       PairFact(x) \in Table \/ (pc["sync"] = "mirror" /\ item = HeardFact(x))

AllLearned ==
  up => \A x \in Fed \ (pending \cup todo) : Named(HeardFact(x)[3]) => Learned(x)

Drained == pc["sync"] \notin {"table", "merge", "mirror"} => todo = {}

HeardOfFed ==
  \A r \in Rows, h \in Hw :
    /\ <<r, h>> \notin Fed \/ ~up => heard[r][h].name = None
    /\ heard[r][h].stereo => h + 1 \in Hw

\* What was saved and is not loaded yet, knows what the table has learned.
SavedAll ==
  /\ up /\ pc["web"] = "load" => Readable /\ The.facts \subseteq Migrated(file).facts
  /\ up /\ pc["web"] = "copy" => The.facts \subseteq Migrated(Example).facts

LearnInv ==
  Without({"crossed", "behind", "untabled", "wiped"}) =>
    Drained /\ HeardOfFed /\ SavedAll /\ AllLearned

\* Who hears something, hears it of one channel.
LEMMA HearsOne ==
  ASSUME TypeInv, NEW r \in Rows, NEW h \in Hw, HearsName(r, h) \/ HearsStereo(r, h)
  PROVE  /\ \A o \in Rows, k \in Hw : o # r \/ k # h => heard'[o][k] = heard[o][k]
         /\ HearsName(r, h) => /\ heard'[r][h].stereo = heard[r][h].stereo
                               /\ heard'[r][h].name = Shows[layout][h]
         /\ HearsStereo(r, h) => /\ heard'[r][h].name = heard[r][h].name
                                 /\ heard'[r][h].stereo = Linked(layout, h)
<1> DEFINE was == heard[r][h]
           name == [was EXCEPT !.name = Shows[layout][h]]
           flag == [was EXCEPT !.stereo = Linked(layout, h)]
<1>1. heard \in Heard
  BY DEF TypeInv, FeedOK
<1>2. was \in [name : Names \cup {None}, stereo : BOOLEAN]
  BY <1>1 DEF Heard
<1>3. /\ HearsName(r, h) => heard' = [heard EXCEPT ![r][h] = name]
      /\ HearsStereo(r, h) => heard' = [heard EXCEPT ![r][h] = flag]
  BY DEF HearsName, HearsStereo
<1>4. /\ name.stereo = was.stereo /\ flag.name = was.name
      /\ flag.stereo = Linked(layout, h) /\ name.name = Shows[layout][h]
  BY <1>2
<1> HIDE DEF name, flag
<1>5. ASSUME NEW v, heard' = [heard EXCEPT ![r][h] = v]
      PROVE  /\ \A o \in Rows, k \in Hw :
                  o # r \/ k # h => heard'[o][k] = heard[o][k]
             /\ heard'[r][h] = v
  BY <1>1, <1>5 DEF Heard
<1> QED
  BY <1>3, <1>4, <1>5

LEMMA FeedSteps ==
  ASSUME Next, ~Crash
  PROVE  \/ UNCHANGED feed
         \/ SyncDrains
         \/ \E x \in Fed : HearsName(x[1], x[2]) \/ HearsStereo(x[1], x[2])
<1>1. CASE Web
  BY <1>1 DEF Web, WebSaves, WebCopies, WebCopied, WebLoads, WebMigrates
<1>2. CASE Sync
  BY <1>2 DEF Sync, SyncTakes, SyncMerges, SyncMirrors, SyncPersists
<1>3. CASE Aim
  BY <1>3 DEF Aim, AimConfirms, AimMerges, AimPersists
<1>4. CASE Sweep
  BY <1>4
     DEF Sweep, StartSweep, SweepBegins, SweepMeasures, SweepFails, SweepTakes,
     SweepAssigns, SweepResets, SweepFills, SweepPersists, SweepDone
<1>5. CASE \E t \in Threads : Persist(t)
  BY <1>5
     DEF Persist, Locks, Dumps, DumpRaises, WriteFails, Replaces, PersistFails
<1>6. CASE \E l \in Layouts : Relayout(l)
  BY <1>6 DEF Relayout
<1> QED
  BY <1>1, <1>2, <1>3, <1>4, <1>5, <1>6 DEF Next

LEMMA DrainedStep ==
  ASSUME TypeInv, Drained, Next
  PROVE  Drained'
<1>0. Threads = {"web", "sync", "aim", "sweep"} /\ pc \in [Threads -> Spots]
  BY ThreadTypes
<1>1. CASE Crash
  BY <1>1 DEF Crash, Started, Drained
<1>2. CASE Sync
  BY <1>0, <1>2
     DEF Sync, HearsName, HearsStereo, SyncDrains, SyncTakes, SyncMerges,
     SyncMirrors, SyncPersists, CallsPersist, Goto, Drained, syncs
<1>3. CASE Persist("sync") /\ UNCHANGED syncs
  <2>1. todo' = {}
    BY <1>3
       DEF Persist, Locks, Dumps, DumpRaises, WriteFails, Replaces, Drained, syncs
  <2> QED
    BY <2>1 DEF Drained
<1>4. CASE Stays("sync") /\ UNCHANGED syncs
  BY <1>4 DEF Stays, Drained, syncs
<1> QED
  BY <1>1, <1>2, <1>3, <1>4, Frame

LEMMA HeardOfFedStep ==
  ASSUME TypeInv, HeardOfFed, Next
  PROVE  HeardOfFed'
<1>0. heard \in Heard /\ Fed \subseteq Rows \X Hw
  BY MapAssumption DEF TypeInv, FeedOK
<1>1. ASSUME NEW x \in Fed, HearsName(x[1], x[2]) \/ HearsStereo(x[1], x[2])
      PROVE  HeardOfFed'
  <2>1. PICK r \in Rows, h \in Hw : x = <<r, h>>
    BY <1>0
  <2>2. Linked(layout, h) => h + 1 \in Hw
    BY DEF Linked
  <2>3. up /\ up' /\ (HearsName(r, h) \/ HearsStereo(r, h))
    BY <1>1, <2>1 DEF HearsName, HearsStereo
  <2>4. ASSUME NEW o \in Rows, NEW k \in Hw
        PROVE  /\ <<o, k>> \notin Fed \/ ~up' => heard'[o][k].name = None
               /\ heard'[o][k].stereo => k + 1 \in Hw
    <3>1. CASE o # r \/ k # h
      BY <2>3, <3>1, HearsOne DEF HeardOfFed
    <3>2. CASE o = r /\ k = h
      BY <1>1, <2>1, <2>2, <2>3, <3>2, HearsOne DEF HeardOfFed
    <3> QED
      BY <3>1, <3>2
  <2> QED
    BY <2>4 DEF HeardOfFed
<1>2. CASE Crash
  BY <1>2 DEF Crash, Started, HeardOfFed
<1>3. CASE ~Crash /\ UNCHANGED heard
  <2>1. up => up'
    BY <1>3, UpStays DEF WebMigrates
  <2> QED
    BY <1>3, <2>1 DEF HeardOfFed
<1> QED
  BY <1>1, <1>2, <1>3, FeedSteps DEF SyncDrains, feed

\* Between a save and its load nobody touches the file, or what the table has
\* learned.
LEMMA SavingAlone ==
  ASSUME TypeInv, Together, up, pc["web"] \in {"copy", "load"}, Next, ~Crash,
         ~WebCopied, ~WebLoads
  PROVE  file' = file /\ The'.facts = The.facts
<1>0. Threads = {"web", "sync", "aim", "sweep"} /\ pc \in [Threads -> Spots]
  BY ThreadTypes
<1>1. ~Holding
  BY DEF Together, OneAtATime, Saving
<1>2. /\ pc["sync"] \in {"idle", "table"} /\ pc["aim"] = "idle"
      /\ pc["sweep"] \in {"idle", "begin", "measure", "flag"}
  BY <1>1 DEF Holding
<1>3. file' = file
  <2>1. \A t \in Threads : ~Replaces(t)
    BY <1>0, <1>2 DEF Replaces
  <2>2. \A v : ~WebSaves(v)
    BY DEF WebSaves
  <2>3. ~WebCopies
    BY DEF WebCopies
  <2> QED
    BY <2>1, <2>2, <2>3, FileSteps
<1>4. map \in DOMAIN heap /\ The \in Maps /\ map' = map /\ The' = heap'[map]
  BY HeapMaps, UseStays DEF The, TypeInv, StartOK
<1>5. /\ ~LearnsName(map) /\ ~LearnsPair(map) /\ ~LearnsAim(map) /\ ~LosesRow(map)
      /\ ~GetsRow(map) /\ ~Pruned(map) /\ ~Migrates(map)
  BY <1>2
     DEF LearnsName, LearnsPair, LearnsAim, LosesRow, GetsRow, Pruned, Migrates,
     SyncMerges, SyncMirrors, AimMerges, SweepResets, SweepFills, SweepPersists,
     WebMigrates
<1>6. GetsTable(map) => The'.facts = The.facts
  BY <1>4 DEF GetsTable, The, Maps
<1> QED
  BY <1>3, <1>4, <1>5, <1>6, MapSteps DEF The

LEMMA SavedAllStep ==
  ASSUME TypeInv, Together, SavedAll, Next, Without({"crossed", "behind"})'
  PROVE  SavedAll'
<1>0. /\ Threads = {"web", "sync", "aim", "sweep"} /\ pc \in [Threads -> Spots]
      /\ Example \in Maps /\ Uploads \subseteq Maps /\ saved + 1 \in Nat
  <2>1. saved + 1 \in Nat
    BY DEF TypeInv, EnvOK
  <2> QED
    BY <2>1, ThreadTypes, MapAssumption
<1>s. ASSUME NEW v \in Maps, NEW w, w = [v EXCEPT !.save = saved + 1]
      PROVE  w # None /\ w # Torn /\ Migrated(w).facts = Migrated(v).facts
  <2>1. w \in Maps
    BY <1>0, <1>s, SavedAs
  <2> QED
    BY <1>0, <1>s, <2>1, NotTorn, HasSame
<1>1. CASE Crash
  BY <1>1 DEF Crash, Started, SavedAll
<1>2. CASE WebLoads \/ WebMigrates
  <2>1. pc'["web"] \notin {"load", "copy"}
    BY <1>0, <1>2 DEF WebLoads, WebMigrates, Goto
  <2> QED
    BY <2>1 DEF SavedAll
<1>3. ASSUME NEW v, v \in Uploads \/ (v = The /\ map # 0), up, WebSaves(v)
      PROVE  SavedAll'
  <2>1. v \in Maps
    BY <1>0, <1>3, HeapMaps
  <2>2. /\ file' = [v EXCEPT !.save = saved + 1] /\ pc'["web"] = "load"
        /\ UNCHANGED <<heap, map>>
    BY <1>0, <1>3 DEF WebSaves, Goto
  <2>3. The.facts \subseteq Migrated(v).facts
    BY <1>3, <2>1, SavesAll
  <2> QED
    BY <1>s, <2>1, <2>2, <2>3 DEF SavedAll, Readable, The
<1>4. CASE WebCopies
  <2>1. pc'["web"] = "copy" /\ UNCHANGED <<heap, map>>
    BY <1>0, <1>4 DEF WebCopies, Goto
  <2>2. The.facts \subseteq Migrated(Example).facts
    BY <1>0, <1>4, SavesAll
  <2> QED
    BY <2>1, <2>2 DEF SavedAll, The
<1>5. CASE WebCopied
  <2>1. up /\ file = Torn /\ pc["web"] = "copy"
    BY <1>5 DEF WebCopied, Together, CopyTorn
  <2>2. /\ file' = [Example EXCEPT !.save = saved + 1] /\ pc'["web"] = "load"
        /\ UNCHANGED <<heap, map>>
    BY <1>0, <1>5, <2>1 DEF WebCopied, Goto
  <2> QED
    BY <1>0, <1>s, <2>1, <2>2 DEF SavedAll, Readable, The
<1>6. CASE ~Crash /\ ~Web
  <2>1. up' = up
    BY <1>6, UpStays DEF Web
  <2>2. pc'["web"] \in {"copy", "load"} => pc'["web"] = pc["web"]
    <3>1. CASE Persist("web")
      BY <1>0, <3>1
         DEF Persist, Locks, Dumps, DumpRaises, WriteFails, Replaces,
         PersistFails, AfterPersist, Goto
    <3> QED
      BY <1>6, <3>1, Frame DEF Stays
  <2>3. up /\ pc["web"] \in {"copy", "load"} => file' = file /\ The'.facts = The.facts
    BY <1>6, SavingAlone DEF Web
  <2> QED
    BY <2>1, <2>2, <2>3 DEF SavedAll, Readable
<1>7. up => map # 0
  BY DEF TypeInv, StartOK
<1> QED
  BY <1>1, <1>2, <1>3, <1>4, <1>5, <1>6, <1>7 DEF Web

\* What the table holds it keeps, unless a row is swept anew.
LEMMA TableKeeps ==
  ASSUME TypeInv, Together, SavedAll, Next, ~Crash, ~SweepResets, up,
         Without({"crossed"})'
  PROVE  Table \subseteq Table'
<1>0. /\ map \in DOMAIN heap /\ The \in Maps /\ StoreOK
      /\ Threads = {"web", "sync", "aim", "sweep"} /\ pc \in [Threads -> Spots]
      /\ heap \in Seq(Maps)
  BY HeapMaps, ThreadTypes DEF TypeInv, StartOK
<1>1. CASE WebLoads
  <2>1. /\ pc["web"] = "load" /\ pc["sweep"] # "fill"
    BY <1>0, <1>1, LoadsAlone DEF Holding, WebLoads
  <2>2. Readable /\ The.facts \subseteq Migrated(file).facts /\ Settled(The)
    BY <2>1 DEF SavedAll, Together, Migrations
  <2>3. file \in Maps /\ Read = file
    BY <1>0, <2>2 DEF Readable, Read, StoreOK
  <2>4. The' = [file EXCEPT !.phantom = FALSE]
    BY <1>0, <1>1, <2>3, LoadHeap DEF The
  <2>5. Migrated(The').facts = Migrated(file).facts
    BY <2>3, <2>4, HasSame
  <2>6. Migrated(The) = The /\ Due(map) = {}
    BY <1>0, <2>1, <2>2, MigratedIs DEF Due
  <2> QED
    BY <2>2, <2>5, <2>6 DEF Table
<1>2. CASE SweepFills
  <2>1. /\ pc["sweep"] \in {"rows", "fill"} /\ obj["sweep"] = map /\ map' = map
        /\ heap' = [heap EXCEPT
                       ![obj["sweep"]].facts = @ \cup RowOf(Taught(found), Row),
                       ![obj["sweep"]].source[Row] = Measure]
    BY <1>0, <1>2 DEF SweepFills, Together, HoldsThis, Row, Measure
  <2>2. The.table
    BY <1>0, <2>1 DEF Together, HasTable, AtTable
  <2>3. /\ The'.facts = The.facts \cup RowOf(Taught(found), Row) /\ The'.table
    BY <1>0, <2>1, <2>2, LenProperties DEF The, Maps
  <2>4. Migrated(The) = The /\ Migrated(The') = The'
    BY <2>2, <2>3 DEF Migrated
  <2> QED
    BY <2>3, <2>4 DEF Table, Due
<1>3. CASE ~WebLoads /\ ~SweepFills
  <2>1. Migrated(The).facts \subseteq Migrated(The').facts
    BY <1>0, <1>3, TableGrows, MapAssumption, HasMap DEF TypeInv, StartOK
  <2>2. Due(map)' = Due(map)
    <3>1. map' = map
      BY <1>3, UseStays
    <3>2. Due(map)' = IF pc'["sweep"] = "fill" THEN RowOf(Taught(found'), Row') ELSE {}
      BY DEF Due
    <3>3. \A i : i = map => Due(i)' = Due(i)
      BY <1>3, DueStays
    <3> QED
      BY <3>1, <3>2, <3>3 DEF Due
  <2> QED
    BY <2>1, <2>2 DEF Table
<1> QED
  BY <1>1, <1>2, <1>3

\* A row that is swept anew, has found all that was heard of it.
LEMMA ResetKeeps ==
  ASSUME TypeInv, Together, HeardOfFed, SweepResets, Without({"crossed", "wiped"})',
         NEW x \in Fed, Named(HeardFact(x)[3]), Learned(x)
  PROVE  Learned(x)'
<1>0. /\ Threads = {"web", "sync", "aim", "sweep"} /\ pc \in [Threads -> Spots]
      /\ x \in Rows \X Hw
  BY ThreadTypes, MapAssumption
<1>1. /\ pc["sweep"] = "rows" /\ pc'["sweep"] = "fill" /\ obj["sweep"] = map
      /\ UNCHANGED <<sweep, map, heard, item>> /\ pc'["sync"] = pc["sync"]
      /\ Suffers(If("wiped", ~(Known(Row) \subseteq found) \/ pc["sync"] = "mirror"))
      /\ heap' = [heap EXCEPT ![obj["sweep"]].facts = @ \ RowOf(@, Row)]
  BY <1>0 DEF SweepResets, Together, HoldsThis, Goto, Row, feed, syncs
<1>2. Known(Row) \subseteq Taught(found) /\ pc["sync"] # "mirror"
  <2>1. Known(Row) \subseteq found /\ pc["sync"] # "mirror"
    BY <1>1, Spared
  <2>2. \A f \in found : f[2] \in Hw
    BY DEF TypeInv, SweepOK, Facts
  <2>3. \A f \in Known(Row) : f[3] # NoName
    BY DEF Known, Named
  <2> QED
    BY <2>1, <2>2, <2>3 DEF Taught
<1>3. /\ map \in DOMAIN heap /\ The \in Maps /\ The.table
      /\ heap \in Seq(Maps)
  BY <1>0, <1>1, HasMap, HeapMaps DEF Together, HasTable, AtTable
<1>4. The' = [The EXCEPT !.facts = @ \ RowOf(@, Row)]
  BY <1>1, <1>3, HeapAt DEF The
<1>5. The'.facts = The.facts \ RowOf(The.facts, Row) /\ The'.table
  BY <1>3, <1>4 DEF Maps
<1>6. Migrated(The) = The /\ Migrated(The') = The'
  BY <1>3, <1>5 DEF Migrated
<1>7. Due(map) = {} /\ Due(map)' = RowOf(Taught(found), Row)
  BY <1>1 DEF Due, Row, sweep
<1>8. ASSUME NEW f \in The.facts, f[1] = Row => f \in Known(Row)
      PROVE  f \in Table'
  BY <1>2, <1>5, <1>6, <1>7, <1>8 DEF Table, RowOf
<1>9. PICK r \in Rows, h \in Hw : x = <<r, h>>
  BY <1>0
<1> DEFINE n == heard[r][h].name
<1>10. <<r, h, n>> \in Known(r)
  BY <1>9 DEF HeardFact, Known
<1>11. heard[r][h].stereo => <<r, h + 1, n>> \in Known(r)
  BY <1>9 DEF HeardFact, Known
<1>12. <<r, h, n>> \in The.facts /\ (heard[r][h].stereo => <<r, h + 1, n>> \in The.facts)
  BY <1>2, <1>6, <1>7, <1>9 DEF Learned, HeardFact, PairFact, Table
<1>13. <<r, h, n>> \in Table' /\ (heard[r][h].stereo => <<r, h + 1, n>> \in Table')
  BY <1>8, <1>10, <1>11, <1>12
<1> QED
  BY <1>1, <1>9, <1>13 DEF Learned, HeardFact, PairFact

LEMMA LearnedStep ==
  ASSUME TypeInv, Together, Drained, HeardOfFed, SavedAll, AllLearned, Next,
         Without({"crossed", "behind", "untabled", "wiped"})'
  PROVE  AllLearned'
<1>0. /\ Threads = {"web", "sync", "aim", "sweep"} /\ pc \in [Threads -> Spots]
      /\ Fed \subseteq Rows \X Hw /\ heard \in Heard
  BY ThreadTypes, MapAssumption DEF TypeInv, FeedOK
<1> SUFFICES ASSUME up', NEW x \in Fed, x \notin pending', x \notin todo',
                    Named(HeardFact(x)'[3])
             PROVE  Learned(x)'
  BY DEF AllLearned
<1>1. ~Crash
  BY DEF Crash, Started
<1>x. PICK r \in Rows, h \in Hw : x = <<r, h>>
  BY <1>0
<1>3. heard'[r][h] = heard[r][h] /\ x \notin pending
  <2>1. ASSUME NEW y \in Fed, HearsName(y[1], y[2]) \/ HearsStereo(y[1], y[2])
        PROVE  heard'[r][h] = heard[r][h] /\ x \notin pending
    <3>1. PICK o \in Rows, k \in Hw : y = <<o, k>>
      BY <1>0
    <3>2. /\ HearsName(o, k) \/ HearsStereo(o, k)
          /\ \/ pending' = pending \cup {<<o, k>>}
             \/ HearsName(o, k) /\ Shows[layout][k] = NoName /\ pending' = pending
      BY <2>1, <3>1 DEF HearsName, HearsStereo
    <3>n. heard'[r][h].name # NoName
      BY <1>x DEF HeardFact, Named
    <3>3. o # r \/ k # h
      BY <1>x, <3>2, <3>n, HearsOne
    <3> QED
      BY <3>2, <3>3, HearsOne
  <2>2. CASE UNCHANGED feed
    BY <2>2 DEF feed
  <2>3. CASE SyncDrains
    BY <2>3 DEF SyncDrains
  <2> QED
    BY <1>1, <2>1, <2>2, <2>3, FeedSteps
<1>4. HeardFact(x)' = HeardFact(x) /\ PairFact(x)' = PairFact(x) /\ Named(HeardFact(x)[3])
  BY <1>x, <1>3 DEF HeardFact, PairFact
<1>5. up
  BY <1>x, <1>4 DEF HeardOfFed, HeardFact, Named
<1>m. map \in DOMAIN heap /\ The \in Maps /\ heap \in Seq(Maps)
  BY <1>5, HeapMaps DEF TypeInv, StartOK
<1>6. CASE x \in todo
  <2>1. SyncMerges(x)
    <3>1. pc["sync"] \in {"table", "merge", "mirror"}
      BY <1>6 DEF Drained
    <3>2. ~SyncTakes
      <4>1. ASSUME SyncTakes, ~The.table
            PROVE  FALSE
        BY <4>1 DEF SyncTakes, Suffers, Without
      <4> QED
        BY <1>6, <4>1 DEF SyncTakes
    <3>3. ~UNCHANGED todo
      BY <1>6
    <3> QED
      BY <1>1, <1>6, <3>1, <3>2, <3>3, Frame
         DEF Sync, HearsName, HearsStereo, SyncDrains, SyncMerges, SyncMirrors,
         SyncPersists, syncs
  <2>2. /\ Merge(map, {HeardFact(x)}) /\ item' = HeardFact(x)
        /\ pc'["sync"] = "mirror" /\ map' = map
    BY <1>0, <1>4, <2>1 DEF SyncMerges, HeardFact, Goto, Together, HoldsThis
  <2>3. HeardFact(x) \in The'.facts
    <3>1. HeardFact(x) \in Taught({HeardFact(x)})
      BY <1>x, <1>4 DEF HeardFact, Taught, Named
    <3> QED
      BY <1>m, <2>2, <3>1, MergeAdds DEF The
  <2>4. The'.table
    <3>1. pc["sync"] = "merge"
      BY <2>1 DEF SyncMerges
    <3>2. The.table
      BY <1>0, <3>1 DEF Together, HasTable, AtTable
    <3>3. The' = Knows(The, The.facts \cup Taught({HeardFact(x)}))
      BY <1>m, <2>2, HeapAt DEF Merge, The, Knows
    <3> QED
      BY <1>m, <3>2, <3>3, KnowsFields
  <2>5. HeardFact(x) \in Table'
    BY <2>3, <2>4 DEF Table, Migrated
  <2> QED
    BY <1>4, <2>2, <2>5 DEF Learned
<1>7. CASE x \notin todo
  <2>1. Learned(x)
    BY <1>3, <1>4, <1>5, <1>7 DEF AllLearned
  <2>2. CASE SweepResets
    BY <1>4, <2>1, <2>2, ResetKeeps DEF Without
  <2>3. CASE ~SweepResets
    <3>1. Table \subseteq Table'
      BY <1>1, <1>5, <2>3, TableKeeps DEF Without
    <3>2. CASE heard[r][h].stereo /\ pc["sync"] = "mirror" /\ item = HeardFact(x)
      <4>1. CASE SyncMirrors
        <5>1. item = <<r, h, HeardFact(x)[3]>> /\ h + 1 \in Hw
          BY <1>x, <3>2 DEF HeardFact, HeardOfFed
        <5>2. Merge(map, {PairFact(x)}) /\ map' = map
          BY <1>x, <3>2, <4>1, <5>1
             DEF SyncMirrors, PairFact, HeardFact, Together, HoldsThis
        <5>3. PairFact(x) \in The'.facts
          <6>1. PairFact(x) \in Taught({PairFact(x)})
            BY <1>x, <1>4, <5>1 DEF PairFact, HeardFact, Taught, Named
          <6> QED
            BY <1>m, <5>2, <6>1, MergeAdds DEF The
        <5>4. The.table
          BY <1>0, <3>2 DEF Together, HasTable, AtTable
        <5>5. The' = Knows(The, The.facts \cup Taught({PairFact(x)}))
          BY <1>m, <5>2, HeapAt DEF Merge, The, Knows
        <5>6. The'.table
          BY <1>m, <5>4, <5>5, KnowsFields
        <5>7. PairFact(x) \in Table'
          BY <5>3, <5>6 DEF Table, Migrated
        <5> QED
          BY <1>4, <2>1, <3>1, <5>7 DEF Learned
      <4>2. CASE ~SyncMirrors
        <5>1. pc'["sync"] = pc["sync"] /\ item' = item
          BY <1>1, <3>2, <4>2, Frame
             DEF Stays, Sync, HearsName, HearsStereo, SyncDrains, SyncTakes,
             SyncMerges, SyncPersists, Persist, Locks, Dumps, DumpRaises,
             WriteFails, Replaces, syncs
        <5> QED
          BY <1>4, <2>1, <3>1, <3>2, <5>1 DEF Learned
      <4> QED
        BY <4>1, <4>2
    <3>3. CASE ~(heard[r][h].stereo /\ pc["sync"] = "mirror" /\ item = HeardFact(x))
      BY <1>x, <1>3, <1>4, <2>1, <3>1, <3>3 DEF Learned
    <3> QED
      BY <3>2, <3>3
  <2> QED
    BY <2>2, <2>3
<1> QED
  BY <1>6, <1>7

LEMMA InitLearn ==
  ASSUME Init
  PROVE  LearnInv
BY DEF Init, LearnInv, Drained, HeardOfFed, SavedAll, AllLearned

LEMMA LearnStep ==
  ASSUME TypeInv, OneMap, LearnInv, [Next]_vars
  PROVE  LearnInv'
<1>1. CASE Next
  <2> SUFFICES ASSUME Without({"crossed", "behind", "untabled", "wiped"})'
               PROVE  Drained' /\ HeardOfFed' /\ SavedAll' /\ AllLearned'
    BY DEF LearnInv
  <2>1. Drained /\ HeardOfFed /\ SavedAll /\ AllLearned
    BY <1>1, Remembers DEF LearnInv
  <2>2. Without({"crossed"})' /\ Without({"crossed", "behind"})'
    BY DEF Without
  <2>3. Together
    BY <1>1, <2>2, Remembers DEF OneMap
  <2> QED
    BY <1>1, <2>1, <2>2, <2>3, DrainedStep, HeardOfFedStep, SavedAllStep, LearnedStep
<1>2. CASE UNCHANGED vars
  BY <1>2
     DEF LearnInv, Without, Drained, HeardOfFed, SavedAll, AllLearned, Learned,
     Table, HeardFact, PairFact, Due, Row, Readable, The, vars, store, locks,
     feed, syncs, sweep, env
<1> QED
  BY <1>1, <1>2

LEMMA LearnsAll ==
  ASSUME TypeInv, LearnInv
  PROVE  NamesLearned
<1> SUFFICES ASSUME Without({"crossed", "behind", "untabled", "wiped"}), up,
                    pending = {}, pc["sync"] = "idle", pc["sweep"] # "fill",
                    NEW r \in Rows, NEW f \in Known(r)
             PROVE  f \in Migrated(The).facts
  BY DEF NamesLearned
<1>1. PICK h \in Hw :
        /\ Named(heard[r][h].name)
        /\ \/ f = <<r, h, heard[r][h].name>>
           \/ heard[r][h].stereo /\ f = <<r, h + 1, heard[r][h].name>>
  BY DEF Known
<1> DEFINE x == <<r, h>>
<1>2. x \in Fed \ (pending \cup todo)
  BY <1>1 DEF LearnInv, HeardOfFed, Drained, Named
<1>3. Learned(x)
  BY <1>1, <1>2 DEF LearnInv, AllLearned, HeardFact
<1>4. Table = Migrated(The).facts
  BY DEF Table, Due
<1> QED
  BY <1>1, <1>3, <1>4 DEF Learned, HeardFact, PairFact

\* When no report is under way, the names that the Global remote reported last are in
\* the table in use, of a linked pair at both members, for any rows, layouts, maps and
\* uploads, and whatever an aim, a sweep or a save does to the table meanwhile, unless
\* names are drained without a table, a row is swept anew while it is renamed, or a
\* save is older than the table or crosses a thread.  (What of it the file has, is
\* RestartsSame's.)
THEOREM AllNamesLearned == Spec => []NamesLearned
<1>1. TypeInv /\ LearnInv => NamesLearned
  BY LearnsAll
<1>2. Init => LearnInv
  BY InitLearn
<1>3. TypeInv /\ OneMap /\ LearnInv /\ [Next]_vars => LearnInv'
  BY LearnStep
<1> QED
  BY <1>1, <1>2, <1>3, StaysTogether, PTL DEF Spec


-----------------------------------------------------------------------------
(* What is in use, is in the file.                                         *)

\* After a restart this map would be the one in use.
Same(v) ==
  /\ Migrated(v).facts = Migrated(The).facts
  /\ Migrated(v).source = Migrated(The).source
  /\ v.save = The.save /\ v.legacy = The.legacy

\* Somebody is about to write.
Dirty ==
  \/ \E t \in Threads : pc[t] = "persist"
  \/ pc["sync"] \in {"merge", "mirror"} /\ merged
  \/ pc["aim"] = "check"
  \/ pc["sweep"] \in {"rows", "fill"}

InStep ==
  /\ \A t \in Threads : pc[t] = "dump" => buf[t] = The
  /\ \A t \in Threads : pc[t] = "replace" => Same(buf[t])
  /\ (\A t \in Threads : pc[t] \notin {"dump", "replace"}) => Readable /\ Same(file)

\* What is learned is to be in the file.
Claims ==
  /\ map # 0 /\ pc["web"] \notin {"copy", "load"}
  /\ ~example \/ pc["sweep"] \in {"dump", "replace", "flag"}

FlagFile == pc["sweep"] = "flag" => file # None

RestartInv ==
  /\ FlagFile
  /\ Without({"crossed", "unflagged", "failed", "torn"}) /\ Claims => Dirty \/ InStep

LEMMA MigratedSame ==
  ASSUME NEW v \in Maps, NEW w \in Maps, v.walks = w.walks, v.table = w.table,
         v.facts = w.facts, v.source = w.source
  PROVE  /\ Migrated(v).facts = Migrated(w).facts
         /\ Migrated(v).source = Migrated(w).source
BY DEF Migrated, Maps

LEMMA FlagFileStep ==
  ASSUME TypeInv, FlagFile, Next
  PROVE  FlagFile'
<1>0. /\ Threads = {"web", "sync", "aim", "sweep"} /\ pc \in [Threads -> Spots]
      /\ buf \in [Threads -> Maps] /\ Uploads \subseteq Maps /\ Example \in Maps
      /\ Torn # None
  BY ThreadTypes, MapAssumption
<1> SUFFICES ASSUME pc'["sweep"] = "flag"
             PROVE  file' # None
  BY DEF FlagFile
<1>1. CASE pc["sweep"] = "flag"
  <2>1. map # 0 /\ The \in Maps /\ saved + 1 \in Nat
    <3>1. map # 0 /\ The \in Maps
      BY <1>0, <1>1, HasMap
    <3>2. saved + 1 \in Nat
      BY DEF TypeInv, EnvOK
    <3> QED
      BY <3>1, <3>2
  <2>2. \A v \in Maps : [v EXCEPT !.save = saved + 1] # None
    BY <2>1, SavedAs, NotTorn
  <2> QED
    BY <1>0, <1>1, <2>1, <2>2, FileSteps, NotTorn DEF FlagFile
<1>2. CASE pc["sweep"] # "flag"
  <2>1. ~Crash
    BY <1>0 DEF Crash, Started
  <2>2. ~Stays("sweep")
    BY <1>2 DEF Stays
  <2>3. ~Sweep
    BY <1>0
       DEF Sweep, StartSweep, SweepBegins, SweepMeasures, SweepFails, SweepTakes,
       SweepAssigns, SweepResets, SweepFills, SweepPersists, SweepDone,
       CallsPersist, Goto
  <2>4. Persist("sweep")
    BY <2>1, <2>2, <2>3, Frame
  <2>5. Replaces("sweep")
    BY <1>0, <2>4
       DEF Persist, Locks, Dumps, DumpRaises, WriteFails, PersistFails, Goto
  <2> QED
    BY <1>0, <2>5, NotTorn DEF Replaces
<1> QED
  BY <1>1, <1>2

\* Who is at the file leaves it by writing, or failing to.
LEMMA Leavers ==
  ASSUME TypeInv, Next, ~Crash, NEW t \in Threads,
         pc[t] \in {"persist", "dump", "replace"}
  PROVE  Persist(t) \/ Stays(t)
<1>0. /\ Threads = {"web", "sync", "aim", "sweep"} /\ pc \in [Threads -> Spots]
      /\ (status = "running" <=> pc["sweep"] # "idle")
  BY ThreadTypes DEF TypeInv, SweepOK
<1>1. t = "web" => ~Web
  BY DEF Web, WebSaves, WebCopies, WebCopied, WebLoads, WebMigrates
<1>2. t = "sync" /\ Sync => Stays(t)
  BY <1>0
     DEF Sync, HearsName, HearsStereo, SyncDrains, SyncTakes, SyncMerges,
     SyncMirrors, SyncPersists, Stays, locks
<1>3. t = "aim" => ~Aim
  BY DEF Aim, AimConfirms, AimMerges, AimPersists
<1>4. t = "sweep" => ~Sweep
  BY <1>0
     DEF Sweep, StartSweep, SweepBegins, SweepMeasures, SweepFails, SweepTakes,
     SweepAssigns, SweepResets, SweepFills, SweepPersists, SweepDone
<1> QED
  BY <1>0, <1>1, <1>2, <1>3, <1>4, Frame

LEMMA ClaimsBefore ==
  ASSUME TypeInv, Together, Next, ~Crash, ~WebLoads, ~Locks("sweep"), Claims'
  PROVE  Claims
<1>0. /\ Threads = {"web", "sync", "aim", "sweep"} /\ pc \in [Threads -> Spots]
      /\ (status = "running" <=> pc["sweep"] # "idle")
  BY ThreadTypes DEF TypeInv, SweepOK
<1>1. map # 0
  BY UseStays DEF Claims
<1>2. pc["web"] \notin {"copy", "load"}
  <2>1. Web /\ pc["web"] \in {"copy", "load"} => pc'["web"] \in {"copy", "load"}
    BY <1>0 DEF Web, WebSaves, WebCopies, WebCopied, WebMigrates, Goto
  <2>2. Persist("web") => pc["web"] \notin {"copy", "load"}
    BY DEF Persist, Locks, Dumps, DumpRaises, WriteFails, Replaces
  <2> QED
    BY <2>1, <2>2, Frame DEF Claims, Stays
<1>3. CASE SweepDone
  BY <1>1, <1>2, <1>3 DEF SweepDone, Claims
<1>4. CASE ~SweepDone
  <2>1. example' = example
    BY <1>4
       DEF Next, Web, Sync, Aim, Sweep, Persist, WebSaves, WebCopies, WebCopied,
       WebMigrates, HearsName, HearsStereo, SyncDrains, SyncTakes, SyncMerges,
       SyncMirrors, SyncPersists, AimConfirms, AimMerges, AimPersists,
       StartSweep, SweepBegins, SweepMeasures, SweepFails, SweepTakes,
       SweepAssigns, SweepResets, SweepFills, SweepPersists, Relayout, Locks,
       Dumps, DumpRaises, WriteFails, Replaces, PersistFails, store
  <2>2. pc'["sweep"] \in {"dump", "replace", "flag"} =>
          pc["sweep"] \in {"dump", "replace", "flag"}
    <3>1. Sweep => pc'["sweep"] \notin {"dump", "replace", "flag"}
      BY <1>0, <1>4
         DEF Sweep, StartSweep, SweepBegins, SweepMeasures, SweepFails,
         SweepTakes, SweepAssigns, SweepResets, SweepFills, SweepPersists,
         CallsPersist, Goto
    <3>2. Persist("sweep") => pc["sweep"] \in {"dump", "replace", "flag"}
      BY DEF Persist, Dumps, DumpRaises, WriteFails, Replaces
    <3> QED
      BY <3>1, <3>2, Frame DEF Stays
  <2> QED
    BY <1>1, <1>2, <2>1, <2>2 DEF Claims
<1> QED
  BY <1>3, <1>4

\* Who is about to write does so, or comes to the lock.
LEMMA DirtyStays ==
  ASSUME TypeInv, Together, Claims, Dirty, Next, ~Crash,
         \A t \in Threads : ~Locks(t), Without({"unflagged"})'
  PROVE  Dirty'
<1>0. /\ Threads = {"web", "sync", "aim", "sweep"} /\ pc \in [Threads -> Spots]
      /\ (status = "running" <=> pc["sweep"] # "idle")
  BY ThreadTypes DEF TypeInv, SweepOK
<1>1. ASSUME NEW t \in Threads, pc[t] = "persist"
      PROVE  Dirty'
  <2>1. ~Persist(t)
    BY <1>1 DEF Persist, Dumps, DumpRaises, WriteFails, Replaces
  <2>2. Stays(t)
    BY <1>1, <2>1, Leavers
  <2> QED
    BY <1>1, <2>2 DEF Stays, Dirty
<1>2. CASE pc["sync"] \in {"merge", "mirror"} /\ merged
  <2>1. CASE SyncPersists
    <3>1. The.table /\ map \in DOMAIN heap /\ The \in Maps
      BY <1>0, <1>2, HasMap DEF Together, HasTable, AtTable
    <3>2. Truthy(The)
      BY <3>1 DEF Truthy, EmptyMap
    <3>3. CASE example
      <4>1. Suffers(Unflagged)
        BY <2>1, <3>3 DEF SyncPersists
      <4>2. ~(example /\ pc["sweep"] \in {"dump", "replace", "flag"})
        BY <4>1 DEF Unflagged, Suffers, If, Without
      <4> QED
        BY <3>3, <4>2 DEF Claims
    <3>4. CASE ~example
      BY <1>0, <1>2, <2>1, <3>2, <3>4 DEF SyncPersists, CallsPersist, Goto, Dirty
    <3> QED
      BY <3>3, <3>4
  <2>2. CASE Sync /\ ~SyncPersists
    BY <1>0, <1>2, <2>2
       DEF Sync, HearsName, HearsStereo, SyncDrains, SyncTakes, SyncMerges,
       SyncMirrors, Goto, Dirty, syncs
  <2>3. ~Persist("sync")
    BY <1>2 DEF Persist, Locks, Dumps, DumpRaises, WriteFails, Replaces
  <2> QED
    BY <1>2, <2>1, <2>2, <2>3, Frame DEF Stays, Dirty, syncs
<1>3. CASE pc["aim"] = "check"
  <2>1. CASE AimPersists
    <3>1. ~example
      <4>1. ASSUME example
            PROVE  FALSE
        <5>1. Suffers(Unflagged)
          BY <2>1, <4>1 DEF AimPersists
        <5>2. ~(example /\ pc["sweep"] \in {"dump", "replace", "flag"})
          BY <5>1 DEF Unflagged, Suffers, If, Without
        <5> QED
          BY <4>1, <5>2 DEF Claims
      <4> QED
        BY <4>1
    <3> QED
      BY <1>0, <2>1, <3>1 DEF AimPersists, CallsPersist, Goto, Dirty
  <2>2. ~(Aim /\ ~AimPersists)
    BY <1>3 DEF Aim, AimConfirms, AimMerges
  <2>3. ~Persist("aim")
    BY <1>3 DEF Persist, Locks, Dumps, DumpRaises, WriteFails, Replaces
  <2> QED
    BY <1>3, <2>1, <2>2, <2>3, Frame DEF Stays, Dirty
<1>4. CASE pc["sweep"] \in {"rows", "fill"}
  <2>1. CASE Sweep
    BY <1>0, <1>4, <2>1
       DEF Sweep, StartSweep, SweepBegins, SweepMeasures, SweepFails, SweepTakes,
       SweepAssigns, SweepResets, SweepFills, SweepPersists, SweepDone,
       CallsPersist, Goto, Dirty
  <2>2. ~Persist("sweep")
    BY <1>4 DEF Persist, Locks, Dumps, DumpRaises, WriteFails, Replaces
  <2> QED
    BY <1>4, <2>1, <2>2, Frame DEF Stays, Dirty
<1> QED
  BY <1>1, <1>2, <1>3, <1>4 DEF Dirty

\* A step after which nobody is about to write, has changed nothing that a restart
\* would read differently.
LEMMA SameStays ==
  ASSUME TypeInv, Together, Next, ~Crash, ~WebLoads, ~Dirty', map # 0,
         Without({"crossed"})'
  PROVE  /\ \A v : Same(v)' <=> Same(v)
         /\ (\E t \in Threads : pc[t] = "dump") => The' = The
<1>0. /\ Threads = {"web", "sync", "aim", "sweep"} /\ pc \in [Threads -> Spots]
      /\ map \in DOMAIN heap /\ The \in Maps /\ map' = map /\ The' = heap'[map]
      /\ Fed \subseteq Rows \X Hw
  BY ThreadTypes, HeapMaps, UseStays, MapAssumption DEF The
<1> DEFINE v == The
           w == The'
<1>k. Knows(v, v.facts) = v
  BY <1>0 DEF Knows, Maps
<1>1. ~LearnsName(map) \/ w = v
  <2>1. ASSUME NEW x \in todo, SyncMerges(x), Named(HeardFact(x)[3]), map = obj["sync"]
        PROVE  HeardFact(x) \in v.facts
    <3>1. /\ pc'["sync"] = "mirror"
          /\ merged' = (merged \/ HeardFact(x) \notin heap[obj["sync"]].facts)
      BY <1>0, <2>1 DEF SyncMerges, HeardFact, Goto
    <3> QED
      BY <2>1, <3>1 DEF Dirty, The
  <2>2. ASSUME LearnsName(map)
        PROVE  w = v
    <3>1. PICK x \in todo :
            /\ SyncMerges(x) /\ map = obj["sync"] /\ Named(HeardFact(x)[3])
            /\ heap'[map] = Knows(heap[map], heap[map].facts \cup {HeardFact(x)})
      BY <2>2 DEF LearnsName
    <3>2. v.facts \cup {HeardFact(x)} = v.facts
      BY <2>1, <3>1
    <3> QED
      BY <1>0, <1>k, <3>1, <3>2 DEF The
  <2> QED
    BY <2>2
<1>2. ~LearnsPair(map) \/ w = v
  <2>1. ASSUME LearnsPair(map)
        PROVE  w = v
    <3> DEFINE linked == heard[item[1]][item[2]].stereo
               fact == <<item[1], item[2] + 1, item[3]>>
    <3>1. /\ map = obj["sync"] /\ pc'["sync"] = "merge"
          /\ merged' = (merged \/ (linked /\ fact \notin v.facts))
          /\ IF linked THEN Merge(map, {fact}) ELSE UNCHANGED heap
      BY <1>0, <2>1 DEF LearnsPair, SyncMirrors, Goto, The
    <3>2. ~merged'
      BY <3>1 DEF Dirty
    <3>3. CASE ~linked
      BY <1>0, <3>1, <3>3 DEF The
    <3>4. CASE linked
      <4>1. fact \in v.facts
        BY <3>1, <3>2, <3>4
      <4>2. Mirrored \subseteq {fact}
        BY DEF Mirrored, Taught
      <4>3. v.facts \cup Mirrored = v.facts
        BY <4>1, <4>2
      <4>4. heap'[map] = Knows(heap[map], heap[map].facts \cup Mirrored)
        BY <2>1 DEF LearnsPair
      <4> QED
        BY <1>0, <1>k, <4>3, <4>4 DEF The
    <3> QED
      BY <3>3, <3>4
  <2> QED
    BY <2>1
<1>3. ~LearnsAim(map) \/ w = v
  <2>1. ASSUME LearnsAim(map)
        PROVE  w = v
    <3>1. /\ map = obj["aim"]
          /\ pc'["aim"] = (IF seen \in v.facts THEN "idle" ELSE "check")
          /\ heap'[map] = Knows(heap[map], heap[map].facts \cup Taught({seen}))
      BY <1>0, <2>1 DEF LearnsAim, AimMerges, Goto, The
    <3>2. seen \in v.facts
      BY <3>1 DEF Dirty
    <3>3. v.facts \cup Taught({seen}) = v.facts
      BY <3>2 DEF Taught
    <3> QED
      BY <1>0, <1>k, <3>1, <3>3 DEF The
  <2> QED
    BY <2>1
<1>4. ~LosesRow(map) /\ ~GetsRow(map) /\ ~Pruned(map) /\ ~SweepAssigns
  <2>1. SweepResets \/ SweepFills \/ SweepPersists \/ SweepAssigns =>
          pc'["sweep"] \in {"rows", "fill", "persist"}
    BY <1>0
       DEF SweepResets, SweepFills, SweepPersists, SweepAssigns, CallsPersist, Goto
  <2> QED
    BY <1>0, <2>1 DEF LosesRow, GetsRow, Pruned, Dirty
<1>5. ASSUME GetsTable(map)
      PROVE  /\ \A u : Same(u)' <=> Same(u)
             /\ (\E t \in Threads : pc[t] = "dump") => w = v
  <2>1. /\ pc["sweep"] = "begin" /\ Suffers(Early)
        /\ heap'[map] = [heap[map] EXCEPT !.table = TRUE]
    BY <1>4, <1>5 DEF GetsTable, SweepBegins
  <2>2. up /\ ~(pc["web"] # "idle" /\ ~The.table)
    BY <1>0, <2>1, AtWork DEF Early, Suffers, If, Without
  <2>3. Settled(v)
    BY <2>2 DEF Together, Migrations, Settled
  <2>4. w = [v EXCEPT !.table = TRUE]
    BY <1>0, <2>1 DEF The
  <2>5. /\ w.facts = v.facts /\ w.source = v.source /\ w.save = v.save
        /\ w.legacy = v.legacy /\ w.table
    BY <1>0, <2>4 DEF Maps
  <2>6. Migrated(w) = w /\ Migrated(v) = v
    BY <1>0, <2>3, <2>5, MigratedIs DEF Migrated
  <2>7. \A u : Same(u)' <=> Same(u)
    BY <2>5, <2>6 DEF Same
  <2>8. ASSUME NEW t \in Threads, pc[t] = "dump"
        PROVE  w = v
    <3>1. v.table
      BY <1>0, <2>2, <2>8 DEF Together, HasTable, AtTable
    <3> QED
      BY <1>0, <2>4, <3>1 DEF Maps
  <2> QED
    BY <2>7, <2>8
<1>6. ASSUME Migrates(map)
      PROVE  /\ \A u : Same(u)' <=> Same(u)
             /\ (\E t \in Threads : pc[t] = "dump") => w = v
  <2>1. w = Migrated(v) /\ pc["web"] = "migrate"
    BY <1>0, <1>6 DEF Migrates, WebMigrates, The
  <2>2. /\ Migrated(w) = Migrated(v) /\ w.save = v.save /\ w.legacy = v.legacy
    BY <1>0, <2>1, MigratedIs
  <2>3. \A u : Same(u)' <=> Same(u)
    BY <2>2 DEF Same
  <2>4. ASSUME NEW t \in Threads, pc[t] = "dump"
        PROVE  w = v
    <3>1. v.table
      BY <1>0, <2>1, <2>4 DEF Together, HasTable, AtTable
    <3> QED
      BY <2>1, <3>1 DEF Migrated
  <2> QED
    BY <2>3, <2>4
<1>7. ASSUME w = v
      PROVE  \A u : Same(u)' <=> Same(u)
  BY <1>7 DEF Same
<1> QED
  BY <1>0, <1>1, <1>2, <1>3, <1>4, <1>5, <1>6, <1>7, MapSteps DEF The

\* What is loaded, is in the file.
LEMMA LoadsInStep ==
  ASSUME TypeInv, Together, FlagFile, FileWhole, WebLoads,
         Without({"crossed", "torn"})', Claims'
  PROVE  Dirty' \/ InStep'
<1>0. /\ Threads = {"web", "sync", "aim", "sweep"} /\ pc \in [Threads -> Spots]
      /\ StoreOK
  BY ThreadTypes DEF TypeInv
<1>1. ~Holding /\ \A t \in Threads \ {"web"} : Stays(t)
  BY LoadsAlone DEF Without
<1>2. /\ pc["web"] = "load" /\ file' = file /\ example' = (file = None)
      /\ pc'["web"] = IF Read.phantom THEN "persist" ELSE "migrate"
  BY <1>0 DEF WebLoads, Goto
<1>3. /\ pc'["sync"] \in {"idle", "table"} /\ pc'["aim"] = "idle"
      /\ pc'["sweep"] \in {"idle", "begin", "measure", "flag"}
      /\ pc'["sweep"] = pc["sweep"]
  BY <1>0, <1>1 DEF Holding, Stays
<1>4. file # None
  BY <1>2, <1>3 DEF Claims, FlagFile
<1>5. file # Torn
  <2>1. Without({"torn"})
    BY DEF WebLoads, Suffers, Without
  <2> QED
    BY <1>2, <2>1 DEF FileWhole
<1>6. file \in Maps /\ Read = file /\ Readable'
  BY <1>0, <1>2, <1>4, <1>5 DEF StoreOK, Read, Readable
<1>7. The' = [file EXCEPT !.phantom = FALSE]
  BY <1>0, <1>6, LoadHeap DEF The
<1>8. /\ The' \in Maps /\ The'.walks = file.walks /\ The'.table = file.table
      /\ The'.facts = file.facts /\ The'.source = file.source
      /\ The'.save = file.save /\ The'.legacy = file.legacy
  BY <1>6, <1>7 DEF Maps
<1>9. Same(file)'
  BY <1>2, <1>6, <1>8, MigratedSame DEF Same
<1>10. \A t \in Threads : pc'[t] \notin {"dump", "replace"}
  BY <1>0, <1>2, <1>3
<1> QED
  BY <1>6, <1>9, <1>10 DEF InStep

LEMMA LocksInStep ==
  ASSUME TypeInv, Together, NEW t \in Threads, Locks(t)
  PROVE  InStep'
<1>0. /\ pc \in [Threads -> Spots] /\ buf \in [Threads -> Maps]
  BY ThreadTypes
<1>1. /\ pc[t] = "persist" /\ buf' = [buf EXCEPT ![t] = The] /\ lock = None
      /\ pc' = [pc EXCEPT ![t] = "dump"] /\ The' = The
  BY DEF Locks, Together, WritesThis, The, Goto, store
<1>2. \A u \in Threads : pc[u] \notin {"dump", "replace"}
  BY <1>1, MapAssumption DEF TypeInv, LockOK
<1> QED
  BY <1>0, <1>1, <1>2 DEF InStep

LEMMA StaysInStep ==
  ASSUME TypeInv, Together, Claims, InStep, Next, ~Crash, ~WebLoads,
         \A t \in Threads : ~Locks(t), ~Dirty', Claims',
         Without({"crossed", "failed"})'
  PROVE  InStep'
<1>0. /\ Threads = {"web", "sync", "aim", "sweep"} /\ pc \in [Threads -> Spots]
      /\ buf \in [Threads -> Maps]
  BY ThreadTypes
<1>1. /\ \A v : Same(v)' <=> Same(v)
      /\ (\E t \in Threads : pc[t] = "dump") => The' = The
  BY SameStays DEF Claims, Without
<1>2. ASSUME NEW t \in Threads, pc'[t] = "dump"
      PROVE  buf'[t] = The'
  <2>1. ~Persist(t)
    BY <1>0, <1>2
       DEF Persist, Dumps, DumpRaises, WriteFails, Replaces, PersistFails,
       AfterPersist, Goto
  <2>2. Stays(t)
    BY <1>2, <2>1, Writers
  <2> QED
    BY <1>1, <1>2, <2>2 DEF Stays, InStep
<1>3. ASSUME NEW t \in Threads, pc'[t] = "replace"
      PROVE  Same(buf[t])'
  <2>1. CASE Stays(t)
    <3>1. Same(buf[t])
      BY <1>3, <2>1 DEF Stays, InStep
    <3>2. \A v : Same(v) /\ v = buf'[t] => Same(buf[t])'
      BY <1>1 DEF Same
    <3> QED
      BY <2>1, <3>1, <3>2 DEF Stays
  <2>2. CASE Dumps(t)
    <3>1. pc[t] = "dump" /\ buf[t] = The
      BY <2>2 DEF Dumps, InStep
    <3> DEFINE new == buf'[t]
    <3>2. /\ The \in Maps /\ new \in Maps
          /\ new.walks = The.walks /\ new.table = The.table
          /\ new.save = The.save /\ new.legacy = The.legacy
          /\ new.source = The.source
      BY <2>2, <3>1, Dumped
    <3>3. PICK rows \in SUBSET Rows :
            new.facts = {f \in The.facts : f[1] \notin rows} \cup
                        {f \in The.facts : f[1] \in rows}
      BY <2>2, <3>1, Dumped
    <3>4. new.facts = The.facts
      BY <3>3
    <3>5. The' = The
      BY <1>1, <3>1
    <3> HIDE DEF new
    <3>6. /\ Migrated(new).facts = Migrated(The).facts
          /\ Migrated(new).source = Migrated(The).source
      BY <3>2, <3>4, MigratedSame
    <3> QED
      BY <3>2, <3>5, <3>6 DEF Same, new
  <2>3. ~DumpRaises(t) /\ ~WriteFails(t) /\ ~Replaces(t)
    BY <1>0, <1>3 DEF DumpRaises, WriteFails, Replaces, PersistFails, AfterPersist, Goto
  <2> QED
    BY <1>3, <2>1, <2>2, <2>3, Writers DEF Persist
<1>4. ASSUME \A t \in Threads : pc'[t] \notin {"dump", "replace"}
      PROVE  Readable' /\ Same(file)'
  <2>1. ASSUME NEW t \in Threads, pc[t] \in {"dump", "replace"}
        PROVE  Readable' /\ Same(file)'
    <3>1. Persist(t) /\ ~Dumps(t)
      <4>1. ~Stays(t)
        BY <1>4, <2>1 DEF Stays
      <4>2. ~Dumps(t)
        BY <1>0, <1>4 DEF Dumps, Goto
      <4> QED
        BY <2>1, <4>1, <4>2, Leavers
    <3>2. ~DumpRaises(t)
      BY DEF DumpRaises, InStep, Together, WritesThis, The
    <3>3. ~WriteFails(t)
      BY DEF WriteFails, Suffers, Without
    <3>4. Replaces(t)
      BY <3>1, <3>2, <3>3 DEF Persist
    <3>5. file' = buf[t] /\ Same(buf[t])
      BY <3>4 DEF Replaces, InStep
    <3>6. \A v : Same(v) /\ v = file' => Same(file)'
      BY <1>1 DEF Same
    <3> QED
      BY <1>0, <3>5, <3>6, NotTorn DEF Readable
  <2>2. CASE \A t \in Threads : pc[t] \notin {"dump", "replace"}
    <3>1. Readable /\ Same(file)
      BY <2>2 DEF InStep
    <3>2. file' = file
      <4>1. \A t \in Threads : ~Replaces(t)
        BY <2>2 DEF Replaces
      <4>2. (\A v : ~WebSaves(v)) /\ ~WebCopies /\ ~WebCopied
        BY <1>0 DEF WebSaves, WebCopies, WebCopied, Goto, Claims
      <4> QED
        BY <4>1, <4>2, FileSteps
    <3>3. \A v : Same(v) /\ v = file' => Same(file)'
      BY <1>1 DEF Same
    <3> QED
      BY <3>1, <3>2, <3>3 DEF Readable
  <2> QED
    BY <2>1, <2>2
<1> QED
  BY <1>2, <1>3, <1>4 DEF InStep

LEMMA InitRestart ==
  ASSUME Init
  PROVE  RestartInv
BY DEF Init, RestartInv, FlagFile, Claims, Threads

LEMMA RestartStep ==
  ASSUME TypeInv, OneMap, FileWhole, RestartInv, [Next]_vars
  PROVE  RestartInv'
<1>1. CASE Next
  <2>1. FlagFile'
    BY <1>1, FlagFileStep DEF RestartInv
  <2> SUFFICES ASSUME Without({"crossed", "unflagged", "failed", "torn"})', Claims'
               PROVE  Dirty' \/ InStep'
    BY <2>1 DEF RestartInv
  <2>2. Without({"crossed", "unflagged", "failed", "torn"})
    BY <1>1, Remembers
  <2>3. /\ Without({"crossed"})' /\ Without({"crossed", "torn"})'
        /\ Without({"unflagged"})' /\ Without({"crossed", "failed"})'
    BY DEF Without
  <2>4. Together
    BY <1>1, <2>3, Remembers DEF OneMap
  <2>5. CASE Crash
    BY <2>5 DEF Crash, Started, Claims
  <2>6. CASE WebLoads
    BY <2>3, <2>4, <2>6, LoadsInStep DEF RestartInv
  <2>7. ASSUME NEW t \in Threads, Locks(t)
        PROVE  Dirty' \/ InStep'
    BY <2>4, <2>7, LocksInStep
  <2>8. CASE ~Crash /\ ~WebLoads /\ \A t \in Threads : ~Locks(t)
    <3>1. Claims
      BY <1>1, <2>4, <2>8, ClaimsBefore DEF Threads
    <3>2. Dirty => Dirty'
      BY <1>1, <2>3, <2>4, <2>8, <3>1, DirtyStays
    <3>3. InStep /\ ~Dirty' => InStep'
      BY <1>1, <2>3, <2>4, <2>8, <3>1, StaysInStep
    <3> QED
      BY <2>2, <3>1, <3>2, <3>3 DEF RestartInv
  <2> QED
    BY <2>5, <2>6, <2>7, <2>8
<1>2. CASE UNCHANGED vars
  BY <1>2
     DEF RestartInv, Without, FlagFile, Claims, Dirty, InStep, Same, Readable, The,
     vars, store, locks, syncs
<1> QED
  BY <1>1, <1>2

LEMMA RestartSame ==
  ASSUME TypeInv, OneMap, RestartInv
  PROVE  RestartChangesNothing
<1> SUFFICES ASSUME Without({"crossed", "unflagged", "failed", "torn"}), Quiet, ~example
             PROVE  /\ Readable
                    /\ Migrated(file).facts = The.facts
                    /\ Migrated(file).source = The.source
                    /\ <<file.save, file.legacy>> = <<The.save, The.legacy>>
  BY DEF RestartChangesNothing
<1>0. Threads = {"web", "sync", "aim", "sweep"} /\ up
  BY ThreadTypes DEF Quiet
<1>1. /\ \A t \in Threads : pc[t] = "idle"
      /\ map # 0 /\ The \in Maps
  BY <1>0, HeapMaps DEF Quiet, TypeInv, StartOK
<1>2. Claims /\ ~Dirty
  BY <1>0, <1>1 DEF Claims, Dirty
<1>3. Readable /\ Same(file)
  BY <1>1, <1>2 DEF RestartInv, InStep
<1>4. Without({"crossed"})
  BY DEF Without
<1>5. Migrated(The) = The
  BY <1>0, <1>1, <1>4, MigratedIs DEF OneMap, Together, Migrations
<1> QED
  BY <1>3, <1>5 DEF Same

\* When no thread is at work the file has what is in use, for any rows, maps and
\* uploads: whatever the sync, an aim, a sweep or a save learned or replaced was
\* written, by the thread itself or by one that wrote after it, unless a save crosses
\* a thread, a write fails, the program crashes while it copies the example, or
\* something is learned while the first sweep is about to take the example's flag.
THEOREM RestartsSame == Spec => []RestartChangesNothing
<1>1. TypeInv /\ OneMap /\ RestartInv => RestartChangesNothing
  BY RestartSame
<1>2. Init => RestartInv
  BY InitRestart
<1>3. TypeInv /\ OneMap /\ FileWhole /\ RestartInv /\ [Next]_vars => RestartInv'
  BY RestartStep
<1> QED
  BY <1>1, <1>2, <1>3, StaysTogether, FileIsWhole, PTL DEF Spec
=============================================================================
