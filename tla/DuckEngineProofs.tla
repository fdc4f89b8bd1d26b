-------------------------- MODULE DuckEngineProofs --------------------------
(***************************************************************************)
(* Theorems about DuckEngine.  The argument: while nothing amiss has       *)
(* happened, the fader is where a person put it unless the engine has      *)
(* lowered it from there, in which case the entry says by how much.        *)
(***************************************************************************)
EXTENDS DuckEngine, SequenceTheorems, TLAPS

\* The last level on its way to the ticker.
Latest == IF wire = <<>> THEN report ELSE wire[Len(wire)]

\* What is on its way is the fader as it is: nothing was written meanwhile.
LatestIsFader == calm /\ Pending => Latest = fader

\* Whatever is on its way, older levels included, is the fader as it is, or a
\* person has moved it since.
PendingIsFader ==
  /\ calm /\ unread => report = fader \/ fader = human
  /\ \A i \in DOMAIN wire : calm => wire[i] = fader \/ fader = human

\* A report that was looked at is remembered.
ReadIsSeen ==
  /\ tracked /\ ~unread /\ pc # "rebase" => report \in {None, seen}
  /\ ~unread /\ pc = "rebase" => report = dev

EntryFits ==
  /\ pc \in {"rebase", "record", "write"} => tracked
  /\ pc \in {"restore", "gone"} => ~tracked
  /\ setter \in {"seedWritten", "seedApplied"} => tracked
  /\ ~tracked => base = None /\ written = None /\ applied = 0 /\ seen = None

\* knob_set has the engine to itself.
SeedAlone ==
  calm /\ setter # "idle" =>
    /\ pc \in {"wait", "gone"}
    /\ fader = human
    /\ human = turn \/ Pending
    /\ setter # "seed" => tracked /\ base = turn
    /\ turn # None

\* News is what the fader was when the tick looked.
NewsIsFader ==
  calm /\ pc = "rebase" /\ IsNews =>
    /\ dev = fader \/ fader = human
    /\ ~Pending => dev = fader

\* The fader is a person's, or lowered from there as the entry says.
FaderExplained ==
  calm /\ tracked /\ fader # human =>
    /\ base = human
    /\ base > Floor
    /\ pc # "write" => fader = written /\ fader = Ducked(base, applied)

\* Between its look and its write the tick works with the current base.
TickWorks ==
  calm /\ pc \in {"record", "write"} =>
    /\ base # None /\ base > Floor
    /\ from = base
    /\ ~Pending => base = human
    /\ written # None
    /\ pc = "write" => out = Ducked(base, gr) /\ written = out /\ applied = gr

\* A base that is not a person's last level has that level on its way.
BaseCatchesUp ==
  calm /\ tracked /\ setter = "idle" /\ base # None /\ base # human =>
    Pending \/ (pc = "rebase" /\ dev = human)

\* What is written is a level.
LevelsFit ==
  /\ applied > 0 => base # None
  /\ pc = "record" => from # None /\ from > Floor /\ base # None
  /\ pc \in {"write", "restore"} => out # None
  /\ pc = "write" => base # None
  /\ setter # "idle" => turn # None

RestoresHuman == calm /\ pc = "restore" /\ ~Pending => out = human

IInv ==
  /\ TypeOK
  /\ LatestIsFader
  /\ PendingIsFader
  /\ ReadIsSeen
  /\ EntryFits
  /\ SeedAlone
  /\ NewsIsFader
  /\ FaderExplained
  /\ TickWorks
  /\ BaseCatchesUp
  /\ LevelsFit
  /\ RestoresHuman
  /\ NoSendStuck

-----------------------------------------------------------------------------
\* A tail that is not empty ends as its sequence does.
LEMMA LastOfTail ==
  ASSUME NEW S, NEW s \in Seq(S), s # <<>>
  PROVE  /\ Tail(s) = <<>> => Head(s) = s[Len(s)]
         /\ Tail(s) # <<>> => Tail(s)[Len(Tail(s))] = s[Len(s)]
<1> DEFINE t == Tail(s)
<1>1. /\ t \in Seq(S) /\ Len(t) = Len(s) - 1
      /\ \A i \in 1..Len(t) : t[i] = s[i + 1]
  BY HeadTailProperties
<1>2. Head(s) = s[1] /\ Len(s) \in Nat
  BY LenProperties
<1> HIDE DEF t
<1>3. t = <<>> => Len(t) = 0
  BY EmptySeq
<1>4. t # <<>> => Len(t) \in Nat \ {0}
  BY <1>1, EmptySeq
<1>5. ASSUME t # <<>>
      PROVE  t[Len(t)] = s[Len(s)]
  <2>1. Len(t) \in 1..Len(t) /\ Len(t) + 1 = Len(s)
    BY <1>1, <1>2, <1>4, <1>5
  <2> QED
    BY <1>1, <2>1
<1>6. ASSUME t = <<>>
      PROVE  Head(s) = s[Len(s)]
  BY <1>1, <1>2, <1>3, <1>6
<1> QED
  BY <1>5, <1>6 DEF t

\* A tick looks at the last report; what it finds is the fader or a person's.
LEMMA TickBeginsKeeps ==
  ASSUME IInv, TickBegins
  PROVE  IInv'
<1>1. calm' => calm /\ setter = "idle" /\ (tracked \/ report \in {None, fader})
  BY DEF TickBegins, Suffers, If
<1>2. TypeOK'
  BY DEF IInv, TypeOK, TickBegins, Known, Suffers, knobVars, config
<1>3. LatestIsFader'
  BY <1>1 DEF IInv, LatestIsFader, Latest, Pending, TickBegins
<1>4. PendingIsFader'
  BY <1>1 DEF IInv, PendingIsFader, TickBegins
<1>5. ReadIsSeen' /\ EntryFits' /\ TickWorks' /\ LevelsFit'
  BY DEF IInv, ReadIsSeen, EntryFits, TickWorks, LevelsFit, TickBegins,
     knobVars
<1>6. SeedAlone'
  BY <1>1 DEF SeedAlone, TickBegins, knobVars
<1>7. NewsIsFader'
  BY <1>1 DEF IInv, NewsIsFader, LatestIsFader, PendingIsFader, ReadIsSeen,
     Latest, Pending, IsNews, TickBegins
<1>8. FaderExplained'
  BY <1>1 DEF IInv, FaderExplained, NoSendStuck, TickBegins
<1>9. BaseCatchesUp'
  BY <1>1 DEF IInv, BaseCatchesUp, LatestIsFader, EntryFits, FaderExplained,
     Latest, Pending, TickBegins
<1>10. RestoresHuman' /\ NoSendStuck'
  BY DEF RestoresHuman, NoSendStuck, TickBegins
<1> QED
  BY <1>2, <1>3, <1>4, <1>5, <1>6, <1>7, <1>8, <1>9, <1>10 DEF IInv

\* Without a level the entry has no base, and nothing was lowered.
LEMMA LevelUnknownKeeps ==
  ASSUME IInv, LevelUnknown
  PROVE  IInv'
<1>1. calm' => calm /\ ~(dev = human /\ base # dev /\ ~Believed)
  BY DEF LevelUnknown, Adopts, Suffers, If
<1>2. TypeOK'
  BY DEF IInv, TypeOK, LevelUnknown, Adopts, TickEnds, Suffers, Envelope,
     knobVars, config, mixer, reports
<1>3. LatestIsFader'
  BY <1>1 DEF IInv, LatestIsFader, Latest, Pending, LevelUnknown, Adopts,
     mixer, reports
<1>4. PendingIsFader'
  BY <1>1 DEF IInv, PendingIsFader, LevelUnknown, Adopts, mixer, reports
<1>5. ReadIsSeen' /\ EntryFits' /\ NewsIsFader' /\ TickWorks'
  BY DEF IInv, ReadIsSeen, EntryFits, NewsIsFader, TickWorks, IsNews,
     LevelUnknown, Adopts, TickEnds, mixer, reports
<1>6. SeedAlone'
  BY <1>1 DEF IInv, SeedAlone, LevelUnknown, Adopts, knobVars
<1>7. FaderExplained'
  BY <1>1 DEF IInv, FaderExplained, IsNews, Believed, LevelUnknown, Adopts,
     mixer
<1>8. BaseCatchesUp' /\ LevelsFit' /\ RestoresHuman' /\ NoSendStuck'
  BY DEF IInv, BaseCatchesUp, LevelsFit, RestoresHuman, NoSendStuck,
     LevelUnknown, IsNews, Believed, Adopts, TickEnds, knobVars, EntryFits
<1> QED
  BY <1>2, <1>3, <1>4, <1>5, <1>6, <1>7, <1>8 DEF IInv

\* A base at the floor is never lowered.
LEMMA NothingToDuckKeeps ==
  ASSUME IInv, NothingToDuck
  PROVE  IInv'
<1>1. calm' => calm /\ ~(dev = human /\ base # dev /\ ~Believed)
  BY DEF NothingToDuck, Adopts, Suffers, If
<1>2. TypeOK'
  BY DuckAssumption DEF IInv, TypeOK, NothingToDuck, Adopts, TickEnds, Known,
     Suffers, Envelope, knobVars, config, mixer, reports
<1>3. LatestIsFader'
  BY <1>1 DEF IInv, LatestIsFader, Latest, Pending, NothingToDuck, Adopts,
     mixer, reports
<1>4. PendingIsFader'
  BY <1>1 DEF IInv, PendingIsFader, NothingToDuck, Adopts, mixer, reports
<1>5. ReadIsSeen' /\ EntryFits' /\ NewsIsFader' /\ TickWorks'
  BY DEF IInv, ReadIsSeen, EntryFits, NewsIsFader, TickWorks, IsNews,
     NothingToDuck, Adopts, TickEnds, mixer, reports
<1>6. SeedAlone'
  BY <1>1 DEF IInv, SeedAlone, NothingToDuck, Adopts, knobVars
<1>7. FaderExplained'
  BY <1>1, DuckAssumption DEF TypeOK, IInv, FaderExplained, NewsIsFader,
     Levels, Near, External, Believed, NothingToDuck, Adopts, mixer
<1>8. BaseCatchesUp'
  BY <1>1, DuckAssumption DEF TypeOK, IInv, BaseCatchesUp, NewsIsFader,
     FaderExplained, Pending, Levels, Near, External, Believed, NothingToDuck,
     Adopts, knobVars, mixer, reports
<1>9. LevelsFit' /\ RestoresHuman' /\ NoSendStuck'
  BY DEF IInv, LevelsFit, RestoresHuman, NoSendStuck, NothingToDuck, Adopts,
     TickEnds, knobVars, EntryFits
<1> QED
  BY <1>2, <1>3, <1>4, <1>5, <1>6, <1>7, <1>8, <1>9 DEF IInv

\* The base the tick goes on with: news that is no echo, or the one it had.
LEMMA AudibleKeeps ==
  ASSUME IInv, Audible
  PROVE  IInv'
<1>1. calm' => calm /\ ~(dev = human /\ base # dev /\ ~Believed)
  BY DEF Audible, Adopts, Suffers, If
<1>2. TypeOK'
  BY DuckAssumption DEF IInv, TypeOK, Audible, Adopts, Suffers, Envelope,
     knobVars, config, mixer, reports
<1>3. LatestIsFader'
  BY <1>1 DEF IInv, LatestIsFader, Latest, Pending, Audible, Adopts, mixer,
     reports
<1>4. PendingIsFader'
  BY <1>1 DEF IInv, PendingIsFader, Audible, Adopts, mixer, reports
<1>5. ReadIsSeen' /\ EntryFits' /\ NewsIsFader' /\ LevelsFit'
  BY DEF IInv, ReadIsSeen, EntryFits, NewsIsFader, LevelsFit, IsNews, Audible,
     Adopts, mixer, reports, knobVars
<1>6. SeedAlone'
  BY <1>1 DEF IInv, SeedAlone, Audible, Adopts, knobVars
<1>7. FaderExplained'
  BY <1>1, DuckAssumption DEF TypeOK, IInv, FaderExplained, NewsIsFader,
     Levels, Near, External, Believed, Audible, Adopts, mixer
<1>8. TickWorks'
  BY <1>1, DuckAssumption DEF TypeOK, IInv, TickWorks, EntryFits, SeedAlone,
     NewsIsFader, FaderExplained, BaseCatchesUp, Pending, Levels, Near,
     External, Believed, Audible, Adopts, mixer, reports
<1>9. BaseCatchesUp'
  BY <1>1, DuckAssumption DEF TypeOK, IInv, BaseCatchesUp, NewsIsFader,
     FaderExplained, Pending, Levels, Near, External, Believed, Audible,
     Adopts, knobVars, mixer, reports
<1>10. RestoresHuman' /\ NoSendStuck'
  BY DEF IInv, RestoresHuman, NoSendStuck, Audible, EntryFits, Adopts
<1> QED
  BY <1>2, <1>3, <1>4, <1>5, <1>6, <1>7, <1>8, <1>9, <1>10 DEF IInv

\* The fader already is where the tick wants it.
LEMMA NoWriteKeeps ==
  ASSUME IInv, NoWrite
  PROVE  IInv'
<1>1. TypeOK'
  BY DEF IInv, TypeOK, NoWrite, TickEnds, Known, entry, knobVars, config,
     mixer, reports
<1>2. LatestIsFader' /\ PendingIsFader' /\ ReadIsSeen' /\ EntryFits'
  BY DEF IInv, LatestIsFader, PendingIsFader, ReadIsSeen, EntryFits, Latest,
     Pending, NoWrite, mixer, reports, TickEnds, entry
<1>3. SeedAlone' /\ NewsIsFader' /\ FaderExplained' /\ TickWorks'
  BY DEF IInv, SeedAlone, NewsIsFader, FaderExplained, TickWorks, NoWrite,
     knobVars, TickEnds, entry, mixer
<1>4. BaseCatchesUp' /\ LevelsFit' /\ RestoresHuman' /\ NoSendStuck'
  BY DEF IInv, BaseCatchesUp, LevelsFit, RestoresHuman, NoSendStuck, Pending,
     NoWrite, entry, knobVars, mixer, reports, TickEnds
<1> QED
  BY <1>1, <1>2, <1>3, <1>4 DEF IInv

\* The entry says what the write will do before it is done.
LEMMA RecordKeeps ==
  ASSUME IInv, Record
  PROVE  IInv'
<1>1. TypeOK'
  BY DuckAssumption DEF IInv, TypeOK, Record, Applied, LevelsFit, Known,
     Levels, Ducked, knobVars, config, mixer, reports
<1>2. LatestIsFader' /\ PendingIsFader' /\ ReadIsSeen' /\ EntryFits'
  BY DEF IInv, LatestIsFader, PendingIsFader, ReadIsSeen, EntryFits, Latest,
     Pending, Record, mixer, reports
<1>3. SeedAlone' /\ NewsIsFader' /\ FaderExplained' /\ BaseCatchesUp'
  BY DEF IInv, SeedAlone, NewsIsFader, FaderExplained, BaseCatchesUp, Record,
     knobVars, mixer, Pending, reports
<1>4. TickWorks'
  BY DuckAssumption DEF TypeOK, IInv, TickWorks, Pending, Known, Levels,
     Ducked, Record, Applied, mixer, reports
<1>5. LevelsFit'
  BY DuckAssumption DEF TypeOK, IInv, LevelsFit, Known, Levels, Ducked, Record,
     knobVars
<1>6. RestoresHuman' /\ NoSendStuck'
  BY DEF IInv, RestoresHuman, NoSendStuck, Record, mixer
<1> QED
  BY <1>1, <1>2, <1>3, <1>4, <1>5, <1>6 DEF IInv

\* The fader is where the entry says it is.
LEMMA WriteKeeps ==
  ASSUME IInv, Write
  PROVE  IInv'
<1>1. calm' => calm /\ ~Pending /\ fader' = out
  BY DEF Write, Sends, Suffers, If
<1>2. TypeOK'
  <2>1. fader' \in Levels
    BY DEF IInv, TypeOK, Write, Sends, LevelsFit, Known
  <2>2. calm' \in BOOLEAN
    BY Zenon DEF Write, Sends, Suffers
  <2> QED
    BY <2>1, <2>2 DEF IInv, TypeOK, Write, TickEnds, Known, entry, knobVars,
       config, reports
<1>3. LatestIsFader'
  BY <1>1 DEF LatestIsFader, Pending, Write, reports
<1>4. PendingIsFader'
  BY <1>1 DEF PendingIsFader, Pending, Write, reports
<1>5. ReadIsSeen' /\ EntryFits' /\ NewsIsFader' /\ TickWorks'
  BY DEF IInv, ReadIsSeen, EntryFits, NewsIsFader, TickWorks, Write, TickEnds,
     entry, reports
<1>6. SeedAlone'
  BY <1>1 DEF IInv, SeedAlone, Write, knobVars
<1>7. FaderExplained'
  BY <1>1 DEF IInv, FaderExplained, TickWorks, Write, entry
<1>8. BaseCatchesUp'
  BY <1>1 DEF IInv, BaseCatchesUp, Write, entry, knobVars
<1>9. LevelsFit' /\ RestoresHuman' /\ NoSendStuck'
  BY DEF IInv, LevelsFit, RestoresHuman, NoSendStuck, Write, TickEnds, entry,
     knobVars, EntryFits
<1> QED
  BY <1>2, <1>3, <1>4, <1>5, <1>6, <1>7, <1>8, <1>9 DEF IInv

\* The base that is given back is a person's level, or one is on its way.
LEMMA RestoreKeeps ==
  ASSUME IInv, Restore
  PROVE  IInv'
<1>1. calm' => calm /\ setter = "idle" /\ ~(mode = "deleted" /\ applied > 0) /\
      ~(Restoring /\ Pending)
  BY DEF Restore, Suffers, If
<1>2. TypeOK'
  <2>1. pc' \in {"wait", "restore"} /\ out' \in Known /\ calm' \in BOOLEAN
    BY DEF Restore, Suffers, IInv, TypeOK
  <2>2. setter' \in {"idle", "seed"} /\ turn' \in Known
    BY DEF Restore, Returns, IInv, TypeOK, Known, knobVars
  <2>3. 0 \in 0..Depth
    BY DuckAssumption
  <2>4. gr' \in 0..Depth /\ applied' \in 0..Depth /\ tracked' \in BOOLEAN
    BY <2>3 DEF Restore, Forgets
  <2>5. base' \in Known /\ written' \in Known /\ seen' \in Known
    BY DEF Restore, Forgets, Known
  <2> QED
    BY <2>1, <2>2, <2>4, <2>5 DEF Restore, IInv, TypeOK, Known, config, mixer,
       reports
<1>3. LatestIsFader'
  BY <1>1 DEF IInv, LatestIsFader, Latest, Pending, Restore, mixer, reports
<1>4. PendingIsFader'
  BY <1>1 DEF IInv, PendingIsFader, Restore, mixer, reports
<1>5. ReadIsSeen' /\ EntryFits' /\ NewsIsFader' /\ FaderExplained'
  BY DEF ReadIsSeen, EntryFits, NewsIsFader, FaderExplained, Restore, Forgets,
     Returns, knobVars
<1>6. SeedAlone'
  BY <1>1 DEF SeedAlone, Restore, Returns
<1>7. TickWorks' /\ BaseCatchesUp' /\ LevelsFit'
  BY DEF IInv, TickWorks, BaseCatchesUp, LevelsFit, Restore, Forgets, Returns,
     Restoring, knobVars
<1>8. RestoresHuman'
  BY <1>1 DEF IInv, RestoresHuman, BaseCatchesUp, LevelsFit, Restore,
     Restoring, mixer
<1>9. NoSendStuck'
  BY <1>1 DEF TypeOK, IInv, NoSendStuck, FaderExplained, Levels, Ducked,
     Restore, Restoring, mixer
<1> QED
  BY <1>2, <1>3, <1>4, <1>5, <1>6, <1>7, <1>8, <1>9 DEF IInv

\* The fader is given back.
LEMMA RestoreWritesKeeps ==
  ASSUME IInv, RestoreWrites
  PROVE  IInv'
<1>1. calm' => calm /\ ~Pending /\ fader' = out
  BY DEF RestoreWrites, Sends, Suffers, If
<1>2. TypeOK'
  <2>1. out \in Levels
    BY DEF RestoreWrites, IInv, LevelsFit, TypeOK, Known
  <2>2. fader' \in Levels /\ calm' \in BOOLEAN
    BY <2>1 DEF RestoreWrites, Sends, Suffers, IInv, TypeOK
  <2> QED
    BY <2>2 DEF RestoreWrites, TickEnds, IInv, TypeOK, Known, entry, knobVars,
       config, reports
<1>3. LatestIsFader'
  BY <1>1 DEF LatestIsFader, Pending, RestoreWrites, reports
<1>4. PendingIsFader'
  BY <1>1 DEF PendingIsFader, Pending, RestoreWrites, reports
<1>5. ReadIsSeen' /\ EntryFits' /\ NewsIsFader' /\ FaderExplained'
  BY DEF IInv, ReadIsSeen, EntryFits, NewsIsFader, FaderExplained,
     RestoreWrites, TickEnds, entry, reports, knobVars
<1>6. SeedAlone'
  BY <1>1 DEF IInv, SeedAlone, RestoreWrites, knobVars
<1>7. TickWorks' /\ BaseCatchesUp' /\ LevelsFit' /\ RestoresHuman'
  BY DEF IInv, TickWorks, BaseCatchesUp, LevelsFit, RestoresHuman,
     RestoreWrites, TickEnds, EntryFits, entry, knobVars
<1>8. NoSendStuck'
  BY <1>1 DEF IInv, NoSendStuck, RestoresHuman, RestoreWrites
<1> QED
  BY <1>2, <1>3, <1>4, <1>5, <1>6, <1>7, <1>8 DEF IInv

\* The ticker leaves nothing behind.
LEMMA EndsKeeps ==
  ASSUME IInv, Ends
  PROVE  IInv'
<1>1. TypeOK'
  BY DEF IInv, TypeOK, Ends, entry, knobVars, config, mixer, reports
<1>2. LatestIsFader' /\ PendingIsFader' /\ ReadIsSeen' /\ EntryFits'
  BY DEF IInv, LatestIsFader, PendingIsFader, ReadIsSeen, EntryFits, Latest,
     Pending, Ends, mixer, reports, entry, knobVars
<1>3. SeedAlone' /\ NewsIsFader' /\ FaderExplained' /\ TickWorks'
  BY DEF IInv, SeedAlone, NewsIsFader, FaderExplained, TickWorks, Pending,
     Ends, knobVars, mixer, reports, entry
<1>4. BaseCatchesUp' /\ LevelsFit' /\ RestoresHuman' /\ NoSendStuck'
  BY DEF IInv, BaseCatchesUp, LevelsFit, RestoresHuman, NoSendStuck, Ends,
     entry, knobVars, mixer
<1> QED
  BY <1>1, <1>2, <1>3, <1>4 DEF IInv

\* Without an entry the fader is the performer's.
LEMMA SeedsNothingKeeps ==
  ASSUME IInv, SeedsNothing
  PROVE  IInv'
<1>1. TypeOK'
  BY DEF IInv, TypeOK, SeedsNothing, Returns, EntryFits, entry, tickVars,
     config, mixer, reports
<1>2. LatestIsFader' /\ PendingIsFader' /\ ReadIsSeen' /\ EntryFits'
  BY DEF IInv, TypeOK, LatestIsFader, PendingIsFader, ReadIsSeen, EntryFits,
     Latest, Pending, SeedsNothing, mixer, reports, entry, tickVars, Returns
<1>3. SeedAlone' /\ NewsIsFader' /\ FaderExplained' /\ TickWorks'
  BY DEF IInv, SeedAlone, NewsIsFader, FaderExplained, TickWorks, SeedsNothing,
     Returns, Pending, IsNews, entry, tickVars, mixer, reports
<1>4. BaseCatchesUp' /\ LevelsFit' /\ RestoresHuman' /\ NoSendStuck'
  BY DEF IInv, BaseCatchesUp, LevelsFit, RestoresHuman, NoSendStuck,
     SeedsNothing, entry, Returns, tickVars, Pending, mixer, reports
<1> QED
  BY <1>1, <1>2, <1>3, <1>4 DEF IInv

\* The base is the level knob_set has written.
LEMMA SeedsBaseKeeps ==
  ASSUME IInv, SeedsBase
  PROVE  IInv'
<1>1. TypeOK'
  BY DEF IInv, TypeOK, SeedsBase, Seeded, tickVars, config, mixer, reports
<1>2. LatestIsFader' /\ PendingIsFader' /\ ReadIsSeen' /\ EntryFits'
  BY DEF IInv, LatestIsFader, PendingIsFader, ReadIsSeen, EntryFits, Latest,
     Pending, SeedsBase, mixer, reports, tickVars
<1>3. SeedAlone' /\ NewsIsFader' /\ FaderExplained' /\ TickWorks'
  BY DEF IInv, SeedAlone, NewsIsFader, FaderExplained, TickWorks, Pending,
     SeedsBase, Seeded, tickVars, mixer, reports, IsNews
<1>4. BaseCatchesUp' /\ LevelsFit' /\ RestoresHuman' /\ NoSendStuck'
  BY DEF IInv, BaseCatchesUp, LevelsFit, RestoresHuman, NoSendStuck, SeedsBase,
     Seeded, tickVars, Pending, mixer, reports
<1> QED
  BY <1>1, <1>2, <1>3, <1>4 DEF IInv

\* Only the record of the last write changes.
LEMMA SeedsWrittenKeeps ==
  ASSUME IInv, SeedsWritten
  PROVE  IInv'
<1>1. TypeOK'
  BY DEF IInv, TypeOK, SeedsWritten, tickVars, config, mixer, reports
<1>2. LatestIsFader' /\ PendingIsFader' /\ ReadIsSeen' /\ EntryFits'
  BY DEF IInv, LatestIsFader, PendingIsFader, ReadIsSeen, EntryFits, Latest,
     Pending, SeedsWritten, mixer, reports, tickVars
<1>3. SeedAlone' /\ NewsIsFader' /\ FaderExplained' /\ TickWorks'
  BY DEF IInv, SeedAlone, NewsIsFader, FaderExplained, TickWorks, Pending,
     SeedsWritten, tickVars, mixer, reports, IsNews
<1>4. BaseCatchesUp' /\ LevelsFit' /\ RestoresHuman' /\ NoSendStuck'
  BY DEF IInv, BaseCatchesUp, LevelsFit, RestoresHuman, NoSendStuck,
     SeedsWritten, tickVars, Pending, mixer, reports
<1> QED
  BY <1>1, <1>2, <1>3, <1>4 DEF IInv

\* The reduction is forgotten once the base and the record are the performer's.
LEMMA SeedsAppliedKeeps ==
  ASSUME IInv, SeedsApplied
  PROVE  IInv'
<1>1. TypeOK'
  BY DuckAssumption DEF IInv, TypeOK, SeedsApplied, Returns, Known, tickVars,
     config, mixer, reports
<1>2. LatestIsFader' /\ PendingIsFader' /\ ReadIsSeen' /\ EntryFits'
  BY DEF IInv, LatestIsFader, PendingIsFader, ReadIsSeen, EntryFits, Latest,
     Pending, SeedsApplied, mixer, reports, tickVars
<1>3. SeedAlone' /\ NewsIsFader' /\ FaderExplained' /\ TickWorks'
  BY DEF IInv, SeedAlone, NewsIsFader, FaderExplained, TickWorks, SeedsApplied,
     Returns, Pending, IsNews, tickVars, mixer, reports
<1>4. BaseCatchesUp' /\ LevelsFit' /\ RestoresHuman' /\ NoSendStuck'
  BY DEF IInv, BaseCatchesUp, LevelsFit, RestoresHuman, NoSendStuck, SeedAlone,
     Pending, SeedsApplied, mixer, reports, Returns, tickVars
<1> QED
  BY <1>1, <1>2, <1>3, <1>4 DEF IInv

\* A move in TotalMix is on its way to the ticker.
LEMMA FaderMovedKeeps ==
  ASSUME NEW l \in Levels, IInv, FaderMoved(l)
  PROVE  IInv'
<1>1. TypeOK'
  BY DuckAssumption DEF IInv, TypeOK, FaderMoved, Counted, entry, tickVars,
     knobVars, config
<1>2. LatestIsFader' /\ PendingIsFader' /\ ReadIsSeen' /\ EntryFits'
  BY DEF IInv, LatestIsFader, PendingIsFader, ReadIsSeen, EntryFits, Latest,
     FaderMoved, entry, tickVars, knobVars
<1>3. SeedAlone' /\ NewsIsFader' /\ FaderExplained' /\ TickWorks'
  BY DEF IInv, SeedAlone, NewsIsFader, FaderExplained, TickWorks, Pending,
     FaderMoved, entry, tickVars, knobVars
<1>4. BaseCatchesUp' /\ LevelsFit' /\ RestoresHuman' /\ NoSendStuck'
  BY DEF IInv, BaseCatchesUp, LevelsFit, RestoresHuman, NoSendStuck, Pending,
     FaderMoved, entry, tickVars, knobVars
<1> QED
  BY <1>1, <1>2, <1>3, <1>4 DEF IInv

\* knob_set has the engine to itself and nothing is under way.
LEMMA KnobWritesKeeps ==
  ASSUME NEW l \in Levels, IInv, KnobWrites(l)
  PROVE  IInv'
<1>1. calm' => calm /\ pc = "wait" /\ ~Pending
  BY DEF KnobWrites, Suffers, If
<1>2. TypeOK'
  BY DuckAssumption DEF IInv, TypeOK, KnobWrites, Counted, Known, Suffers,
     entry, tickVars, config, reports
<1>3. LatestIsFader'
  BY <1>1 DEF LatestIsFader, Pending, KnobWrites, reports
<1>4. PendingIsFader' /\ ReadIsSeen' /\ EntryFits' /\ FaderExplained'
  BY DEF IInv, PendingIsFader, ReadIsSeen, EntryFits, FaderExplained,
     KnobWrites, entry, tickVars, reports
<1>5. SeedAlone'
  BY <1>1, DuckAssumption DEF SeedAlone, Levels, KnobWrites, tickVars
<1>6. NewsIsFader'
  BY <1>1 DEF NewsIsFader, KnobWrites, tickVars
<1>7. TickWorks'
  BY <1>1 DEF TickWorks, KnobWrites, tickVars
<1>8. BaseCatchesUp' /\ NoSendStuck'
  BY DEF BaseCatchesUp, NoSendStuck, KnobWrites
<1>9. LevelsFit'
  BY DuckAssumption DEF IInv, LevelsFit, Levels, KnobWrites, entry, tickVars
<1>10. RestoresHuman'
  BY <1>1 DEF RestoresHuman, KnobWrites, tickVars
<1> QED
  BY <1>2, <1>3, <1>4, <1>5, <1>6, <1>7, <1>8, <1>9, <1>10 DEF IInv

\* The report of a dump is the fader.
LEMMA DumpKeeps ==
  ASSUME IInv, Dump
  PROVE  IInv'
<1>1. TypeOK'
  BY DuckAssumption DEF IInv, TypeOK, Dump, Counted, entry, tickVars, knobVars,
     config
<1>2. LatestIsFader' /\ PendingIsFader' /\ ReadIsSeen' /\ EntryFits'
  BY DEF IInv, LatestIsFader, PendingIsFader, ReadIsSeen, EntryFits, Latest,
     Dump, entry, tickVars, knobVars
<1>3. SeedAlone' /\ NewsIsFader' /\ FaderExplained' /\ TickWorks'
  BY DEF IInv, SeedAlone, NewsIsFader, FaderExplained, TickWorks, Pending,
     Dump, entry, tickVars, knobVars, IsNews
<1>4. BaseCatchesUp' /\ LevelsFit' /\ RestoresHuman' /\ NoSendStuck'
  BY DEF IInv, BaseCatchesUp, LevelsFit, RestoresHuman, NoSendStuck, Pending,
     Dump, entry, tickVars, knobVars
<1> QED
  BY <1>1, <1>2, <1>3, <1>4 DEF IInv

\* The listener takes the oldest report; the last one stays the last.
LEMMA IngestKeeps ==
  ASSUME IInv, Ingest
  PROVE  IInv'
<1>1. TypeOK'
  BY DEF IInv, TypeOK, Ingest, Known, entry, tickVars, knobVars, config
<1>2. LatestIsFader'
  <2>1. wire \in Seq(Levels) /\ wire # <<>>
    BY DEF IInv, TypeOK, Ingest
  <2>2. /\ Tail(wire) = <<>> => Head(wire) = wire[Len(wire)]
        /\ Tail(wire) # <<>> => Tail(wire)[Len(Tail(wire))] = wire[Len(wire)]
    BY <2>1, LastOfTail
  <2>3. Latest' = Latest
    BY <2>1, <2>2 DEF Latest, Ingest
  <2> QED
    BY <2>1, <2>3 DEF IInv, LatestIsFader, Pending, Ingest
<1>3. PendingIsFader' /\ ReadIsSeen' /\ EntryFits' /\ SeedAlone'
  BY DEF IInv, PendingIsFader, ReadIsSeen, EntryFits, SeedAlone, Ingest, entry,
     tickVars, knobVars, Pending
<1>4. NewsIsFader' /\ FaderExplained' /\ TickWorks' /\ BaseCatchesUp'
  BY DEF IInv, NewsIsFader, FaderExplained, TickWorks, BaseCatchesUp, Pending,
     IsNews, Ingest, entry, tickVars
<1>5. LevelsFit' /\ RestoresHuman' /\ NoSendStuck'
  BY DEF IInv, LevelsFit, RestoresHuman, NoSendStuck, Ingest, entry, tickVars,
     knobVars, Pending
<1> QED
  BY <1>1, <1>2, <1>3, <1>4, <1>5 DEF IInv

\* The configuration is not part of the argument.
LEMMA EditKeeps ==
  ASSUME NEW m \in {"enabled", "disabled", "deleted"}, IInv, Edit(m)
  PROVE  IInv'
<1>1. TypeOK'
  BY DuckAssumption DEF IInv, TypeOK, Edit, Counted, entry, tickVars, knobVars,
     mixer, reports
<1>2. LatestIsFader' /\ PendingIsFader' /\ ReadIsSeen' /\ EntryFits'
  BY DEF IInv, TypeOK, LatestIsFader, PendingIsFader, ReadIsSeen, EntryFits,
     Latest, Pending, Edit, mixer, reports, entry, tickVars, knobVars
<1>3. SeedAlone' /\ NewsIsFader' /\ FaderExplained' /\ TickWorks'
  BY DEF IInv, SeedAlone, NewsIsFader, FaderExplained, TickWorks, Pending,
     Edit, entry, tickVars, knobVars, mixer, reports, IsNews
<1>4. BaseCatchesUp' /\ LevelsFit' /\ RestoresHuman' /\ NoSendStuck'
  BY DEF IInv, BaseCatchesUp, LevelsFit, RestoresHuman, NoSendStuck, Pending,
     Edit, entry, tickVars, knobVars, mixer, reports
<1> QED
  BY <1>1, <1>2, <1>3, <1>4 DEF IInv

\* Nor is the request to stop.
LEMMA StopKeeps ==
  ASSUME IInv, Stop
  PROVE  IInv'
<1>1. TypeOK'
  BY DEF IInv, TypeOK, Stop, entry, tickVars, knobVars, mixer, reports
<1>2. LatestIsFader' /\ PendingIsFader' /\ ReadIsSeen' /\ EntryFits'
  BY DEF IInv, LatestIsFader, PendingIsFader, ReadIsSeen, EntryFits, Latest,
     Pending, Stop, mixer, reports, entry, tickVars, knobVars
<1>3. SeedAlone' /\ NewsIsFader' /\ FaderExplained' /\ TickWorks'
  BY DEF IInv, SeedAlone, NewsIsFader, FaderExplained, TickWorks, Pending,
     Stop, entry, tickVars, knobVars, mixer, reports, IsNews
<1>4. BaseCatchesUp' /\ LevelsFit' /\ RestoresHuman' /\ NoSendStuck'
  BY DEF IInv, BaseCatchesUp, LevelsFit, RestoresHuman, NoSendStuck, Pending,
     Stop, entry, tickVars, knobVars, mixer, reports
<1> QED
  BY <1>1, <1>2, <1>3, <1>4 DEF IInv

-----------------------------------------------------------------------------
\* A new engine has no entry, and the fader is a person's.
LEMMA InitEstablishes ==
  ASSUME Init
  PROVE  IInv
<1>1. TypeOK
  <2>1. wire \in Seq(Levels) /\ report \in Known
    BY EmptySeq DEF Init, Known
  <2>2. gr \in 0..Depth /\ applied \in 0..Depth /\ moves \in 0..MaxMoves
    BY DuckAssumption DEF Init
  <2> QED
    BY <2>1, <2>2 DEF Init, TypeOK, Known
<1>2. LatestIsFader /\ PendingIsFader /\ ReadIsSeen
  BY DEF Init, LatestIsFader, PendingIsFader, Pending, ReadIsSeen
<1>3. EntryFits /\ LevelsFit /\ SeedAlone /\ NewsIsFader /\ FaderExplained
  BY DEF Init, EntryFits, LevelsFit, SeedAlone, NewsIsFader, FaderExplained
<1>4. TickWorks /\ BaseCatchesUp /\ RestoresHuman /\ NoSendStuck
  BY DEF Init, TickWorks, BaseCatchesUp, RestoresHuman, NoSendStuck
<1> QED
  BY <1>1, <1>2, <1>3, <1>4 DEF IInv

\* A step that changes nothing keeps everything.
LEMMA StutterKeeps ==
  ASSUME IInv, UNCHANGED vars
  PROVE  IInv'
<1> USE DEF vars, entry, tickVars, knobVars, config, mixer, reports
<1>1. TypeOK'
  BY DEF IInv, TypeOK
<1>2. LatestIsFader' /\ PendingIsFader' /\ ReadIsSeen'
  BY DEF IInv, LatestIsFader, PendingIsFader, Pending, ReadIsSeen, Latest
<1>3. EntryFits' /\ LevelsFit' /\ SeedAlone' /\ NewsIsFader' /\ FaderExplained'
  BY DEF IInv, EntryFits, LevelsFit, SeedAlone, NewsIsFader, FaderExplained,
         IsNews, Pending
<1>4. TickWorks' /\ BaseCatchesUp' /\ RestoresHuman' /\ NoSendStuck'
  BY DEF IInv, TickWorks, BaseCatchesUp, RestoresHuman, NoSendStuck, Pending
<1> QED
  BY <1>1, <1>2, <1>3, <1>4 DEF IInv

\* The inductive invariant: for every choice of the constants.
THEOREM Invariance == Spec => []IInv
<1>1. Init => IInv
  BY InitEstablishes
<1>2. IInv /\ [Next]_vars => IInv'
  <2> SUFFICES ASSUME IInv, [Next]_vars
               PROVE  IInv'
    OBVIOUS
  <2>1. CASE Tick
    BY <2>1, TickBeginsKeeps, LevelUnknownKeeps, NothingToDuckKeeps,
       AudibleKeeps, NoWriteKeeps, RecordKeeps, WriteKeeps, RestoreKeeps,
       RestoreWritesKeeps, EndsKeeps DEF Tick
  <2>2. CASE SeedStep
    BY <2>2, SeedsNothingKeeps, SeedsBaseKeeps, SeedsWrittenKeeps,
       SeedsAppliedKeeps DEF SeedStep
  <2>3. CASE \E l \in Levels : KnobWrites(l) \/ FaderMoved(l)
    BY <2>3, KnobWritesKeeps, FaderMovedKeeps
  <2>4. CASE Dump \/ Ingest \/ Stop
    BY <2>4, DumpKeeps, IngestKeeps, StopKeeps
  <2>5. CASE \E m \in {"enabled", "disabled", "deleted"} : Edit(m)
    BY <2>5, EditKeeps
  <2>6. CASE UNCHANGED vars
    BY <2>6, StutterKeeps
  <2> QED
    BY <2>1, <2>2, <2>3, <2>4, <2>5, <2>6 DEF Next
<1> QED
  BY <1>1, <1>2, PTL DEF Spec

\* Types hold throughout.
THEOREM Typing == Spec => []TypeOK
<1>1. IInv => TypeOK
  BY DEF IInv
<1> QED
  BY <1>1, Invariance, PTL

\* duck_engine.py, run: "leave no send stuck ducked".  Without mishaps, what the
\* engine has let go of is where a person put it.
THEOREM NothingStuck == Spec => []NoSendStuck
<1>1. IInv => NoSendStuck
  BY DEF IInv
<1> QED
  BY <1>1, Invariance, PTL

\* duck_engine.py, duck_tick: "base = the freshest EXTERNAL device level".
\* Without mishaps, the base of an up-to-date tick is what a person chose last.
THEOREM BaseFollows == Spec => BaseIsHuman
<1>1. IInv => [Adopts /\ calm' /\ UpToDate /\ base' # None
                  => base' = human]_vars
  <2> SUFFICES ASSUME IInv, Adopts, calm', UpToDate, base' # None
               PROVE  base' = human
    OBVIOUS
  <2>1. calm /\ ~(dev = human /\ base # dev /\ ~Believed)
    BY DEF Adopts, Suffers, If
  <2>2. pc = "rebase" /\ tracked /\ setter = "idle" /\ ~Pending
    BY DEF Adopts, UpToDate, IInv, EntryFits
  <2>3. CASE Believed
    <3>1. dev = fader
      BY <2>1, <2>2, <2>3 DEF Believed, IInv, NewsIsFader
    <3>2. fader \in Int /\ ExternalEps \in Nat
      BY DuckAssumption DEF IInv, TypeOK, Levels
    <3>3. fader # written
      \* An echo is within ExternalEps of itself.
      <4> SUFFICES ASSUME fader = written
                   PROVE  written # None /\ Near(dev, written)
        BY <2>3 DEF Believed, External
      <4>1. Near(fader, fader)
        BY <3>2 DEF Near
      <4>2. written # None
        BY DuckAssumption DEF IInv, TypeOK, Levels
      <4> QED
        BY <3>1, <4>1, <4>2
    <3>4. fader = human
      BY <2>1, <2>2, <3>3 DEF IInv, FaderExplained
    <3> QED
      BY <2>3, <3>1, <3>4 DEF Adopts
  <2>4. CASE ~Believed
    BY <2>1, <2>2, <2>4 DEF Adopts, IInv, BaseCatchesUp
  <2> QED
    BY <2>3, <2>4
<1> QED
  BY <1>1, Invariance, PTL DEF BaseIsHuman

\* duck_engine.py: "riding the send while it ducks Just Works".  Without mishaps,
\* a tick that ends without reduction leaves the fader where a person put it.
THEOREM ReleaseIsExact == Spec => ReleaseReturns
<1> DEFINE Returned ==
      pc # "wait" /\ pc' = "wait" /\ gr' = 0 /\ calm' /\ tracked' /\ UpToDate'
        /\ base' # None => fader' = human'
<1>1. IInv /\ IInv' /\ [Next]_vars => [Returned]_vars
  <2> SUFFICES ASSUME IInv, IInv', [Next]_vars,
                      pc # "wait", pc' = "wait", gr' = 0, calm', tracked',
                      UpToDate', base' # None
               PROVE  fader' = human'
    OBVIOUS
  \* Once the tick is over, a fader that is not a person's was lowered from
  \* there, and the entry says by nothing.
  <2>1. CASE LevelUnknown \/ NothingToDuck
    <3>1. written' = None
      BY <2>1 DEF LevelUnknown, NothingToDuck
    <3>2. fader' \in Levels /\ None \notin Levels
      BY DuckAssumption DEF IInv, TypeOK, Levels
    <3> QED
      BY <3>1, <3>2 DEF IInv, FaderExplained
  <2>2. CASE NoWrite
    <3>1. /\ calm /\ gr = 0 /\ fader' = fader /\ human' = human
          /\ written = Ducked(base, 0)
      BY <2>2 DEF NoWrite, entry, mixer, IInv, TickWorks
    <3>2. base > Floor /\ base \in Levels
      BY <3>1, <2>2 DEF NoWrite, IInv, TickWorks, TypeOK, Known
    <3>3. written = base
      BY <3>1, <3>2, DuckAssumption DEF Ducked, Levels
    <3>4. tracked /\ pc # "write"
      BY <2>2 DEF NoWrite, entry
    <3> QED
      BY <3>1, <3>3, <3>4 DEF IInv, FaderExplained
  <2>3. CASE Write
    <3>1. calm /\ ~Pending /\ fader' = out /\ human' = human /\ gr = 0
      BY <2>3 DEF Write, Sends, Suffers, If, mixer, entry
    <3>2. out = Ducked(base, 0) /\ base = human /\ base > Floor
      BY <2>3, <3>1 DEF Write, IInv, TickWorks
    <3> QED
      BY <3>1, <3>2, DuckAssumption DEF Ducked, IInv, TypeOK, Levels
  <2>4. CASE RestoreWrites
    BY <2>4 DEF RestoreWrites, entry, IInv, EntryFits
  <2>5. CASE UNCHANGED pc
    BY <2>5
  <2>6. LevelUnknown \/ NothingToDuck \/ NoWrite \/ Write \/ RestoreWrites
          \/ UNCHANGED pc
    BY DEF Next, Tick, SeedStep, TickBegins, Audible, Record, Restore, Ends,
       SeedsNothing, SeedsBase, SeedsWritten, SeedsApplied, KnobWrites,
       FaderMoved, Dump, Ingest, Edit, Stop, tickVars, vars
  <2> QED
    BY <2>1, <2>2, <2>3, <2>4, <2>5, <2>6
<1> QED
  BY <1>1, Invariance, PTL DEF ReleaseReturns, Spec

=============================================================================
