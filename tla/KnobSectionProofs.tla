------------------------- MODULE KnobSectionProofs -------------------------
(***************************************************************************)
(* Theorems about KnobSection, for every set of threads, positions and     *)
(* knobs.  The argument: when no readback is due, the reports under way    *)
(* and what has been heard together say what the mixer is; a move that     *)
(* finds everything told therefore sees the switch as it is, and as long   *)
(* as nobody else touches it, it stays as the knob wrote it.               *)
(***************************************************************************)
EXTENDS KnobSection, SequenceTheorems, TLAPS

Report == Things \X BOOLEAN

\* The last that q has of a thing, or w if it has nothing, is m or unknown.
Agrees(q, w, thing, m) ==
  \/ /\ w \in {None, m}
     /\ \A j \in 1..Len(q) : q[j][1] # thing
  \/ \E i \in 1..Len(q) :
       /\ q[i] = <<thing, m>>
       /\ \A j \in 1..Len(q) : j > i => q[j][1] # thing

-----------------------------------------------------------------------------
(* Reports.                                                                *)

LEMMA AppendOther ==
  ASSUME NEW q \in Seq(Report), NEW w, NEW thing, NEW m, NEW r \in Report,
         r[1] # thing, Agrees(q, w, thing, m)
  PROVE  Agrees(Append(q, r), w, thing, m)
<1>1. /\ Len(Append(q, r)) = Len(q) + 1 /\ Len(q) \in Nat
      /\ \A i \in 1..Len(q) : Append(q, r)[i] = q[i]
      /\ Append(q, r)[Len(q) + 1] = r
  BY AppendProperties, LenProperties
<1> QED
  BY <1>1 DEF Agrees

LEMMA AppendSame ==
  ASSUME NEW q \in Seq(Report), NEW w, NEW thing \in Things, NEW m \in BOOLEAN
  PROVE  Agrees(Append(q, <<thing, m>>), w, thing, m)
<1>1. /\ Len(Append(q, <<thing, m>>)) = Len(q) + 1 /\ Len(q) \in Nat
      /\ Append(q, <<thing, m>>)[Len(q) + 1] = <<thing, m>>
  BY AppendProperties, LenProperties DEF Report
<1> QED
  BY <1>1 DEF Agrees

LEMMA Ingested ==
  ASSUME NEW q \in Seq(Report), q # <<>>, NEW w, NEW thing \in Things,
         NEW m \in BOOLEAN, Agrees(q, w, thing, m)
  PROVE  Agrees(Tail(q), IF Head(q)[1] = thing THEN Head(q)[2] ELSE w, thing, m)
<1>1. /\ Len(q) \in Nat \ {0} /\ Len(Tail(q)) = Len(q) - 1 /\ Head(q) = q[1]
      /\ \A i \in 1..(Len(q) - 1) : Tail(q)[i] = q[i + 1]
  BY HeadTailProperties, LenProperties, EmptySeq
<1>2. CASE w \in {None, m} /\ \A j \in 1..Len(q) : q[j][1] # thing
  <2>1. \A j \in 1..Len(Tail(q)) : Tail(q)[j][1] # thing
    BY <1>1, <1>2
  <2>2. Head(q)[1] # thing
    BY <1>1, <1>2
  <2> QED
    BY <1>2, <2>1, <2>2 DEF Agrees
<1>3. CASE \E i \in 1..Len(q) :
             q[i] = <<thing, m>> /\ \A j \in 1..Len(q) : j > i => q[j][1] # thing
  <2>1. PICK i \in 1..Len(q) :
          q[i] = <<thing, m>> /\ \A j \in 1..Len(q) : j > i => q[j][1] # thing
    BY <1>3
  <2>2. CASE i = 1
    <3>1. Head(q)[1] = thing /\ Head(q)[2] = m
      BY <1>1, <2>1, <2>2
    <3>2. \A j \in 1..Len(Tail(q)) : Tail(q)[j][1] # thing
      BY <1>1, <2>1, <2>2
    <3> QED
      BY <3>1, <3>2 DEF Agrees
  <2>3. CASE i # 1
    <3>1. i - 1 \in 1..Len(Tail(q)) /\ Tail(q)[i - 1] = <<thing, m>>
      BY <1>1, <2>1, <2>3
    <3>2. \A j \in 1..Len(Tail(q)) : j > i - 1 => Tail(q)[j][1] # thing
      BY <1>1, <2>1, <2>3
    <3> QED
      BY <3>1, <3>2 DEF Agrees
  <2> QED
    BY <2>2, <2>3
<1> QED
  BY <1>2, <1>3 DEF Agrees

LEMMA Reporting ==
  ASSUME NEW q \in Seq(Report), NEW thing \in Things, NEW on \in BOOLEAN,
         NEW c \in BOOLEAN
  PROVE  /\ q \o Reported(thing, on, c) \in Seq(Report)
         /\ q \o Reported(thing, on, c) = IF c THEN Append(q, <<thing, on>>) ELSE q
<1>1. <<thing, on>> \in Report
  BY DEF Report
<1>2. q \o <<<<thing, on>>>> = Append(q, <<thing, on>>)
  BY <1>1, AppendIsConcat
<1>3. q \o <<>> = q
  BY ConcatEmptySeq
<1> QED
  BY <1>1, <1>2, <1>3, AppendProperties DEF Reported

-----------------------------------------------------------------------------
(* Types.                                                                  *)

LEMMA TypeInit == Init => TypeOK
<1> SUFFICES ASSUME Init PROVE TypeOK
  OBVIOUS
<1> USE SectionAssumption
<1>1. knob \in Knobs /\ mixer \in [section : BOOLEAN, pin : BOOLEAN, level : Values]
  BY DEF Init
<1>2. \A thing \in Things : mixer[thing] \in BOOLEAN
  BY <1>1 DEF Things
<1>3. seen \in [Things -> BOOLEAN \cup {None}]
  BY <1>2 DEF Init
<1>4. reports \in Seq(Things \X BOOLEAN)
  BY EmptySeq DEF Init
<1>5. bridge \in [value : Values \cup {None}, memo : BOOLEAN \cup {None},
                  readback : BOOLEAN, limit : [Things -> BOOLEAN]]
  BY DEF Init
<1>6. /\ pc \in [Threads -> Locations] /\ arg \in [Threads -> Values \cup {None}]
      /\ \A t \in Hands : pc[t] \notin {"waits", "held"}
      /\ \A t \in Threads : pc[t] = "idle"
  BY DEF Init, Locations, Threads
<1>7. /\ flight \in BOOLEAN /\ mishaps \subseteq Mishaps
      /\ past \in [own : SUBSET Things, asked : Values \cup {None}]
      /\ count \in [moves : Nat, others : Nat]
  BY DEF Init
<1> QED
  BY <1>1, <1>3, <1>4, <1>5, <1>6, <1>7 DEF TypeOK

\* What a thread is told to do next.
LEMMA GoesTyped ==
  ASSUME TypeOK, NEW t \in Threads, NEW l \in Locations, Goto(t, l),
         t \in Hands => l \notin {"waits", "held"},
         arg' \in [Threads -> Values \cup {None}],
         \A u \in Threads : u # t => arg'[u] = arg[u],
         l \notin {"idle", "waits"} => arg'[t] # None,
         l \in {"crosses", "remembers"} => knob.offEnd,
         knob' = knob
  PROVE  /\ pc' \in [Threads -> Locations]
         /\ \A u \in Hands : pc'[u] \notin {"waits", "held"}
         /\ \A u \in Threads : pc'[u] \notin {"idle", "waits"} => arg'[u] # None
         /\ \A u \in Threads : pc'[u] \in {"crosses", "remembers"} => knob'.offEnd
BY DEF TypeOK, Goto, Threads

LEMMA Things2 == "section" \in Things /\ "pin" \in Things
BY DEF Things

\* Writing a thing leaves the rest of the mixer.
LEMMA Written ==
  ASSUME TypeOK, NEW thing \in Things, NEW on \in BOOLEAN, Writes(thing, on)
  PROVE  /\ mixer' \in [section : BOOLEAN, pin : BOOLEAN, level : Values]
         /\ mixer'[thing] = on /\ mixer'.level = mixer.level
         /\ \A other \in Things : other # thing => mixer'[other] = mixer[other]
<1>1. CASE thing = "section"
  BY <1>1 DEF TypeOK, Writes, Things
<1>2. CASE thing = "pin"
  BY <1>2 DEF TypeOK, Writes, Things
<1> QED
  BY <1>1, <1>2 DEF Things

LEMMA MixerTyped ==
  ASSUME TypeOK
  PROVE  /\ \A thing \in Things : mixer[thing] \in BOOLEAN
         /\ mixer.level \in Values
         /\ Watched \subseteq Things
         /\ \A thing : (thing \in Watched) \in BOOLEAN
BY DEF TypeOK, Things, Watched

\* What has happened before does not concern types.
LEMMA PastTyped ==
  ASSUME TypeOK, NEW things \in SUBSET Things, Touched(things)
  PROVE  past' \in [own : SUBSET Things, asked : Values \cup {None}]
BY DEF TypeOK, Touched

LEMMA CountTyped ==
  ASSUME TypeOK, NEW what \in {"moves", "others"}, NEW limit, Counted(what, limit)
  PROVE  count' \in [moves : Nat, others : Nat]
BY DEF TypeOK, Counted

LEMMA TypeStep ==
  ASSUME TypeOK, [Next]_vars
  PROVE  TypeOK'
<1> USE SectionAssumption
<1>1. ASSUME NEW thing \in Things, Turns(thing) PROVE TypeOK'
  <2>1. (~mixer[thing]) \in BOOLEAN
    BY MixerTyped
  <2>2. mixer' \in [section : BOOLEAN, pin : BOOLEAN, level : Values]
    BY <1>1, <2>1, Written DEF Turns
  <2>3. reports' \in Seq(Things \X BOOLEAN)
    <3>1. <<thing, ~mixer[thing]>> \in Things \X BOOLEAN
      BY <2>1
    <3>2. reports' = Append(reports, <<thing, ~mixer[thing]>>)
      BY <1>1 DEF Turns
    <3> QED
      BY <3>1, <3>2, AppendProperties DEF TypeOK
  <2>4. past' \in [own : SUBSET Things, asked : Values \cup {None}]
    BY <1>1, PastTyped DEF Turns
  <2>5. count' \in [moves : Nat, others : Nat]
    BY <1>1, CountTyped DEF Turns
  <2> QED
    BY <1>1, <2>2, <2>3, <2>4, <2>5 DEF Turns, TypeOK
<1>2. ASSUME NEW section \in BOOLEAN, NEW pin \in BOOLEAN, NEW v \in Values,
             Lands(section, pin, v)
      PROVE  TypeOK'
  <2>1. reports' \in Seq(Things \X BOOLEAN)
    <3>1. reports \in Seq(Report)
      BY DEF TypeOK, Report
    <3>2. reports \o Reported("section", section, section # mixer.section) \in Seq(Report)
      BY <3>1, Reporting, Things2
    <3> QED
      BY <1>2, <3>2, Reporting, Things2 DEF Lands, Report
  <2>2. past' \in [own : SUBSET Things, asked : Values \cup {None}]
    BY <1>2, PastTyped DEF Lands
  <2> QED
    BY <1>2, <2>1, <2>2 DEF Lands, TypeOK
<1>3. CASE Ingest
  <2>1. Head(reports) \in Things \X BOOLEAN /\ reports' \in Seq(Things \X BOOLEAN)
    BY <1>3, HeadTailProperties DEF Ingest, TypeOK
  <2> QED
    BY <1>3, <2>1 DEF Ingest, TypeOK
<1>4. CASE Readback
  <2>1. reports' \in Seq(Things \X BOOLEAN)
    <3>1. <<>> \in Seq(Report)
      BY EmptySeq
    <3>2. <<>> \o Reported("section", mixer.section, "section" \in Watched) \in Seq(Report)
      BY <3>1, Reporting, Things2, MixerTyped
    <3>3. <<>> \o Reported("section", mixer.section, "section" \in Watched)
            = Reported("section", mixer.section, "section" \in Watched)
      BY DEF Reported
    <3> QED
      BY <1>4, <3>2, <3>3, Reporting, Things2, MixerTyped DEF Readback, Report
  <2>2. bridge' \in [value : Values \cup {None}, memo : BOOLEAN \cup {None},
                     readback : BOOLEAN, limit : [Things -> BOOLEAN]]
    BY <1>4 DEF Readback, TypeOK
  <2> QED
    BY <1>4, <2>1, <2>2 DEF Readback, TypeOK
<1>5. ASSUME NEW thing \in Things, LimitEnds(thing) PROVE TypeOK'
  <2>1. bridge' \in [value : Values \cup {None}, memo : BOOLEAN \cup {None},
                     readback : BOOLEAN, limit : [Things -> BOOLEAN]]
    BY <1>5 DEF LimitEnds, TypeOK
  <2> QED
    BY <1>5, <2>1 DEF LimitEnds, TypeOK
<1>6. ASSUME NEW on \in BOOLEAN, KnobEnable(on) PROVE TypeOK'
  <2>1. mixer' \in [section : BOOLEAN, pin : BOOLEAN, level : Values]
    BY <1>6, Written, Things2 DEF KnobEnable
  <2>2. past' \in [own : SUBSET Things, asked : Values \cup {None}]
    BY <1>6, PastTyped, Things2 DEF KnobEnable
  <2>3. bridge' \in [value : Values \cup {None}, memo : BOOLEAN \cup {None},
                     readback : BOOLEAN, limit : [Things -> BOOLEAN]]
    BY <1>6, Things2 DEF KnobEnable, TypeOK
  <2>4. count' \in [moves : Nat, others : Nat]
    BY <1>6, CountTyped DEF KnobEnable
  <2> QED
    BY <1>6, <2>1, <2>2, <2>3, <2>4 DEF KnobEnable, TypeOK
<1>7. ASSUME NEW on \in BOOLEAN, KnobParamSet(on) PROVE TypeOK'
  <2>1. mixer' \in [section : BOOLEAN, pin : BOOLEAN, level : Values]
    BY <1>7, Written, Things2 DEF KnobParamSet
  <2>2. past' \in [own : SUBSET Things, asked : Values \cup {None}]
    BY <1>7, PastTyped, Things2 DEF KnobParamSet
  <2>3. bridge' \in [value : Values \cup {None}, memo : BOOLEAN \cup {None},
                     readback : BOOLEAN, limit : [Things -> BOOLEAN]]
    BY <1>7 DEF KnobParamSet, TypeOK
  <2>4. count' \in [moves : Nat, others : Nat]
    BY <1>7, CountTyped DEF KnobParamSet
  <2> QED
    BY <1>7, <2>1, <2>2, <2>3, <2>4 DEF KnobParamSet, TypeOK
<1>8. ASSUME NEW t \in Threads, NEW v \in Values, KnobSet(t, v) PROVE TypeOK'
  <2> DEFINE l == IF knob.offEnd /\ bridge'.memo # Parked(v) THEN "crosses"
                  ELSE IF Parked(v) THEN "pins" ELSE "autoEnable"
  <2>1. Goto(t, l) /\ l \in Locations /\ l \notin {"waits", "held", "idle", "remembers"}
        /\ (l = "crosses" => knob.offEnd)
    BY <1>8 DEF KnobSet, Enters, Locations
  <2> HIDE DEF l
  <2>2. arg' \in [Threads -> Values \cup {None}] /\ arg'[t] = v
        /\ \A u \in Threads : u # t => arg'[u] = arg[u]
    BY <1>8 DEF KnobSet, Enters, TypeOK
  <2>3. mishaps' \subseteq Mishaps
    BY <1>8 DEF KnobSet, Enters, Suffers, TypeOK
  <2>4. past' \in [own : SUBSET Things, asked : Values \cup {None}]
    BY <1>8 DEF KnobSet, TypeOK
  <2>5. count' \in [moves : Nat, others : Nat]
    BY <1>8, CountTyped DEF KnobSet
  <2>6. knob' = knob
    BY <1>8 DEF KnobSet
  <2>7. /\ pc' \in [Threads -> Locations]
        /\ \A u \in Hands : pc'[u] \notin {"waits", "held"}
        /\ \A u \in Threads : pc'[u] \notin {"idle", "waits"} => arg'[u] # None
        /\ \A u \in Threads : pc'[u] \in {"crosses", "remembers"} => knob'.offEnd
    BY <2>1, <2>2, <2>6, GoesTyped
  <2> QED
    BY <1>8, <2>2, <2>3, <2>4, <2>5, <2>7 DEF KnobSet, TypeOK
<1>9. ASSUME NEW t \in Threads, Crosses(t) PROVE TypeOK'
  <2>1. Parked(arg[t]) \in BOOLEAN /\ arg[t] # None /\ knob.offEnd
    BY <1>9 DEF Crosses, TypeOK, Parked
  <2>2. mixer' \in [section : BOOLEAN, pin : BOOLEAN, level : Values]
    BY <1>9, Written, Things2 DEF Crosses
  <2>3. /\ bridge' \in [value : Values \cup {None}, memo : BOOLEAN \cup {None},
                        readback : BOOLEAN, limit : [Things -> BOOLEAN]]
        /\ past' \in [own : SUBSET Things, asked : Values \cup {None}]
    BY <1>9, Things2 DEF Crosses, TypeOK
  <2>4. /\ pc' \in [Threads -> Locations]
        /\ \A u \in Hands : pc'[u] \notin {"waits", "held"}
        /\ \A u \in Threads : pc'[u] \notin {"idle", "waits"} => arg'[u] # None
        /\ \A u \in Threads : pc'[u] \in {"crosses", "remembers"} => knob'.offEnd
    BY <1>9, <2>1, GoesTyped DEF Crosses, TypeOK, Locations
  <2> QED
    BY <1>9, <2>2, <2>3, <2>4 DEF Crosses, TypeOK
<1>10. ASSUME NEW t \in Threads, Remembers(t) PROVE TypeOK'
  <2> DEFINE l == IF Parked(arg[t]) THEN "pins" ELSE "autoEnable"
  <2>1. Parked(arg[t]) \in BOOLEAN /\ arg[t] # None
    BY <1>10 DEF Remembers, TypeOK, Parked
  <2>2. bridge' \in [value : Values \cup {None}, memo : BOOLEAN \cup {None},
                     readback : BOOLEAN, limit : [Things -> BOOLEAN]]
    BY <1>10, <2>1 DEF Remembers, TypeOK
  <2>3. Goto(t, l) /\ l \in {"pins", "autoEnable"}
    BY <1>10 DEF Remembers
  <2> HIDE DEF l
  <2>4. /\ pc' \in [Threads -> Locations]
        /\ \A u \in Hands : pc'[u] \notin {"waits", "held"}
        /\ \A u \in Threads : pc'[u] \notin {"idle", "waits"} => arg'[u] # None
        /\ \A u \in Threads : pc'[u] \in {"crosses", "remembers"} => knob'.offEnd
    BY <1>10, <2>1, <2>3, GoesTyped DEF Remembers, TypeOK, Locations
  <2> QED
    BY <1>10, <2>2, <2>4 DEF Remembers, TypeOK
<1>11. ASSUME NEW t \in Threads, AutoEnable(t) PROVE TypeOK'
  <2> DEFINE l == IF NeedsEnable THEN "enables" ELSE "pins"
  <2>1. Goto(t, l) /\ l \in {"pins", "enables"} /\ arg[t] # None
    BY <1>11 DEF AutoEnable, TypeOK
  <2> HIDE DEF l
  <2>2. /\ pc' \in [Threads -> Locations]
        /\ \A u \in Hands : pc'[u] \notin {"waits", "held"}
        /\ \A u \in Threads : pc'[u] \notin {"idle", "waits"} => arg'[u] # None
        /\ \A u \in Threads : pc'[u] \in {"crosses", "remembers"} => knob'.offEnd
    BY <1>11, <2>1, GoesTyped DEF AutoEnable, TypeOK, Locations
  <2> QED
    BY <1>11, <2>2 DEF AutoEnable, TypeOK
<1>12. ASSUME NEW t \in Threads, Enables(t) PROVE TypeOK'
  <2>1. mixer' \in [section : BOOLEAN, pin : BOOLEAN, level : Values]
    BY <1>12, Written, Things2 DEF Enables
  <2>2. bridge' \in [value : Values \cup {None}, memo : BOOLEAN \cup {None},
                     readback : BOOLEAN, limit : [Things -> BOOLEAN]]
    BY <1>12, Things2 DEF Enables, TypeOK
  <2>3. arg[t] # None
    BY <1>12 DEF Enables, TypeOK
  <2>4. /\ pc' \in [Threads -> Locations]
        /\ \A u \in Hands : pc'[u] \notin {"waits", "held"}
        /\ \A u \in Threads : pc'[u] \notin {"idle", "waits"} => arg'[u] # None
        /\ \A u \in Threads : pc'[u] \in {"crosses", "remembers"} => knob'.offEnd
    BY <1>12, <2>3, GoesTyped DEF Enables, TypeOK, Locations
  <2> QED
    BY <1>12, <2>1, <2>2, <2>4 DEF Enables, TypeOK
<1>13. ASSUME NEW t \in Threads, AssertPins(t) PROVE TypeOK'
  <2>1. /\ mixer' \in [section : BOOLEAN, pin : BOOLEAN, level : Values]
        /\ bridge' \in [value : Values \cup {None}, memo : BOOLEAN \cup {None},
                        readback : BOOLEAN, limit : [Things -> BOOLEAN]]
    <3>1. CASE NeedsPin
      <4>1. Writes("pin", TRUE) /\ bridge' = [bridge EXCEPT !.limit["pin"] = TRUE]
        BY <1>13, <3>1 DEF AssertPins
      <4> QED
        BY <4>1, Written, Things2 DEF TypeOK
    <3>2. CASE ~NeedsPin
      BY <1>13, <3>2 DEF AssertPins, TypeOK
    <3> QED
      BY <3>1, <3>2
  <2>2. arg[t] # None
    BY <1>13 DEF AssertPins, TypeOK
  <2>3. /\ pc' \in [Threads -> Locations]
        /\ \A u \in Hands : pc'[u] \notin {"waits", "held"}
        /\ \A u \in Threads : pc'[u] \notin {"idle", "waits"} => arg'[u] # None
        /\ \A u \in Threads : pc'[u] \in {"crosses", "remembers"} => knob'.offEnd
    BY <1>13, <2>2, GoesTyped DEF AssertPins, TypeOK, Locations
  <2> QED
    BY <1>13, <2>1, <2>3 DEF AssertPins, TypeOK
<1>14. ASSUME NEW t \in Threads, WritesValue(t) PROVE TypeOK'
  <2>1. arg[t] \in Values
    BY <1>14 DEF WritesValue, TypeOK
  <2>2. /\ mixer' \in [section : BOOLEAN, pin : BOOLEAN, level : Values]
        /\ bridge' \in [value : Values \cup {None}, memo : BOOLEAN \cup {None},
                        readback : BOOLEAN, limit : [Things -> BOOLEAN]]
        /\ past' \in [own : SUBSET Things, asked : Values \cup {None}]
        /\ mishaps' \subseteq Mishaps
    BY <1>14, <2>1 DEF WritesValue, TypeOK, Suffers
  <2>3. /\ pc' \in [Threads -> Locations]
        /\ \A u \in Hands : pc'[u] \notin {"waits", "held"}
        /\ \A u \in Threads : pc'[u] \notin {"idle", "waits"} => arg'[u] # None
        /\ \A u \in Threads : pc'[u] \in {"crosses", "remembers"} => knob'.offEnd
    BY <1>14, GoesTyped DEF WritesValue, TypeOK, Locations
  <2> QED
    BY <1>14, <2>2, <2>3 DEF WritesValue, TypeOK
<1>15. CASE Recalls
  <2>1. count' \in [moves : Nat, others : Nat]
    BY <1>15, CountTyped DEF Recalls
  <2> QED
    BY <1>15, <2>1 DEF Recalls, TypeOK, Goto, Locations, Threads
<1>16. CASE Looks
  BY <1>16 DEF Looks, TypeOK, Goto, Locations, Threads, Suffers
<1>17. CASE Reapplies
  <2> DEFINE t == Switcher
             v == arg[Switcher]
             l == IF knob.offEnd /\ bridge'.memo # Parked(v) THEN "crosses"
                  ELSE IF Parked(v) THEN "pins" ELSE "autoEnable"
  <2>1. Goto(t, l) /\ l \in Locations /\ l \notin {"waits", "held", "idle", "remembers"}
        /\ (l = "crosses" => knob.offEnd)
    BY <1>17 DEF Reapplies, Enters, Locations
  <2> HIDE DEF l
  <2>2. t \in Threads /\ v \in Values
    BY <1>17 DEF Reapplies, TypeOK, Threads
  <2>3. arg' \in [Threads -> Values \cup {None}] /\ arg'[t] = v
        /\ \A u \in Threads : u # t => arg'[u] = arg[u]
    BY <1>17, <2>2 DEF Reapplies, Enters, TypeOK
  <2>4. /\ mishaps' \subseteq Mishaps
        /\ bridge' \in [value : Values \cup {None}, memo : BOOLEAN \cup {None},
                        readback : BOOLEAN, limit : [Things -> BOOLEAN]]
    BY <1>17 DEF Reapplies, Enters, Suffers, TypeOK, Forgets
  <2>5. past' \in [own : SUBSET Things, asked : Values \cup {None}]
    BY <1>17, Things2 DEF Reapplies, TypeOK, Holding
  <2>6. knob' = knob
    BY <1>17 DEF Reapplies
  <2>7. /\ pc' \in [Threads -> Locations]
        /\ \A u \in Hands : pc'[u] \notin {"waits", "held"}
        /\ \A u \in Threads : pc'[u] \notin {"idle", "waits"} => arg'[u] # None
        /\ \A u \in Threads : pc'[u] \in {"crosses", "remembers"} => knob'.offEnd
    BY <2>1, <2>2, <2>3, <2>6, GoesTyped
  <2> QED
    BY <1>17, <2>3, <2>4, <2>5, <2>7 DEF Reapplies, TypeOK
<1>18. CASE UNCHANGED vars
  BY <1>18 DEF vars, TypeOK
<1> QED
  BY <1>1, <1>2, <1>3, <1>4, <1>5, <1>6, <1>7, <1>8, <1>9, <1>10, <1>11, <1>12,
     <1>13, <1>14, <1>15, <1>16, <1>17, <1>18 DEF Next, Others, Set

\* The types of the mixer, of what is known of it and of the threads, for
\* any knob: a thread in knob_set has a value to write, and only an end of
\* the travel is crossed.
THEOREM Typing == Spec => []TypeOK
<1> QED
  BY TypeInit, TypeStep, PTL DEF Spec

-----------------------------------------------------------------------------
(* One thread at a time, and the memo of the last crossing.                *)

Alone == Calm({"overlap"}) => \A t, u \in Calling : t = u

\* Past _off_at_min, the memo says where the value is; between the moves it
\* says where the knob is, or nothing.
MemoInv ==
  /\ \A t \in Threads : pc[t] \in {"autoEnable", "enables"} => ~Parked(arg[t])
  /\ (Calm({"overlap"}) /\ knob.offEnd) =>
       /\ Calling = {} =>
            \/ bridge.memo = None
            \/ bridge.value # None /\ bridge.memo = Parked(bridge.value)
       /\ \A t \in Calling :
            pc[t] \notin {"crosses", "remembers"} => bridge.memo = Parked(arg[t])

LEMMA Marked ==
  ASSUME NEW m, Suffers(m)
  PROVE  /\ \A n : (Calm(n))' => Calm(n) /\ m \cap n = {}
         /\ m = {} => \A n : (Calm(n))' <=> Calm(n)
BY DEF Suffers, Calm

LEMMA AloneInit == Init => Alone /\ MemoInv
BY DEF Init, Alone, MemoInv, Calling

\* Who enters knob_set calmly finds nobody there.
LEMMA EntersAlone ==
  ASSUME TypeOK, NEW t \in Threads, NEW v, Enters(t, v), (Calm({"overlap"}))'
  PROVE  Calm({"overlap"}) /\ Calling = {} /\ Calling' = {t}
<1>1. Calm({"overlap"}) /\ Calling = {}
  BY Marked DEF Enters, Holding
<1>2. pc'[t] \in {"crosses", "pins", "autoEnable"} /\ \A u \in Threads : u # t => pc'[u] = pc[u]
  BY DEF Enters, Goto, TypeOK
<1> QED
  BY <1>1, <1>2 DEF Calling

\* A step inside knob_set.
Inside(t, l) ==
  /\ pc[t] \in {"crosses", "remembers", "autoEnable", "enables", "pins"}
  /\ l \in {"remembers", "autoEnable", "enables", "pins", "value"}
  /\ Goto(t, l)
  /\ UNCHANGED <<knob, arg, mishaps, bridge.value>>

LEMMA InsideKeeps ==
  ASSUME TypeOK, NEW t \in Threads, NEW l, Inside(t, l)
  PROVE  /\ Calling' = Calling /\ t \in Calling
         /\ pc'[t] = l /\ \A u \in Threads : u # t => pc'[u] = pc[u]
         /\ \A n : (Calm(n))' <=> Calm(n)
         /\ \A v : (Parked(v))' <=> Parked(v)
BY DEF Inside, Goto, TypeOK, Calling, Calm, Parked

\* What others do is outside knob_set.
Outside ==
  /\ \A t \in Threads : /\ t \in Calling' <=> t \in Calling
                        /\ t \in Calling => pc'[t] = pc[t] /\ arg'[t] = arg[t]
  /\ UNCHANGED <<knob, bridge.memo, bridge.value>>
  /\ \A n : (Calm(n))' => Calm(n)

LEMMA OthersOutside ==
  ASSUME TypeOK, Others \/ Recalls \/ Looks \/ UNCHANGED vars
  PROVE  Outside
<1>1. CASE Others
  <2>1. UNCHANGED <<knob, pc, arg, mishaps, bridge.memo, bridge.value>>
    <3>1. ASSUME NEW thing \in Things, Turns(thing) \/ LimitEnds(thing)
          PROVE  UNCHANGED <<knob, pc, arg, mishaps, bridge.memo, bridge.value>>
      BY <3>1 DEF Turns, LimitEnds, TypeOK
    <3>2. ASSUME NEW section \in BOOLEAN, NEW pin \in BOOLEAN, NEW v \in Values,
                 Lands(section, pin, v)
          PROVE  UNCHANGED <<knob, pc, arg, mishaps, bridge.memo, bridge.value>>
      BY <3>2 DEF Lands
    <3>3. ASSUME Ingest \/ Readback
          PROVE  UNCHANGED <<knob, pc, arg, mishaps, bridge.memo, bridge.value>>
      BY <3>3 DEF Ingest, Readback, TypeOK
    <3>4. ASSUME NEW on \in BOOLEAN, KnobEnable(on) \/ KnobParamSet(on)
          PROVE  UNCHANGED <<knob, pc, arg, mishaps, bridge.memo, bridge.value>>
      BY <3>4 DEF KnobEnable, KnobParamSet, TypeOK
    <3> QED
      BY <1>1, <3>1, <3>2, <3>3, <3>4 DEF Others
  <2> QED
    BY <2>1 DEF Outside, Calling, Calm
<1>2. CASE Recalls
  <2>1. Switcher \in Threads /\ pc' = [pc EXCEPT ![Switcher] = "waits"] /\ pc[Switcher] = "idle"
    BY <1>2 DEF Recalls, Goto, Threads
  <2> QED
    BY <1>2, <2>1 DEF Recalls, Outside, Calling, Calm, TypeOK
<1>3. CASE Looks
  <2>1. /\ Switcher \in Threads /\ pc[Switcher] = "waits"
        /\ pc'[Switcher] \in {"idle", "held"}
        /\ \A t \in Threads : t # Switcher => pc'[t] = pc[t] /\ arg'[t] = arg[t]
    BY <1>3 DEF Looks, Goto, Threads, TypeOK
  <2>2. \A n : (Calm(n))' => Calm(n)
    BY <1>3, Marked DEF Looks
  <2> QED
    BY <1>3, <2>1, <2>2 DEF Looks, Outside, Calling
<1>4. CASE UNCHANGED vars
  BY <1>4 DEF vars, Outside, Calling, Calm
<1> QED
  BY <1>1, <1>2, <1>3, <1>4

\* The end of a call.
LEMMA CallEnds ==
  ASSUME TypeOK, NEW t \in Threads, WritesValue(t)
  PROVE  /\ t \in Calling /\ Calling' = Calling \ {t}
         /\ \A u \in Threads : u # t => pc'[u] = pc[u] /\ arg'[u] = arg[u]
         /\ \A n : (Calm(n))' => Calm(n)
         /\ \A v : (Parked(v))' <=> Parked(v)
<1>1. \A n : (Calm(n))' => Calm(n)
  BY Marked DEF WritesValue
<1> QED
  BY <1>1 DEF WritesValue, Goto, TypeOK, Calling, Parked

LEMMA InsideSteps ==
  ASSUME TypeOK, NEW t \in Threads
  PROVE  /\ Crosses(t) => Inside(t, "remembers")
         /\ Remembers(t) => Inside(t, IF Parked(arg[t]) THEN "pins" ELSE "autoEnable")
         /\ AutoEnable(t) => Inside(t, IF NeedsEnable THEN "enables" ELSE "pins")
         /\ Enables(t) => Inside(t, "pins")
         /\ AssertPins(t) => Inside(t, "value")
<1>1. Crosses(t) => Inside(t, "remembers")
  BY DEF Crosses, Inside, TypeOK
<1>2. Remembers(t) => Inside(t, IF Parked(arg[t]) THEN "pins" ELSE "autoEnable")
  BY DEF Remembers, Inside, TypeOK
<1>3. AutoEnable(t) => Inside(t, IF NeedsEnable THEN "enables" ELSE "pins")
  BY DEF AutoEnable, Inside, TypeOK
<1>4. Enables(t) => Inside(t, "pins")
  BY DEF Enables, Inside, TypeOK
<1>5. AssertPins(t) => Inside(t, "value")
  BY DEF AssertPins, Inside, TypeOK
<1> QED
  BY <1>1, <1>2, <1>3, <1>4, <1>5

LEMMA AloneStep ==
  ASSUME TypeOK, Alone, [Next]_vars
  PROVE  Alone'
<1>1. CASE Others \/ Recalls \/ Looks \/ UNCHANGED vars
  BY <1>1, OthersOutside DEF Alone, Outside, Calling
<1>2. ASSUME NEW t \in Threads, Set(t) PROVE Alone'
  <2>1. ASSUME NEW v \in Values, KnobSet(t, v) PROVE Alone'
    BY <2>1, EntersAlone DEF KnobSet, Alone
  <2>2. CASE \E l : Inside(t, l)
    BY <2>2, InsideKeeps DEF Alone
  <2>3. CASE WritesValue(t)
    BY <2>3, CallEnds DEF Alone
  <2> QED
    BY <1>2, <2>1, <2>2, <2>3, InsideSteps DEF Set
<1>3. CASE Reapplies
  BY <1>3, EntersAlone DEF Reapplies, Alone, Threads
<1> QED
  BY <1>1, <1>2, <1>3 DEF Next

\* Where a thread that enters knob_set goes.
LEMMA EntersWhere ==
  ASSUME TypeOK, NEW t \in Threads, NEW v \in Values, Enters(t, v), knob' = knob
  PROVE  /\ arg'[t] = v
         /\ \A u \in Threads : u # t => pc'[u] = pc[u] /\ arg'[u] = arg[u]
         /\ \/ knob.offEnd /\ bridge'.memo # Parked(v) /\ pc'[t] = "crosses"
            \/ (knob.offEnd => bridge'.memo = TRUE) /\ Parked(v) /\ pc'[t] = "pins"
            \/ (knob.offEnd => bridge'.memo = FALSE) /\ ~Parked(v) /\ pc'[t] = "autoEnable"
<1>1. Parked(v) \in BOOLEAN
  BY DEF Parked, TypeOK
<1> QED
  BY <1>1 DEF Enters, Goto, TypeOK

LEMMA MemoStep ==
  ASSUME TypeOK, Alone, MemoInv, [Next]_vars
  PROVE  MemoInv'
<1>1. CASE Others \/ Recalls \/ Looks \/ UNCHANGED vars
  <2>1. Outside
    BY <1>1, OthersOutside
  <2>2. \A t \in Threads : pc'[t] \in {"autoEnable", "enables"} => ~(Parked(arg[t]))'
    BY <2>1 DEF Outside, MemoInv, Calling, Parked
  <2> QED
    BY <2>1, <2>2 DEF Outside, MemoInv, Calling, Parked
<1>2. ASSUME NEW t \in Threads, NEW v \in Values, Enters(t, v), knob' = knob
      PROVE  MemoInv'
  <2>1. (Calm({"overlap"}))' => Calling' = {t}
    BY <1>2, EntersAlone
  <2>2. \A u : (Parked(u))' <=> Parked(u)
    BY <1>2 DEF Parked
  <2>3. /\ arg'[t] = v
        /\ \A u \in Threads : u # t => pc'[u] = pc[u] /\ arg'[u] = arg[u]
        /\ \/ pc'[t] = "crosses"
           \/ (knob.offEnd => bridge'.memo = TRUE) /\ Parked(v) /\ pc'[t] = "pins"
           \/ (knob.offEnd => bridge'.memo = FALSE) /\ ~Parked(v) /\ pc'[t] = "autoEnable"
    BY <1>2, EntersWhere
  <2>4. Parked(v) \in BOOLEAN
    BY DEF Parked, TypeOK
  <2>5. \A u \in Threads : pc'[u] \in {"autoEnable", "enables"} => ~(Parked(arg[u]))'
    BY <2>2, <2>3 DEF MemoInv
  <2>6. \A u \in Threads : (Parked(arg[u]))' = Parked(arg'[u])
    BY <1>2 DEF Parked
  <2>7. (Calm({"overlap"}) /\ knob.offEnd)' => Calling' # {} /\
          \A u \in Calling' : pc'[u] \notin {"crosses", "remembers"} => bridge'.memo = (Parked(arg[u]))'
    <3> SUFFICES ASSUME (Calm({"overlap"}))', knob.offEnd'
                 PROVE  /\ Calling' # {}
                        /\ pc'[t] \notin {"crosses", "remembers"} =>
                             bridge'.memo = (Parked(arg[t]))'
      BY <2>1
    <3> QED
      BY <1>2, <2>1, <2>3, <2>4, <2>6
  <2> QED
    BY <2>5, <2>7 DEF MemoInv
<1>3. ASSUME NEW t \in Threads, NEW l, Inside(t, l), bridge'.memo = bridge.memo,
             pc[t] \in {"crosses", "remembers"} => l = "remembers",
             l = "autoEnable" => FALSE,
             l = "enables" => pc[t] = "autoEnable"
      PROVE  MemoInv'
  <2>1. \A u \in Threads : (Parked(arg[u]))' <=> Parked(arg[u])
    BY <1>3 DEF Inside, Parked
  <2>2. \A u \in Threads : pc'[u] \in {"autoEnable", "enables"} => ~(Parked(arg[u]))'
    BY <1>3, <2>1, InsideKeeps DEF MemoInv
  <2> QED
    BY <1>3, <2>1, <2>2, InsideKeeps DEF MemoInv, Inside, Calling, Parked
<1>4. ASSUME NEW t \in Threads, Set(t) PROVE MemoInv'
  <2>1. ASSUME NEW v \in Values, KnobSet(t, v) PROVE MemoInv'
    BY <1>2, <2>1 DEF KnobSet
  <2>2. CASE Crosses(t) \/ AutoEnable(t) \/ Enables(t) \/ AssertPins(t)
    <3>1. bridge'.memo = bridge.memo
      BY <2>2 DEF Crosses, AutoEnable, Enables, AssertPins, TypeOK
    <3>2. \E l : /\ Inside(t, l) /\ l # "autoEnable"
                 /\ pc[t] \in {"crosses", "remembers"} => l = "remembers"
                 /\ l = "enables" => pc[t] = "autoEnable"
      <4>1. CASE Crosses(t)
        BY <4>1, InsideSteps DEF Crosses
      <4>2. CASE AutoEnable(t)
        <5> DEFINE l == IF NeedsEnable THEN "enables" ELSE "pins"
        <5>1. Inside(t, l) /\ l \in {"enables", "pins"} /\ pc[t] = "autoEnable"
          BY <4>2, InsideSteps DEF AutoEnable
        <5> HIDE DEF l
        <5> QED
          BY <5>1
      <4>3. CASE Enables(t)
        <5>1. Inside(t, "pins") /\ pc[t] = "enables"
          BY <4>3, InsideSteps DEF Enables
        <5> QED
          BY <5>1
      <4>4. CASE AssertPins(t)
        <5>1. Inside(t, "value") /\ pc[t] = "pins"
          BY <4>4, InsideSteps DEF AssertPins
        <5> QED
          BY <5>1
      <4> QED
        BY <2>2, <4>1, <4>2, <4>3, <4>4
    <3> QED
      BY <1>3, <3>1, <3>2
  <2>3. CASE Remembers(t)
    <3>1. /\ Calling' = Calling /\ t \in Calling
          /\ pc'[t] \in {"pins", "autoEnable"} /\ (pc'[t] = "autoEnable" => ~Parked(arg[t]))
          /\ \A u \in Threads : u # t => pc'[u] = pc[u]
          /\ (Calm({"overlap"}))' <=> Calm({"overlap"})
      BY <2>3, InsideSteps, InsideKeeps
    <3>2. /\ arg' = arg /\ knob' = knob /\ bridge'.memo = Parked(arg[t])
          /\ \A u \in Threads : (Parked(arg[u]))' <=> Parked(arg[u])
      BY <2>3 DEF Remembers, TypeOK, Parked
    <3>3. \A u \in Threads : (Parked(arg[u]))' = Parked(arg[u])
      BY <3>2 DEF Parked
    <3>4. Calm({"overlap"}) => \A u \in Calling : u = t
      BY <3>1 DEF Alone
    <3>5. \A u \in Threads : pc'[u] \in {"autoEnable", "enables"} => ~(Parked(arg[u]))'
      BY <3>1, <3>2 DEF MemoInv
    <3> QED
      BY <3>1, <3>2, <3>3, <3>4, <3>5 DEF MemoInv
  <2>4. CASE WritesValue(t)
    <3>1. (Calm({"overlap"}))' => Calling' = {} /\ Calm({"overlap"})
      BY <2>4, CallEnds DEF Alone
    <3>2. /\ bridge'.memo = bridge.memo /\ bridge'.value = arg[t] /\ arg[t] # None
          /\ pc[t] = "value" /\ knob' = knob /\ arg' = arg /\ t \in Calling
      BY <2>4, CallEnds DEF WritesValue, TypeOK
    <3>3. \A u \in Threads : pc'[u] \in {"autoEnable", "enables"} => ~(Parked(arg[u]))'
      <4>1. pc'[t] = "idle" /\ \A u \in Threads : u # t => pc'[u] = pc[u]
        BY <2>4, CallEnds DEF WritesValue, Goto, TypeOK
      <4>2. \A u \in Threads : (Parked(arg[u]))' <=> Parked(arg[u])
        BY <3>2 DEF Parked
      <4> QED
        BY <4>1, <4>2 DEF MemoInv
    <3>4. (Calm({"overlap"}) /\ knob.offEnd)' => bridge'.memo = (Parked(bridge.value))'
      BY <3>1, <3>2 DEF MemoInv, Parked
    <3> QED
      BY <3>1, <3>2, <3>3, <3>4 DEF MemoInv
  <2> QED
    BY <1>4, <2>1, <2>2, <2>3, <2>4 DEF Set
<1>5. CASE Reapplies
  BY <1>2, <1>5 DEF Reapplies, Threads, TypeOK
<1> QED
  BY <1>1, <1>4, <1>5 DEF Next

-----------------------------------------------------------------------------
(* What the bridge has been told, and is about to be told.                 *)

\* A write of the bridge that no readback has been ordered for yet can only
\* have set a companion, or be of a call that has not ended.
Sure(thing) ==
  ~bridge.readback /\ (Calling = {} \/ (thing = "pin" /\ ~mixer["pin"]))

ViewInv ==
  \A thing \in Watched :
    Sure(thing) => Agrees(reports, seen[thing], thing, mixer[thing])

LEMMA ViewInit == Init => ViewInv
<1> SUFFICES ASSUME Init, NEW thing \in Watched
             PROVE  Agrees(reports, seen[thing], thing, mixer[thing])
  BY DEF ViewInv
<1>1. thing \in Things /\ reports = <<>> /\ Len(reports) = 0
  BY EmptySeq DEF Init, Watched
<1>2. seen[thing] \in {None, mixer[thing]}
  BY <1>1 DEF Init
<1> QED
  BY <1>1, <1>2 DEF Agrees

LEMMA TwoReports ==
  ASSUME NEW q \in Seq(Report), NEW a \in BOOLEAN, NEW b \in BOOLEAN,
         NEW c \in BOOLEAN, NEW d \in BOOLEAN, NEW w, NEW thing \in Things,
         NEW m \in BOOLEAN,
         thing = "section" => m = a /\ (c \/ Agrees(q, w, thing, m)),
         thing = "pin" => m = b /\ (d \/ Agrees(q, w, thing, m))
  PROVE  Agrees(q \o Reported("section", a, c) \o Reported("pin", b, d), w, thing, m)
<1> DEFINE q1 == q \o Reported("section", a, c)
<1>1. ASSUME NEW x \in Seq(Report), NEW e \in Report
      PROVE  x \o <<e>> = Append(x, e) /\ x \o <<e>> \in Seq(Report) /\ x \o <<>> = x
  BY AppendIsConcat, AppendProperties, ConcatEmptySeq
<1>2. <<"section", a>> \in Report /\ <<"pin", b>> \in Report
  BY Things2 DEF Report
<1>3. /\ q1 \in Seq(Report)
      /\ q1 = IF c THEN Append(q, <<"section", a>>) ELSE q
  BY <1>1, <1>2 DEF Reported
<1>4. q1 \o Reported("pin", b, d) = IF d THEN Append(q1, <<"pin", b>>) ELSE q1
  <2>1. ASSUME NEW x \in Seq(Report)
        PROVE  /\ x \o Reported("pin", b, d) \in Seq(Report)
               /\ x \o Reported("pin", b, d) = IF d THEN Append(x, <<"pin", b>>) ELSE x
    BY <1>1, <1>2 DEF Reported
  <2>2. q1 \in Seq(Report)
    BY <1>3
  <2> HIDE DEF q1
  <2> QED
    BY <2>1, <2>2
<1> HIDE DEF q1
<1>5. CASE thing = "section"
  <2>1. Agrees(q1, w, thing, m)
    BY <1>3, <1>5, AppendSame
  <2> QED
    BY <1>3, <1>4, <1>2, <1>5, <2>1, AppendOther DEF q1
<1>6. CASE thing = "pin"
  <2>1. d \/ Agrees(q1, w, thing, m)
    BY <1>3, <1>2, <1>6, AppendOther
  <2> QED
    BY <1>3, <1>4, <1>6, <2>1, AppendSame DEF q1
<1> QED
  BY <1>5, <1>6 DEF Things

\* A step that changes neither what is known of a thing nor the thing.
LEMMA ViewSame ==
  ASSUME TypeOK, ViewInv, [Next]_vars, UNCHANGED <<knob, reports, seen>>,
         \A thing \in Watched : (Sure(thing))' => Sure(thing) /\ mixer'[thing] = mixer[thing]
  PROVE  ViewInv'
<1>1. Watched' = Watched
  BY DEF Watched
<1> QED
  BY <1>1 DEF ViewInv, Sure

LEMMA ViewStep ==
  ASSUME TypeOK, ViewInv, [Next]_vars
  PROVE  ViewInv'
<1> USE MixerTyped
<1>0. reports \in Seq(Report)
  BY DEF TypeOK, Report
<1>1. ASSUME NEW x \in Things, Turns(x) PROVE ViewInv'
  <2>1. /\ (~mixer[x]) \in BOOLEAN /\ Watched' = Watched
        /\ bridge' = bridge /\ pc' = pc /\ seen' = seen
        /\ reports' = Append(reports, <<x, ~mixer[x]>>)
    BY <1>1 DEF Turns, Watched
  <2>2. mixer'[x] = ~mixer[x] /\ \A y \in Things : y # x => mixer'[y] = mixer[y]
    BY <1>1, <2>1, Written DEF Turns
  <2>3. <<x, ~mixer[x]>> \in Report
    BY <2>1 DEF Report
  <2> SUFFICES ASSUME NEW thing \in Watched, (Sure(thing))'
               PROVE  Agrees(reports', seen[thing], thing, mixer'[thing])
    BY <2>1 DEF ViewInv
  <2>4. CASE thing = x
    BY <1>0, <2>1, <2>2, <2>4, AppendSame
  <2>5. CASE thing # x
    <3>1. Sure(thing)
      BY <2>1, <2>2, <2>5 DEF Sure, Calling, Threads, Things
    <3> QED
      BY <1>0, <2>1, <2>2, <2>3, <2>5, <3>1, AppendOther DEF ViewInv
  <2> QED
    BY <2>4, <2>5
<1>2. ASSUME NEW section \in BOOLEAN, NEW pin \in BOOLEAN, NEW v \in Values,
             Lands(section, pin, v)
      PROVE  ViewInv'
  <2>1. /\ Watched' = Watched /\ bridge' = bridge /\ pc' = pc /\ seen' = seen
        /\ mixer'["section"] = section /\ mixer'["pin"] = pin
    BY <1>2 DEF Lands, Watched
  <2> SUFFICES ASSUME NEW thing \in Watched, (Sure(thing))'
               PROVE  Agrees(reports', seen[thing], thing, mixer'[thing])
    BY <2>1 DEF ViewInv
  <2>2. mixer'[thing] = mixer[thing] => Sure(thing)
    BY <2>1 DEF Sure, Calling, Threads, Things
  <2>3. mixer'[thing] = mixer[thing] => Agrees(reports, seen[thing], thing, mixer'[thing])
    BY <2>2 DEF ViewInv
  <2> DEFINE c == section # mixer.section
             d == pin # mixer.pin
             m == mixer'[thing]
  <2>4. /\ thing = "section" => m = section /\ (c \/ Agrees(reports, seen[thing], thing, m))
        /\ thing = "pin" => m = pin /\ (d \/ Agrees(reports, seen[thing], thing, m))
    BY <2>1, <2>3
  <2>5. reports' = reports \o Reported("section", section, c) \o Reported("pin", pin, d)
    BY <1>2 DEF Lands
  <2>6. m \in BOOLEAN /\ thing \in Things /\ c \in BOOLEAN /\ d \in BOOLEAN
    BY <2>1 DEF Things
  <2> HIDE DEF c, d, m
  <2>7. Agrees(reports \o Reported("section", section, c) \o Reported("pin", pin, d),
               seen[thing], thing, m)
    BY <1>0, <2>4, <2>6, TwoReports
  <2> QED
    BY <2>5, <2>7 DEF m
<1>3. CASE Ingest
  <2>1. /\ Watched' = Watched /\ UNCHANGED <<bridge, pc, mixer>>
        /\ reports # <<>> /\ reports' = Tail(reports)
        /\ Head(reports) \in Report
    BY <1>0, <1>3, HeadTailProperties DEF Ingest, Watched
  <2>2. \A thing \in Things : seen'[thing] =
          IF Head(reports)[1] = thing THEN Head(reports)[2] ELSE seen[thing]
    BY <1>3, <2>1 DEF Ingest, TypeOK, Report
  <2>3. \A thing : (Sure(thing))' <=> Sure(thing)
    BY <2>1 DEF Sure, Calling, Threads
  <2> QED
    BY <1>0, <2>1, <2>2, <2>3, Ingested DEF ViewInv
<1>4. CASE Readback
  <2>1. Watched' = Watched /\ UNCHANGED <<mixer, seen>>
    BY <1>4 DEF Readback, Watched
  <2>2. reports' = <<>> \o Reported("section", mixer.section, "section" \in Watched)
                        \o Reported("pin", mixer.pin, "pin" \in Watched)
    <3>1. <<>> \o Reported("section", mixer.section, "section" \in Watched)
            = Reported("section", mixer.section, "section" \in Watched)
      BY DEF Reported
    <3> QED
      BY <1>4, <3>1 DEF Readback
  <2>3. <<>> \in Seq(Report)
    BY EmptySeq
  <2> SUFFICES ASSUME NEW thing \in Watched
               PROVE  Agrees(reports', seen[thing], thing, mixer[thing])
    BY <2>1 DEF ViewInv
  <2> DEFINE a == mixer["section"]
             b == mixer["pin"]
             c == "section" \in Watched
             d == "pin" \in Watched
             m == mixer[thing]
             none == <<>>
  <2>4. /\ a \in BOOLEAN /\ b \in BOOLEAN /\ c \in BOOLEAN /\ d \in BOOLEAN
        /\ thing \in Things /\ m \in BOOLEAN
        /\ thing = "section" => m = a /\ c
        /\ thing = "pin" => m = b /\ d
    BY Things2
  <2>5. reports' = none \o Reported("section", a, c) \o Reported("pin", b, d)
    BY <2>2
  <2>6. none \in Seq(Report)
    BY <2>3
  <2> HIDE DEF a, b, c, d, m, none
  <2>7. Agrees(none \o Reported("section", a, c) \o Reported("pin", b, d),
               seen[thing], thing, m)
    BY <2>4, <2>6, TwoReports
  <2> QED
    BY <2>5, <2>7 DEF m
<1>5. ASSUME NEW x \in Things, LimitEnds(x) PROVE ViewInv'
  BY <1>5, ViewSame DEF LimitEnds, Sure, Calling, Threads, TypeOK
<1>6. ASSUME NEW on \in BOOLEAN, KnobEnable(on) \/ KnobParamSet(on) PROVE ViewInv'
  BY <1>6 DEF KnobEnable, KnobParamSet, ViewInv, Sure, TypeOK
<1>7. ASSUME NEW t \in Threads, NEW l, Inside(t, l), UNCHANGED <<reports, seen>>,
             bridge'.readback = bridge.readback,
             ~mixer'["pin"] => mixer'["pin"] = mixer["pin"]
      PROVE  ViewInv'
  <2>1. Calling' # {} /\ UNCHANGED knob
    BY <1>7, InsideKeeps DEF Inside
  <2> QED
    BY <1>7, <2>1, ViewSame DEF Sure
<1>8. ASSUME NEW t \in Threads, Set(t) PROVE ViewInv'
  <2>1. ASSUME NEW v \in Values, KnobSet(t, v) PROVE ViewInv'
    <3>1. pc'[t] \notin {"idle", "waits", "held"} /\ UNCHANGED <<knob, bridge, mixer, reports, seen>>
      BY <2>1 DEF KnobSet, Enters, Goto, TypeOK
    <3>2. Calling' # {}
      BY <3>1 DEF Calling, Threads
    <3> QED
      BY <3>1, <3>2, ViewSame DEF Sure
  <2>2. CASE Crosses(t)
    <3>1. Inside(t, "remembers") /\ UNCHANGED <<reports, seen>> /\ bridge'.readback = bridge.readback
      BY <2>2, InsideSteps DEF Crosses, TypeOK
    <3>2. Parked(arg[t]) \in BOOLEAN
      BY DEF Parked, TypeOK
    <3>3. mixer'["pin"] = mixer["pin"]
      BY <2>2, <3>2, Written, Things2 DEF Crosses
    <3> QED
      BY <1>7, <3>1, <3>3
  <2>3. CASE Remembers(t)
    <3>1. Inside(t, IF Parked(arg[t]) THEN "pins" ELSE "autoEnable")
          /\ UNCHANGED <<reports, seen, mixer>> /\ bridge'.readback = bridge.readback
      BY <2>3, InsideSteps DEF Remembers, TypeOK
    <3> QED
      BY <1>7, <3>1
  <2>4. CASE AutoEnable(t)
    <3>1. Inside(t, IF NeedsEnable THEN "enables" ELSE "pins")
          /\ UNCHANGED <<reports, seen, mixer, bridge>>
      BY <2>4, InsideSteps DEF AutoEnable
    <3> QED
      BY <1>7, <3>1
  <2>5. CASE Enables(t)
    <3>1. Inside(t, "pins") /\ UNCHANGED <<reports, seen>> /\ bridge'.readback = bridge.readback
      BY <2>5, InsideSteps DEF Enables, TypeOK
    <3>2. mixer'["pin"] = mixer["pin"]
      BY <2>5, Written, Things2 DEF Enables
    <3> QED
      BY <1>7, <3>1, <3>2
  <2>6. CASE AssertPins(t)
    <3>1. Inside(t, "value") /\ UNCHANGED <<reports, seen>> /\ bridge'.readback = bridge.readback
      BY <2>6, InsideSteps DEF AssertPins, TypeOK
    <3>2. mixer'["pin"] = TRUE \/ mixer' = mixer
      BY <2>6, Written, Things2 DEF AssertPins
    <3> QED
      BY <1>7, <3>1, <3>2
  <2>7. CASE WritesValue(t)
    BY <2>7 DEF WritesValue, ViewInv, Sure, TypeOK
  <2> QED
    BY <1>8, <2>1, <2>2, <2>3, <2>4, <2>5, <2>6, <2>7 DEF Set
<1>9. CASE Recalls \/ Looks \/ UNCHANGED vars
  <2>1. Outside
    BY <1>9, OthersOutside
  <2>2. Calling' = Calling
    BY <2>1 DEF Outside, Calling
  <2>3. UNCHANGED <<knob, bridge, mixer, reports, seen>>
    BY <1>9 DEF Recalls, Looks, vars
  <2> QED
    BY <2>2, <2>3, ViewSame DEF Sure
<1>10. CASE Reapplies
  <2>1. /\ bridge'.readback = bridge.readback /\ UNCHANGED <<knob, mixer, reports, seen>>
        /\ pc'[Switcher] \notin {"idle", "waits", "held"}
    BY <1>10 DEF Reapplies, Enters, Forgets, Goto, TypeOK, Threads
  <2>2. Calling' # {}
    BY <2>1 DEF Calling, Threads
  <2> QED
    BY <2>1, <2>2, ViewSame DEF Sure
<1> QED
  BY <1>1, <1>2, <1>3, <1>4, <1>5, <1>6, <1>8, <1>9, <1>10 DEF Next, Others

\* However stale its view of the mixer gets in between, the bridge is right
\* about switch and companion when nothing is under way or due: every write
\* of its own orders a readback, and everybody else's is reported.
THEOREM BridgeKnows == Spec => []KnowsMixer
<1>1. TypeOK /\ ViewInv => KnowsMixer
  <2> SUFFICES ASSUME TypeOK, ViewInv, reports = <<>>, ~bridge.readback, Calling = {},
                      NEW thing \in Watched
               PROVE  seen[thing] \in {None, mixer[thing]}
    BY DEF KnowsMixer
  <2>1. Agrees(reports, seen[thing], thing, mixer[thing]) /\ Len(reports) = 0
    BY EmptySeq DEF ViewInv, Sure
  <2> QED
    BY <2>1 DEF Agrees
<1>2. Init => TypeOK /\ ViewInv
  BY TypeInit, ViewInit
<1>3. TypeOK /\ ViewInv /\ [Next]_vars => (TypeOK /\ ViewInv)'
  BY TypeStep, ViewStep
<1> QED
  BY <1>1, <1>2, <1>3, PTL DEF Spec

-----------------------------------------------------------------------------
(* The pinned companion.                                                   *)

\* Nothing says that a thing is on, and nothing is about to.
Silent(q, thing) == \A i \in 1..Len(q) : q[i] # <<thing, TRUE>>

NoTrue(thing) == seen[thing] # TRUE /\ Silent(reports, thing)

LEMMA SilentAppend ==
  ASSUME NEW q \in Seq(Report), NEW thing, NEW r \in Report,
         Silent(q, thing), r # <<thing, TRUE>>
  PROVE  Silent(Append(q, r), thing)
<1>1. /\ Len(Append(q, r)) = Len(q) + 1 /\ Len(q) \in Nat
      /\ \A i \in 1..(Len(q) + 1) : Append(q, r)[i] = IF i \in 1..Len(q) THEN q[i] ELSE r
  BY AppendProperties, LenProperties
<1> QED
  BY <1>1 DEF Silent

LEMMA SilentReported ==
  ASSUME NEW q \in Seq(Report), NEW thing \in Things, NEW x \in Things,
         NEW on \in BOOLEAN, NEW c \in BOOLEAN,
         Silent(q, thing), x = thing => ~on
  PROVE  /\ q \o Reported(x, on, c) \in Seq(Report)
         /\ Silent(q \o Reported(x, on, c), thing)
<1>1. /\ q \o Reported(x, on, c) \in Seq(Report)
      /\ q \o Reported(x, on, c) = IF c THEN Append(q, <<x, on>>) ELSE q
  BY Reporting
<1>2. <<x, on>> \in Report /\ <<x, on>> # <<thing, TRUE>>
  BY DEF Report
<1> QED
  BY <1>1, <1>2, SilentAppend

LEMMA SilentTail ==
  ASSUME NEW q \in Seq(Report), q # <<>>, NEW thing, Silent(q, thing)
  PROVE  Head(q) # <<thing, TRUE>> /\ Silent(Tail(q), thing)
<1>1. /\ Len(q) \in Nat \ {0} /\ Len(Tail(q)) = Len(q) - 1 /\ Head(q) = q[1]
      /\ \A i \in 1..(Len(q) - 1) : Tail(q)[i] = q[i + 1]
  BY HeadTailProperties, LenProperties, EmptySeq
<1>2. q[1] # <<thing, TRUE>>
  <2>1. 1 \in 1..Len(q)
    BY <1>1
  <2> QED
    BY <2>1 DEF Silent
<1>3. ASSUME NEW i \in 1..Len(Tail(q)) PROVE Tail(q)[i] # <<thing, TRUE>>
  <2>1. i \in 1..(Len(q) - 1) /\ i + 1 \in 1..Len(q)
    BY <1>1
  <2> QED
    BY <1>1, <2>1 DEF Silent
<1> QED
  BY <1>1, <1>2, <1>3 DEF Silent

\* Only these say anything.
LEMMA WhoTells ==
  ASSUME TypeOK, [Next]_vars
  PROVE  \/ UNCHANGED <<reports, seen>>
         \/ \E x \in Things : Turns(x)
         \/ \E section, pin \in BOOLEAN, v \in Values : Lands(section, pin, v)
         \/ Ingest \/ Readback
BY DEF Next, Others, Set, LimitEnds, KnobEnable, KnobParamSet, KnobSet, Crosses, Remembers,
       AutoEnable, Enables, AssertPins, WritesValue, Recalls, Looks, Reapplies, vars

LEMMA NoTrueKept ==
  ASSUME TypeOK, [Next]_vars, NEW thing \in Things, NoTrue(thing), ~mixer'[thing]
  PROVE  NoTrue(thing)'
<1>0. reports \in Seq(Report) /\ Silent(reports, thing) /\ seen[thing] # TRUE
  BY DEF TypeOK, Report, NoTrue
<1>1. CASE UNCHANGED <<reports, seen>>
  BY <1>0, <1>1 DEF NoTrue
<1>2. ASSUME NEW x \in Things, Turns(x) PROVE NoTrue(thing)'
  <2> DEFINE on == ~mixer[x]
  <2>1. on \in BOOLEAN /\ reports' = Append(reports, <<x, on>>) /\ seen' = seen
    BY <1>2, MixerTyped DEF Turns
  <2>2. mixer'[x] = on
    BY <1>2, <2>1, Written DEF Turns
  <2> HIDE DEF on
  <2>3. <<x, on>> \in Report /\ <<x, on>> # <<thing, TRUE>>
    BY <2>1, <2>2 DEF Report
  <2> QED
    BY <1>0, <2>1, <2>3, SilentAppend DEF NoTrue
<1>3. ASSUME NEW section \in BOOLEAN, NEW pin \in BOOLEAN, NEW v \in Values,
             Lands(section, pin, v)
      PROVE  NoTrue(thing)'
  <2> DEFINE c == section # mixer.section
             d == pin # mixer.pin
  <2>1. /\ reports' = reports \o Reported("section", section, c) \o Reported("pin", pin, d)
        /\ c \in BOOLEAN /\ d \in BOOLEAN /\ seen' = seen
        /\ mixer'["section"] = section /\ mixer'["pin"] = pin
    BY <1>3 DEF Lands
  <2> HIDE DEF c, d
  <2> DEFINE q1 == reports \o Reported("section", section, c)
  <2>2. q1 \in Seq(Report) /\ Silent(q1, thing)
    BY <1>0, <2>1, SilentReported, Things2
  <2>3. reports' = q1 \o Reported("pin", pin, d)
    BY <2>1
  <2> HIDE DEF q1
  <2>4. /\ q1 \o Reported("pin", pin, d) \in Seq(Report)
        /\ Silent(q1 \o Reported("pin", pin, d), thing)
    BY <2>1, <2>2, SilentReported, Things2
  <2> QED
    BY <1>0, <2>1, <2>3, <2>4 DEF NoTrue
<1>4. CASE Ingest
  <2>1. Head(reports) # <<thing, TRUE>> /\ Silent(reports', thing)
    BY <1>0, <1>4, SilentTail DEF Ingest
  <2>2. Head(reports) \in Report
    BY <1>0, <1>4, HeadTailProperties DEF Ingest
  <2>3. Head(reports)[1] = thing => Head(reports)[2] = FALSE
    <3>1. PICK x \in Things, on \in BOOLEAN : Head(reports) = <<x, on>>
      BY <2>2 DEF Report
    <3>2. <<x, on>>[1] = x /\ <<x, on>>[2] = on
      OBVIOUS
    <3>3. x = thing => on # TRUE
      BY <2>1, <3>1
    <3>4. x = thing => on = FALSE
      BY <3>3
    <3> QED
      BY <3>1, <3>2, <3>4
  <2>4. seen'[thing] = IF Head(reports)[1] = thing THEN Head(reports)[2] ELSE seen[thing]
    BY <1>4, <2>2 DEF Ingest, TypeOK, Report
  <2> QED
    BY <1>0, <2>1, <2>3, <2>4 DEF NoTrue
<1>5. CASE Readback
  <2> DEFINE a == mixer["section"]
             b == mixer["pin"]
             c == "section" \in Watched
             d == "pin" \in Watched
             q1 == <<>> \o Reported("section", a, c)
             none == <<>>
  <2>1. /\ a \in BOOLEAN /\ b \in BOOLEAN /\ c \in BOOLEAN /\ d \in BOOLEAN
        /\ thing = "section" => ~a
        /\ thing = "pin" => ~b
    BY <1>5, MixerTyped, Things2 DEF Readback
  <2>2. none \in Seq(Report) /\ Silent(none, thing)
    BY EmptySeq DEF Silent
  <2>3. reports' = q1 \o Reported("pin", b, d)
    BY <1>5 DEF Readback, Reported
  <2>4. q1 = none \o Reported("section", a, c)
    OBVIOUS
  <2> HIDE DEF a, b, c, d, none, q1
  <2>5. q1 \in Seq(Report) /\ Silent(q1, thing)
    BY <2>1, <2>2, <2>4, SilentReported, Things2
  <2>6. /\ q1 \o Reported("pin", b, d) \in Seq(Report)
        /\ Silent(q1 \o Reported("pin", b, d), thing)
    BY <2>1, <2>5, SilentReported, Things2
  <2> QED
    BY <1>0, <1>5, <2>3, <2>6 DEF NoTrue, Readback
<1> QED
  BY <1>1, <1>2, <1>3, <1>4, <1>5, WhoTells

\* Whoever writes when all has been told is not misled.
LEMMA ToldNoTrue ==
  ASSUME TypeOK, ViewInv, NEW thing \in Watched, reports = <<>>, ~bridge.readback,
         thing = "pin" \/ Calling = {}, ~mixer[thing]
  PROVE  NoTrue(thing)
<1>1. Sure(thing) /\ Len(reports) = 0
  BY EmptySeq DEF Sure
<1>2. seen[thing] \in {None, mixer[thing]}
  BY <1>1 DEF ViewInv, Agrees
<1>3. mixer[thing] = FALSE /\ None # TRUE
  BY MixerTyped, SectionAssumption
<1>4. seen[thing] # TRUE
  BY <1>2, <1>3
<1>5. 1..Len(reports) = {}
  BY <1>1
<1> QED
  BY <1>4, <1>5 DEF NoTrue, Silent

\* What others do to a thing shows in what nothing but the knob has touched.
LEMMA OthersTouch ==
  ASSUME TypeOK, Others \/ Recalls \/ Looks \/ UNCHANGED vars,
         NEW thing \in Things, thing \in past'.own
  PROVE  /\ thing \in past.own /\ mixer'[thing] = mixer[thing]
         /\ bridge'.limit[thing] => bridge.limit[thing]
<1>1. ASSUME NEW x \in Things, Turns(x)
      PROVE  /\ thing \in past.own /\ mixer'[thing] = mixer[thing]
             /\ bridge' = bridge
  <2>1. thing \in past.own /\ thing # x /\ bridge' = bridge /\ (~mixer[x]) \in BOOLEAN
    BY <1>1, MixerTyped DEF Turns, Touched, TypeOK
  <2> QED
    BY <1>1, <2>1, Written DEF Turns
<1>2. ASSUME NEW x \in Things, LimitEnds(x)
      PROVE  /\ thing \in past.own /\ mixer'[thing] = mixer[thing]
             /\ bridge'.limit[thing] => bridge.limit[thing]
  BY <1>2 DEF LimitEnds, TypeOK
<1>3. ASSUME NEW section \in BOOLEAN, NEW pin \in BOOLEAN, NEW v \in Values,
             Lands(section, pin, v)
      PROVE  FALSE
  BY <1>3 DEF Lands, Touched, TypeOK
<1>4. ASSUME Ingest \/ Readback
      PROVE  /\ thing \in past.own /\ mixer'[thing] = mixer[thing]
             /\ bridge'.limit[thing] => bridge.limit[thing]
  BY <1>4 DEF Ingest, Readback, TypeOK
<1>5. ASSUME NEW on \in BOOLEAN, KnobEnable(on)
      PROVE  /\ thing \in past.own /\ mixer'[thing] = mixer[thing]
             /\ bridge'.limit[thing] => bridge.limit[thing]
  <2>1. thing \in past.own /\ thing # "section"
    BY <1>5 DEF KnobEnable, Touched, TypeOK
  <2>2. mixer'[thing] = mixer[thing]
    BY <1>5, <2>1, Written, Things2 DEF KnobEnable
  <2>3. bridge'.limit[thing] = bridge.limit[thing]
    BY <1>5, <2>1 DEF KnobEnable, TypeOK
  <2> QED
    BY <2>1, <2>2, <2>3
<1>6. ASSUME NEW on \in BOOLEAN, KnobParamSet(on)
      PROVE  /\ thing \in past.own /\ mixer'[thing] = mixer[thing]
             /\ bridge'.limit[thing] => bridge.limit[thing]
  <2>1. thing \in past.own /\ thing # "pin"
    BY <1>6 DEF KnobParamSet, Touched, TypeOK
  <2>2. mixer'[thing] = mixer[thing]
    BY <1>6, <2>1, Written, Things2 DEF KnobParamSet
  <2>3. bridge'.limit[thing] = bridge.limit[thing]
    BY <1>6 DEF KnobParamSet, TypeOK
  <2> QED
    BY <2>1, <2>2, <2>3
<1>7. ASSUME Recalls \/ Looks \/ UNCHANGED vars
      PROVE  UNCHANGED <<past, mixer, bridge>>
  BY <1>7 DEF Recalls, Looks, vars
<1> QED
  BY <1>1, <1>2, <1>3, <1>4, <1>5, <1>6, <1>7 DEF Others

\* What a step of knob_set writes.
LEMMA InsideWrites ==
  ASSUME TypeOK, NEW t \in Threads
  PROVE  /\ Crosses(t) =>
              /\ mixer'["pin"] = mixer["pin"] /\ mixer'["section"] = ~Parked(arg[t])
              /\ bridge'.limit["pin"] = bridge.limit["pin"] /\ past'.own = past.own \cup {"section"}
         /\ Enables(t) =>
              /\ mixer'["pin"] = mixer["pin"] /\ mixer'["section"] = TRUE
              /\ bridge'.limit["pin"] = bridge.limit["pin"] /\ past' = past
         /\ AssertPins(t) =>
              /\ mixer'["section"] = mixer["section"]
              /\ NeedsPin => mixer'["pin"] = TRUE
              /\ past' = past
<1>1. Parked(arg[t]) \in BOOLEAN
  BY DEF Parked, TypeOK
<1>2. ASSUME Crosses(t)
      PROVE  /\ mixer'["pin"] = mixer["pin"] /\ mixer'["section"] = ~Parked(arg[t])
             /\ bridge'.limit["pin"] = bridge.limit["pin"]
             /\ past'.own = past.own \cup {"section"}
  <2> DEFINE on == ~Parked(arg[t])
  <2>1. on \in BOOLEAN /\ Writes("section", on)
    BY <1>1, <1>2 DEF Crosses
  <2>2. bridge'.limit["pin"] = bridge.limit["pin"] /\ past'.own = past.own \cup {"section"}
    BY <1>2, Things2 DEF Crosses, TypeOK
  <2> HIDE DEF on
  <2>3. mixer'["pin"] = mixer["pin"] /\ mixer'["section"] = on
    BY <2>1, Written, Things2
  <2> QED
    BY <2>2, <2>3 DEF on
<1>3. ASSUME Enables(t)
      PROVE  /\ mixer'["pin"] = mixer["pin"] /\ mixer'["section"] = TRUE
             /\ bridge'.limit["pin"] = bridge.limit["pin"] /\ past' = past
  <2>1. bridge'.limit["pin"] = bridge.limit["pin"] /\ past' = past /\ Writes("section", TRUE)
    BY <1>3, Things2 DEF Enables, TypeOK
  <2> QED
    BY <2>1, Written, Things2
<1>4. ASSUME AssertPins(t)
      PROVE  /\ mixer'["section"] = mixer["section"]
             /\ NeedsPin => mixer'["pin"] = TRUE
             /\ past' = past
  <2>1. CASE NeedsPin
    BY <1>4, <2>1, Written, Things2 DEF AssertPins
  <2>2. CASE ~NeedsPin
    BY <1>4, <2>2 DEF AssertPins
  <2> QED
    BY <2>1, <2>2
<1> QED
  BY <1>2, <1>3, <1>4

Before == {"crosses", "remembers", "autoEnable", "enables", "pins"}

\* While a companion that only the knob has touched since is not as pinned,
\* a call is on its way to _assert_pins, and nothing can stop it there.
PinInv ==
  ("pin" \in past.own /\ knob.pinned /\ ~mixer["pin"]) =>
    /\ NoTrue("pin") /\ ~bridge.limit["pin"]
    /\ \E t \in Threads : pc[t] \in Before

LEMMA PinStep ==
  ASSUME TypeOK, ViewInv, PinInv, [Next]_vars
  PROVE  PinInv'
<1> SUFFICES ASSUME "pin" \in past'.own, knob'.pinned, ~mixer'["pin"]
             PROVE  /\ (NoTrue("pin"))' /\ ~bridge'.limit["pin"]
                    /\ \E t \in Threads : pc'[t] \in Before
  BY DEF PinInv
<1>0. NoTrue("pin") => (NoTrue("pin"))'
  BY NoTrueKept, Things2
<1>1. CASE Others \/ Recalls \/ Looks \/ UNCHANGED vars
  <2>1. /\ "pin" \in past.own /\ mixer'["pin"] = mixer["pin"]
        /\ bridge'.limit["pin"] => bridge.limit["pin"]
    BY <1>1, OthersTouch, Things2
  <2>2. Outside
    BY <1>1, OthersOutside
  <2>3. knob.pinned /\ NoTrue("pin") /\ ~bridge.limit["pin"]
        /\ \E t \in Threads : pc[t] \in Before
    BY <2>1, <2>2 DEF PinInv, Outside
  <2>4. \A t \in Threads : pc[t] \in Before => pc'[t] \in Before
    BY <2>2 DEF Outside, Calling, Before
  <2> QED
    BY <1>0, <2>1, <2>3, <2>4
<1>2. ASSUME NEW t \in Threads, NEW v \in Values, KnobSet(t, v)
      PROVE  /\ (NoTrue("pin"))' /\ ~bridge'.limit["pin"] /\ pc'[t] \in Before
  <2>1. /\ bridge' = bridge /\ mixer' = mixer /\ knob' = knob
        /\ "pin" \in past.own \/ Told("pin")
    BY <1>2 DEF KnobSet, TypeOK
  <2>2. pc'[t] \in Before
    BY <1>2, <2>1, EntersWhere DEF KnobSet, Before
  <2>3. CASE "pin" \in past.own
    BY <1>0, <2>1, <2>2, <2>3 DEF PinInv
  <2>4. CASE Told("pin")
    <3>1. "pin" \in Watched
      BY <2>1, Things2 DEF Watched
    <3>2. NoTrue("pin")
      BY <2>1, <2>4, <3>1, ToldNoTrue DEF Told
    <3> QED
      BY <1>0, <2>1, <2>2, <2>4, <3>2 DEF Told
  <2> QED
    BY <2>1, <2>3, <2>4
<1>3. ASSUME NEW t \in Threads, Crosses(t) \/ Remembers(t) \/ AutoEnable(t) \/ Enables(t)
      PROVE  /\ (NoTrue("pin"))' /\ ~bridge'.limit["pin"] /\ pc'[t] \in Before
  <2>1. \E l : Inside(t, l) /\ l \in Before
    BY <1>3, InsideSteps DEF Before
  <2>2. pc'[t] \in Before /\ knob' = knob
    BY <2>1, InsideKeeps DEF Inside
  <2>3. /\ "pin" \in past.own /\ mixer'["pin"] = mixer["pin"]
        /\ bridge'.limit["pin"] = bridge.limit["pin"]
    <3>1. CASE Crosses(t)
      <4>1. /\ mixer'["pin"] = mixer["pin"] /\ bridge'.limit["pin"] = bridge.limit["pin"]
            /\ past'.own = past.own \cup {"section"}
        BY <3>1, InsideWrites
      <4> QED
        BY <4>1
    <3>2. CASE Enables(t)
      BY <3>2, InsideWrites
    <3>3. CASE Remembers(t) \/ AutoEnable(t)
      BY <3>3 DEF Remembers, AutoEnable, TypeOK
    <3> QED
      BY <1>3, <3>1, <3>2, <3>3
  <2> QED
    BY <1>0, <2>2, <2>3 DEF PinInv
<1>4. ASSUME NEW t \in Threads, AssertPins(t) PROVE FALSE
  <2>1. ~NeedsPin /\ past' = past
    BY <1>4, InsideWrites
  <2>2. mixer' = mixer /\ knob' = knob
    BY <1>4, <2>1 DEF AssertPins
  <2> QED
    BY <2>1, <2>2 DEF PinInv, NeedsPin, NoTrue
<1>5. ASSUME NEW t \in Threads, WritesValue(t)
      PROVE  /\ (NoTrue("pin"))' /\ ~bridge'.limit["pin"]
             /\ \E u \in Threads : pc'[u] \in Before
  <2>1. /\ "pin" \in past.own /\ mixer'["pin"] = mixer["pin"] /\ knob' = knob
        /\ bridge'.limit = bridge.limit /\ pc[t] \notin Before
    BY <1>5 DEF WritesValue, TypeOK, Before
  <2>2. \A u \in Threads : u # t => pc'[u] = pc[u]
    BY <1>5, CallEnds
  <2> QED
    BY <1>0, <2>1, <2>2 DEF PinInv
<1>6. CASE Reapplies
  <2>1. /\ Enters(Switcher, arg[Switcher]) /\ Switcher \in Threads /\ arg[Switcher] \in Values
        /\ mixer' = mixer /\ knob' = knob
    BY <1>6 DEF Reapplies, Threads, TypeOK
  <2>2. pc'[Switcher] \in Before
    BY <2>1, EntersWhere DEF Before
  <2>3. ~bridge'.limit["pin"]
    BY <1>6 DEF Reapplies, Forgets, Things, TypeOK
  <2>4. "pin" \in past.own \/ (reports = <<>> /\ ~bridge.readback)
    BY <1>6 DEF Reapplies, Holding, TypeOK
  <2>5. CASE "pin" \in past.own
    BY <1>0, <2>1, <2>2, <2>3, <2>5 DEF PinInv
  <2>6. CASE reports = <<>> /\ ~bridge.readback
    <3>1. "pin" \in Watched
      BY <2>1, Things2 DEF Watched
    <3>2. NoTrue("pin")
      BY <2>1, <2>6, <3>1, ToldNoTrue
    <3> QED
      BY <1>0, <2>1, <2>2, <2>3, <3>2
  <2> QED
    BY <2>4, <2>5, <2>6
<1> QED
  BY <1>1, <1>2, <1>3, <1>4, <1>5, <1>6 DEF Next, Set

\* For any knob, threads and snapshots: a pinned companion has its value
\* after every move that could tell that it had not.
THEOREM PinsHold == Spec => []PinHolds
<1>1. TypeOK /\ PinInv => PinHolds
  BY DEF PinHolds, PinInv, Idle, Before
<1>2. Init => TypeOK /\ ViewInv /\ PinInv
  BY TypeInit, ViewInit DEF Init, PinInv
<1>3. TypeOK /\ ViewInv /\ PinInv /\ [Next]_vars => (TypeOK /\ ViewInv /\ PinInv)'
  BY TypeStep, ViewStep, PinStep
<1> QED
  BY <1>1, <1>2, <1>3, PTL DEF Spec

-----------------------------------------------------------------------------
(* The switch of the section: off at the end, on where the knob is played. *)

\* While the section is on though the knob parks, somebody is about to turn
\* it off, or the value is about to leave the end.
OffInv ==
  (Calm({"overlap"}) /\ "section" \in past.own /\ knob.offEnd /\ mixer["section"]) =>
    \/ Calling = {} /\ (bridge.value = None \/ ~Parked(bridge.value))
    \/ \E t \in Calling : pc[t] = "crosses" \/ ~Parked(arg[t])

LEMMA OffStep ==
  ASSUME TypeOK, Alone, MemoInv, OffInv, [Next]_vars
  PROVE  OffInv'
<1> SUFFICES ASSUME (Calm({"overlap"}))', "section" \in past'.own, knob'.offEnd,
                    mixer'["section"]
             PROVE  \/ Calling' = {} /\ (bridge'.value = None \/ ~(Parked(bridge.value))')
                    \/ \E t \in Calling' : pc'[t] = "crosses" \/ ~(Parked(arg[t]))'
  BY DEF OffInv
<1>1. CASE Others \/ Recalls \/ Looks \/ UNCHANGED vars
  <2>1. "section" \in past.own /\ mixer'["section"] = mixer["section"]
    BY <1>1, OthersTouch, Things2
  <2>2. Outside
    BY <1>1, OthersOutside
  <2>3. \/ Calling = {} /\ (bridge.value = None \/ ~Parked(bridge.value))
        \/ \E t \in Calling : pc[t] = "crosses" \/ ~Parked(arg[t])
    BY <2>1, <2>2 DEF OffInv, Outside
  <2>4. Calling' = Calling /\ Calling \subseteq Threads
    BY <2>2 DEF Outside, Calling
  <2>5. /\ (Parked(bridge.value))' <=> Parked(bridge.value)
        /\ \A t \in Calling : pc'[t] = pc[t] /\ ((Parked(arg[t]))' <=> Parked(arg[t]))
    BY <2>2, <2>4 DEF Outside, Parked
  <2> QED
    BY <2>2, <2>3, <2>4, <2>5 DEF Outside
<1>2. ASSUME NEW t \in Threads, NEW v \in Values, KnobSet(t, v)
      PROVE  \E u \in Calling' : pc'[u] = "crosses" \/ ~(Parked(arg[u]))'
  <2>1. /\ Enters(t, v) /\ bridge' = bridge /\ mixer' = mixer /\ knob' = knob
        /\ "section" \in past.own \/ ~Parked(v)
    BY <1>2 DEF KnobSet, TypeOK
  <2>2. Calm({"overlap"}) /\ Calling = {} /\ Calling' = {t}
    BY <2>1, EntersAlone
  <2>3. /\ arg'[t] = v
        /\ \/ pc'[t] = "crosses"
           \/ bridge'.memo = TRUE /\ Parked(v)
           \/ ~Parked(v)
    BY <2>1, EntersWhere
  <2>4. (Parked(arg[t]))' <=> Parked(v)
    BY <2>1, <2>3 DEF Parked
  <2>5. CASE bridge'.memo = TRUE /\ Parked(v)
    <3>1. bridge.value = None \/ ~Parked(bridge.value)
      BY <2>1, <2>2, <2>5 DEF OffInv
    <3>2. \/ bridge.memo = None
          \/ bridge.value # None /\ bridge.memo = Parked(bridge.value)
      BY <2>1, <2>2 DEF MemoInv
    <3> QED
      BY <2>1, <2>5, <3>1, <3>2, SectionAssumption
  <2> QED
    BY <2>2, <2>3, <2>4, <2>5
<1>3. ASSUME NEW t \in Threads, NEW l, Inside(t, l), ~Parked(arg[t])
      PROVE  \E u \in Calling' : pc'[u] = "crosses" \/ ~(Parked(arg[u]))'
  BY <1>3, InsideKeeps DEF Inside, Parked
<1>4. ASSUME NEW t \in Threads, NEW l, Inside(t, l), pc[t] # "crosses",
             past' = past, mixer'["section"] = mixer["section"]
      PROVE  \E u \in Calling' : pc'[u] = "crosses" \/ ~(Parked(arg[u]))'
  <2>1. t \in Calling /\ Calm({"overlap"}) /\ knob' = knob
    BY <1>4, InsideKeeps DEF Inside
  <2>2. ~Parked(arg[t])
    BY <1>4, <2>1 DEF OffInv, Alone
  <2> QED
    BY <1>3, <1>4, <2>2
<1>5. ASSUME NEW t \in Threads, Set(t)
      PROVE  \/ Calling' = {} /\ ~(Parked(bridge.value))'
             \/ \E u \in Calling' : pc'[u] = "crosses" \/ ~(Parked(arg[u]))'
  <2>1. CASE Crosses(t)
    <3>1. mixer'["section"] = ~Parked(arg[t]) /\ Inside(t, "remembers")
      BY <2>1, InsideWrites, InsideSteps
    <3> QED
      BY <1>3, <3>1
  <2>2. CASE Remembers(t)
    <3>1. /\ Inside(t, IF Parked(arg[t]) THEN "pins" ELSE "autoEnable")
          /\ pc[t] # "crosses" /\ past' = past /\ mixer' = mixer
      BY <2>2, InsideSteps DEF Remembers
    <3> QED
      BY <1>4, <3>1
  <2>3. CASE AutoEnable(t)
    <3>1. /\ Inside(t, IF NeedsEnable THEN "enables" ELSE "pins")
          /\ pc[t] # "crosses" /\ past' = past /\ mixer' = mixer
      BY <2>3, InsideSteps DEF AutoEnable
    <3> QED
      BY <1>4, <3>1
  <2>4. CASE Enables(t)
    <3>1. Inside(t, "pins") /\ ~Parked(arg[t])
      BY <2>4, InsideSteps DEF MemoInv, Enables
    <3> QED
      BY <1>3, <3>1
  <2>5. CASE AssertPins(t)
    <3>1. /\ Inside(t, "value") /\ pc[t] # "crosses" /\ past' = past
          /\ mixer'["section"] = mixer["section"]
      BY <2>5, InsideSteps, InsideWrites DEF AssertPins
    <3> QED
      BY <1>4, <3>1
  <2>6. CASE WritesValue(t)
    <3>1. /\ t \in Calling /\ Calling' = Calling \ {t} /\ Calm({"overlap"})
          /\ (Parked(arg[t]))' <=> Parked(arg[t])
      BY <2>6, CallEnds DEF WritesValue, Parked
    <3>2. /\ mixer'["section"] = mixer["section"] /\ past'.own = past.own /\ knob' = knob
          /\ bridge'.value = arg[t] /\ pc[t] = "value" /\ arg' = arg
      BY <2>6, MixerTyped DEF WritesValue, TypeOK
    <3>3. ~Parked(arg[t])
      BY <3>1, <3>2 DEF OffInv, Alone
    <3>4. Calling' = {}
      BY <3>1 DEF Alone
    <3> QED
      BY <3>2, <3>3, <3>4 DEF Parked
  <2> QED
    BY <1>2, <1>5, <2>1, <2>2, <2>3, <2>4, <2>5, <2>6 DEF Set
<1>6. CASE Reapplies
  <2>1. /\ Enters(Switcher, arg[Switcher]) /\ Switcher \in Threads /\ arg[Switcher] \in Values
        /\ knob' = knob /\ bridge'.memo = None
    BY <1>6 DEF Reapplies, Forgets, Threads, TypeOK
  <2>2. Calling' = {Switcher}
    BY <2>1, EntersAlone
  <2>3. pc'[Switcher] = "crosses"
    BY <2>1, EntersWhere, SectionAssumption
  <2> QED
    BY <2>2, <2>3
<1> QED
  BY <1>1, <1>5, <1>6 DEF Next

\* For any knob and any recalls: a knob at its end has its section off.
THEOREM ParksOff == Spec => []ParkedIsOff
<1>1. TypeOK /\ OffInv => ParkedIsOff
  BY DEF ParkedIsOff, OffInv, Idle, IsSet, Calling, Parked
<1>2. Init => TypeOK /\ Alone /\ MemoInv /\ OffInv
  BY TypeInit, AloneInit DEF Init, OffInv
<1>3. TypeOK /\ Alone /\ MemoInv /\ OffInv /\ [Next]_vars
        => (TypeOK /\ Alone /\ MemoInv /\ OffInv)'
  BY TypeStep, AloneStep, MemoStep, OffStep
<1> QED
  BY <1>1, <1>2, <1>3, PTL DEF Spec

\* A thread that will turn the section on, or may leave it off.
Enabling(t) ==
  \/ pc[t] = "crosses"
  \/ pc[t] \in {"remembers", "pins", "value"} /\ Parked(arg[t])
  \/ pc[t] = "enables"
  \/ pc[t] = "autoEnable" /\ NoTrue("section") /\ ~bridge.limit["section"]

\* While the section of a played knob is off, the knob is at its end, or a
\* call is about to turn it on and nothing it was told stops it.
OnInv ==
  (Calm({"overlap"}) /\ "section" \in past.own /\ knob.auto /\ ~mixer["section"]) =>
    \/ Calling = {} /\ bridge.value # None /\ Parked(bridge.value)
    \/ \E t \in Calling : Enabling(t)

LEMMA OnStep ==
  ASSUME TypeOK, Alone, MemoInv, ViewInv, OnInv, [Next]_vars
  PROVE  OnInv'
<1> SUFFICES ASSUME (Calm({"overlap"}))', "section" \in past'.own, knob'.auto,
                    ~mixer'["section"]
             PROVE  \/ Calling' = {} /\ bridge'.value # None /\ (Parked(bridge.value))'
                    \/ \E t \in Calling' : (Enabling(t))'
  BY DEF OnInv
<1>0. NoTrue("section") => (NoTrue("section"))'
  BY NoTrueKept, Things2
<1>1. CASE Others \/ Recalls \/ Looks \/ UNCHANGED vars
  <2>1. /\ "section" \in past.own /\ mixer'["section"] = mixer["section"]
        /\ bridge'.limit["section"] => bridge.limit["section"]
    BY <1>1, OthersTouch, Things2
  <2>2. Outside
    BY <1>1, OthersOutside
  <2>3. \/ Calling = {} /\ bridge.value # None /\ Parked(bridge.value)
        \/ \E t \in Calling : Enabling(t)
    BY <2>1, <2>2 DEF OnInv, Outside
  <2>4. Calling' = Calling /\ Calling \subseteq Threads
    BY <2>2 DEF Outside, Calling
  <2>5. /\ (Parked(bridge.value))' <=> Parked(bridge.value)
        /\ \A t \in Calling : pc'[t] = pc[t] /\ ((Parked(arg[t]))' <=> Parked(arg[t]))
    BY <2>2, <2>4 DEF Outside, Parked
  <2>6. \A t \in Calling : Enabling(t) => (Enabling(t))'
    BY <1>0, <2>1, <2>5 DEF Enabling
  <2> QED
    BY <2>2, <2>3, <2>4, <2>5, <2>6 DEF Outside
<1>2. ASSUME NEW t \in Threads, NEW v \in Values, KnobSet(t, v)
      PROVE  \E u \in Calling' : (Enabling(u))'
  <2>1. /\ Enters(t, v) /\ bridge' = bridge /\ mixer' = mixer /\ knob' = knob
        /\ "section" \in past.own \/ Told("section")
    BY <1>2 DEF KnobSet, TypeOK
  <2>2. Calm({"overlap"}) /\ Calling = {} /\ Calling' = {t}
    BY <2>1, EntersAlone
  <2>3. /\ arg'[t] = v
        /\ \/ pc'[t] = "crosses"
           \/ Parked(v) /\ pc'[t] = "pins"
           \/ (knob.offEnd => bridge'.memo = FALSE) /\ ~Parked(v) /\ pc'[t] = "autoEnable"
    BY <2>1, EntersWhere
  <2>4. (Parked(arg[t]))' <=> Parked(v)
    BY <2>1, <2>3 DEF Parked
  <2>5. CASE (knob.offEnd => bridge'.memo = FALSE) /\ ~Parked(v) /\ pc'[t] = "autoEnable"
    <3>1. CASE "section" \in past.own
      <4>1. bridge.value # None /\ Parked(bridge.value)
        BY <2>1, <2>2, <3>1 DEF OnInv
      <4>2. knob.offEnd /\ bridge.memo = FALSE
        BY <2>1, <2>5, <4>1 DEF Parked
      <4>3. bridge.memo = None \/ bridge.memo = Parked(bridge.value)
        BY <2>2, <4>2 DEF MemoInv
      <4> QED
        BY <4>1, <4>2, <4>3, SectionAssumption
    <3>2. CASE Told("section")
      <4>1. "section" \in Watched
        BY <2>1, Things2 DEF Watched
      <4>2. NoTrue("section")
        BY <2>1, <2>2, <3>2, <4>1, ToldNoTrue DEF Told
      <4> QED
        BY <1>0, <2>1, <2>2, <2>5, <3>2, <4>2 DEF Told, Enabling
    <3> QED
      BY <2>1, <3>1, <3>2
  <2> QED
    BY <2>2, <2>3, <2>4, <2>5 DEF Enabling
\* Between the entry and the end of a call: who was to turn it on is the caller.
<1>3. ASSUME NEW t \in Threads, NEW l, Inside(t, l), past' = past,
             mixer'["section"] = mixer["section"]
      PROVE  /\ Enabling(t) /\ pc'[t] = l /\ Calling' = Calling /\ t \in Calling
             /\ (Parked(arg[t]))' <=> Parked(arg[t])
  <2>1. /\ t \in Calling /\ Calm({"overlap"}) /\ knob' = knob
        /\ pc'[t] = l /\ Calling' = Calling
        /\ (Parked(arg[t]))' <=> Parked(arg[t])
    BY <1>3, InsideKeeps DEF Inside, Parked
  <2> QED
    BY <1>3, <2>1 DEF OnInv, Alone
<1>4. ASSUME NEW t \in Threads, Set(t)
      PROVE  \/ Calling' = {} /\ bridge'.value # None /\ (Parked(bridge.value))'
             \/ \E u \in Calling' : (Enabling(u))'
  <2>1. CASE Crosses(t)
    <3>1. mixer'["section"] = ~Parked(arg[t]) /\ Inside(t, "remembers")
      BY <2>1, InsideWrites, InsideSteps
    <3>2. /\ Parked(arg[t]) /\ pc'[t] = "remembers" /\ t \in Calling'
          /\ (Parked(arg[t]))' <=> Parked(arg[t])
      BY <3>1, InsideKeeps DEF Inside, Parked
    <3> QED
      BY <3>2 DEF Enabling
  <2>2. CASE Remembers(t)
    <3>1. /\ Inside(t, IF Parked(arg[t]) THEN "pins" ELSE "autoEnable")
          /\ pc[t] = "remembers" /\ past' = past /\ mixer' = mixer
      BY <2>2, InsideSteps DEF Remembers
    <3>2. /\ Enabling(t) /\ pc'[t] = IF Parked(arg[t]) THEN "pins" ELSE "autoEnable"
          /\ t \in Calling' /\ ((Parked(arg[t]))' <=> Parked(arg[t]))
      BY <1>3, <3>1
    <3> QED
      BY <3>1, <3>2 DEF Enabling
  <2>3. CASE AutoEnable(t)
    <3>1. /\ Inside(t, IF NeedsEnable THEN "enables" ELSE "pins") /\ knob' = knob
          /\ pc[t] = "autoEnable" /\ past' = past /\ mixer' = mixer
      BY <2>3, InsideSteps DEF AutoEnable
    <3>2. /\ Enabling(t) /\ pc'[t] = IF NeedsEnable THEN "enables" ELSE "pins"
          /\ t \in Calling'
      BY <1>3, <3>1
    <3>3. NeedsEnable
      BY <3>1, <3>2 DEF Enabling, NeedsEnable, NoTrue
    <3> QED
      BY <3>2, <3>3 DEF Enabling
  <2>4. CASE Enables(t)
    BY <2>4, InsideWrites
  <2>5. CASE AssertPins(t)
    <3>1. /\ Inside(t, "value") /\ pc[t] = "pins" /\ past' = past
          /\ mixer'["section"] = mixer["section"]
      BY <2>5, InsideSteps, InsideWrites DEF AssertPins
    <3>2. /\ Enabling(t) /\ pc'[t] = "value" /\ t \in Calling'
          /\ (Parked(arg[t]))' <=> Parked(arg[t])
      BY <1>3, <3>1
    <3> QED
      BY <3>1, <3>2 DEF Enabling
  <2>6. CASE WritesValue(t)
    <3>1. t \in Calling /\ Calling' = Calling \ {t} /\ Calm({"overlap"})
      BY <2>6, CallEnds
    <3>2. /\ mixer'["section"] = mixer["section"] /\ past'.own = past.own /\ knob' = knob
          /\ bridge'.value = arg[t] /\ pc[t] = "value" /\ arg' = arg /\ arg[t] # None
      BY <2>6, MixerTyped DEF WritesValue, TypeOK
    <3>3. Enabling(t)
      BY <3>1, <3>2 DEF OnInv, Alone
    <3>4. Calling' = {}
      BY <3>1 DEF Alone
    <3> QED
      BY <3>2, <3>3, <3>4 DEF Parked, Enabling
  <2> QED
    BY <1>2, <1>4, <2>1, <2>2, <2>3, <2>4, <2>5, <2>6 DEF Set
<1>5. CASE Reapplies
  <2>1. /\ Enters(Switcher, arg[Switcher]) /\ Switcher \in Threads /\ arg[Switcher] \in Values
        /\ knob' = knob /\ mixer' = mixer /\ bridge'.memo = None
        /\ ~bridge'.limit["section"]
    BY <1>5, Things2 DEF Reapplies, Forgets, Threads, TypeOK
  <2>2. Calm({"overlap"}) /\ Calling = {} /\ Calling' = {Switcher}
    BY <2>1, EntersAlone
  <2>3. \/ pc'[Switcher] = "crosses"
        \/ ~knob.offEnd /\ pc'[Switcher] = "autoEnable"
    BY <2>1, EntersWhere, SectionAssumption DEF Parked
  <2>4. CASE ~knob.offEnd /\ pc'[Switcher] = "autoEnable"
    <3>1. "section" \notin past.own
      BY <2>1, <2>2, <2>4 DEF OnInv, Parked
    <3>2. reports = <<>> /\ ~bridge.readback
      BY <1>5, <2>4, <3>1 DEF Reapplies, Holding, Parked, TypeOK
    <3>3. "section" \in Watched
      BY <2>1, Things2 DEF Watched
    <3>4. NoTrue("section")
      BY <2>1, <2>2, <3>2, <3>3, ToldNoTrue
    <3> QED
      BY <1>0, <2>1, <2>2, <2>4, <3>4 DEF Enabling
  <2> QED
    BY <2>2, <2>3, <2>4 DEF Enabling
<1> QED
  BY <1>1, <1>4, <1>5 DEF Next

\* For any knob and any recalls: a knob that is played has its section on,
\* if the move could tell that it was off.
THEOREM PlaysOn == Spec => []PlayedIsOn
<1>1. TypeOK /\ OnInv => PlayedIsOn
  BY DEF PlayedIsOn, OnInv, Idle, IsSet, Calling
<1>2. Init => TypeOK /\ Alone /\ MemoInv /\ ViewInv /\ OnInv
  BY TypeInit, AloneInit, ViewInit DEF Init, OnInv
<1>3. TypeOK /\ Alone /\ MemoInv /\ ViewInv /\ OnInv /\ [Next]_vars
        => (TypeOK /\ Alone /\ MemoInv /\ ViewInv /\ OnInv)'
  BY TypeStep, AloneStep, MemoStep, ViewStep, OnStep
<1> QED
  BY <1>1, <1>2, <1>3, PTL DEF Spec

-----------------------------------------------------------------------------
(* The value that is held over a recall.                                   *)

HeldInv ==
  Calm({"overlap", "late", "overtaken"}) =>
    /\ bridge.value = past.asked
    /\ flight => pc[Switcher] = "waits"
    /\ (pc[Switcher] = "held" \/ Switcher \in Calling) => arg[Switcher] = bridge.value
    /\ (pc[Switcher] = "idle" /\ Calling = {} /\ bridge.value # None) =>
         mixer.level = bridge.value

LEMMA HeldStep ==
  ASSUME TypeOK, Alone, HeldInv, [Next]_vars
  PROVE  HeldInv'
<1> DEFINE m == {"overlap", "late", "overtaken"}
<1> USE MixerTyped
<1>1. Switcher \in Threads /\ Switcher \notin Hands
  BY SectionAssumption DEF Threads
<1>2. \A n : (Calm(m))' /\ n \in m => (Calm({n}))'
  BY DEF Calm
<1>3. ASSUME NEW x \in Things, Turns(x) PROVE HeldInv'
  <2>1. (~mixer[x]) \in BOOLEAN
    OBVIOUS
  <2>2. mixer'.level = mixer.level
    BY <1>3, <2>1, Written DEF Turns
  <2> QED
    BY <1>3, <2>2 DEF Turns, HeldInv, Calm, Calling, Touched, TypeOK
<1>4. ASSUME NEW on \in BOOLEAN, KnobEnable(on) \/ KnobParamSet(on) PROVE HeldInv'
  <2>1. mixer'.level = mixer.level
    BY <1>4, Written, Things2 DEF KnobEnable, KnobParamSet
  <2>2. /\ bridge'.value = bridge.value /\ past'.asked = past.asked
        /\ UNCHANGED <<pc, arg, flight, mishaps>>
    BY <1>4 DEF KnobEnable, KnobParamSet, Touched, TypeOK
  <2> QED
    BY <2>1, <2>2 DEF HeldInv, Calm, Calling
<1>5. ASSUME NEW section \in BOOLEAN, NEW pin \in BOOLEAN, NEW v \in Values,
             Lands(section, pin, v)
      PROVE  HeldInv'
  BY <1>5 DEF Lands, HeldInv, Calm, Calling, Touched, TypeOK
<1>6. ASSUME NEW x \in Things, LimitEnds(x) PROVE HeldInv'
  <2>1. bridge'.value = bridge.value /\ UNCHANGED <<mixer, past, pc, arg, flight, mishaps>>
    BY <1>6 DEF LimitEnds, TypeOK
  <2> QED
    BY <2>1 DEF HeldInv, Calm, Calling
<1>7. CASE Ingest \/ Readback
  <2>1. bridge'.value = bridge.value /\ UNCHANGED <<mixer, past, pc, arg, flight, mishaps>>
    BY <1>7 DEF Ingest, Readback, TypeOK
  <2> QED
    BY <2>1 DEF HeldInv, Calm, Calling
<1>8. ASSUME NEW t \in Threads, NEW v \in Values, KnobSet(t, v) PROVE HeldInv'
  <2>1. /\ Enters(t, v) /\ t \in Hands /\ t # Switcher
        /\ UNCHANGED <<bridge, knob, mixer, flight>> /\ past'.asked = past.asked
    BY <1>1, <1>8 DEF KnobSet, TypeOK
  <2>2. (Calm(m))' => Calm(m) /\ Calling' = {t}
    <3>1. (Calm(m))' => Calm(m)
      BY <2>1, Marked DEF Enters
    <3> QED
      BY <1>2, <2>1, <3>1, EntersAlone
  <2>3. pc'[Switcher] = pc[Switcher] /\ arg'[Switcher] = arg[Switcher]
    BY <1>1, <2>1, EntersWhere
  <2> QED
    BY <2>1, <2>2, <2>3 DEF HeldInv
<1>9. ASSUME NEW t \in Threads, NEW l, Inside(t, l), mixer'.level = mixer.level,
             flight' = flight, past'.asked = past.asked
      PROVE  HeldInv'
  <2>1. /\ Calling' = Calling /\ t \in Calling /\ ((Calm(m))' <=> Calm(m))
        /\ Switcher # t => pc'[Switcher] = pc[Switcher]
        /\ arg' = arg /\ bridge'.value = bridge.value
    BY <1>1, <1>9, InsideKeeps DEF Inside
  <2>2. t = Switcher => pc[Switcher] # "waits" /\ pc'[Switcher] \notin {"waits", "held"}
    BY <1>9, InsideKeeps DEF Inside
  <2> QED
    BY <1>9, <2>1, <2>2 DEF HeldInv
<1>10. ASSUME NEW t \in Threads, WritesValue(t) PROVE HeldInv'
  <2>1. /\ t \in Calling /\ Calling' = Calling \ {t} /\ ((Calm(m))' => Calm(m))
        /\ \A u \in Threads : u # t => pc'[u] = pc[u] /\ arg'[u] = arg[u]
    BY <1>10, CallEnds
  <2>2. /\ bridge'.value = arg[t] /\ mixer'.level = arg[t] /\ flight' = flight
        /\ past'.asked = (IF t \in Hands THEN arg[t] ELSE past.asked)
        /\ pc[t] = "value" /\ pc'[t] = "idle" /\ arg' = arg
    BY <1>10 DEF WritesValue, Goto, TypeOK
  <2>3. (Calm(m))' => ~(t \in Hands /\ pc[Switcher] = "held")
    <3>1. (Calm(m))' => Holding("overtaken", t \in Hands /\ pc[Switcher] = "held") \cap m = {}
      BY <1>10, Marked DEF WritesValue
    <3> QED
      BY <3>1 DEF Holding
  <2>4. (Calm(m))' => Calling' = {}
    BY <1>2, <2>1 DEF Alone, Calm
  <2>5. CASE t = Switcher
    BY <1>1, <2>1, <2>2, <2>4, <2>5 DEF HeldInv
  <2>6. CASE t # Switcher
    <3>1. t \in Hands /\ pc'[Switcher] = pc[Switcher]
      BY <1>1, <2>1, <2>6 DEF Threads
    <3> QED
      BY <2>1, <2>2, <2>3, <2>4, <3>1 DEF HeldInv
  <2> QED
    BY <2>5, <2>6
<1>11. ASSUME NEW t \in Threads, Set(t) PROVE HeldInv'
  <2>1. CASE Crosses(t)
    <3> DEFINE on == ~Parked(arg[t])
    <3>1. on \in BOOLEAN /\ Writes("section", on)
      BY <2>1 DEF Crosses, Parked, TypeOK
    <3> HIDE DEF on
    <3>2. mixer'.level = mixer.level
      BY <3>1, Written, Things2
    <3>3. Inside(t, "remembers") /\ flight' = flight /\ past'.asked = past.asked
      BY <2>1, InsideSteps DEF Crosses, TypeOK
    <3> QED
      BY <1>9, <3>2, <3>3
  <2>2. CASE Remembers(t)
    BY <1>9, <2>2, InsideSteps DEF Remembers
  <2>3. CASE AutoEnable(t)
    BY <1>9, <2>3, InsideSteps DEF AutoEnable
  <2>4. CASE Enables(t)
    <3>1. mixer'.level = mixer.level
      BY <2>4, Written, Things2 DEF Enables
    <3> QED
      BY <1>9, <2>4, <3>1, InsideSteps DEF Enables
  <2>5. CASE AssertPins(t)
    <3>1. mixer'.level = mixer.level
      BY <2>5, Written, Things2 DEF AssertPins
    <3> QED
      BY <1>9, <2>5, <3>1, InsideSteps DEF AssertPins
  <2> QED
    BY <1>8, <1>10, <1>11, <2>1, <2>2, <2>3, <2>4, <2>5 DEF Set
<1>12. CASE Recalls
  <2>1. /\ pc[Switcher] = "idle" /\ pc'[Switcher] = "waits"
        /\ UNCHANGED <<bridge, past, mishaps, arg>>
    BY <1>1, <1>12 DEF Recalls, Goto, TypeOK
  <2> QED
    BY <2>1 DEF HeldInv, Calm, Calling
<1>13. CASE Looks
  <2>1. (Calm(m))' => Calm(m) /\ ~flight
    <3>1. (Calm(m))' => Calm(m) /\ (Holding("late", flight)
                          \cup Holding("overtaken", Calling # {})) \cap m = {}
      BY <1>13, Marked DEF Looks
    <3> QED
      BY <3>1 DEF Holding
  <2>2. /\ arg'[Switcher] = bridge.value
        /\ pc'[Switcher] = IF bridge.value = None THEN "idle" ELSE "held"
        /\ UNCHANGED <<bridge, past, mixer, flight>>
    BY <1>1, <1>13 DEF Looks, Goto, TypeOK
  <2>3. Switcher \notin Calling'
    BY <2>2 DEF Calling
  <2> QED
    BY <2>1, <2>2, <2>3 DEF HeldInv
<1>14. CASE Reapplies
  <2>1. /\ Enters(Switcher, arg[Switcher]) /\ arg[Switcher] \in Values
        /\ bridge'.value = bridge.value /\ past'.asked = past.asked /\ flight' = flight
        /\ pc[Switcher] = "held" /\ knob' = knob
    BY <1>1, <1>14 DEF Reapplies, Forgets, TypeOK
  <2>2. (Calm(m))' => Calm(m) /\ Calling' = {Switcher}
    <3>1. (Calm(m))' => Calm(m)
      BY <2>1, Marked DEF Enters
    <3> QED
      BY <1>1, <1>2, <2>1, <3>1, EntersAlone
  <2>3. arg'[Switcher] = arg[Switcher] /\ pc'[Switcher] \notin {"held", "idle"}
    BY <1>1, <2>1, EntersWhere
  <2> QED
    BY <2>1, <2>2, <2>3 DEF HeldInv
<1>15. CASE UNCHANGED vars
  BY <1>15 DEF vars, HeldInv, Calm, Calling
<1> QED
  BY <1>3, <1>4, <1>5, <1>6, <1>7, <1>11, <1>12, <1>13, <1>14, <1>15 DEF Next, Others

\* For any knob: no recall moves it for good.  Mixer and bridge end with the
\* value it was moved to last, unless moves overlap, the recall is late, or a
\* move comes between the look at the value and its assertion.
THEOREM HoldsValue == Spec => []HeldValue
<1>1. TypeOK /\ HeldInv => HeldValue
  BY SectionAssumption DEF HeldValue, HeldInv, Idle, IsSet, Calling, Threads
<1>2. Init => TypeOK /\ Alone /\ HeldInv
  BY TypeInit, AloneInit DEF Init, HeldInv, Calling, Threads
<1>3. TypeOK /\ Alone /\ HeldInv /\ [Next]_vars => (TypeOK /\ Alone /\ HeldInv)'
  BY TypeStep, AloneStep, HeldStep
<1> QED
  BY <1>1, <1>2, <1>3, PTL DEF Spec
=============================================================================
