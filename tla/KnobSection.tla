---------------------------- MODULE KnobSection ----------------------------
(***************************************************************************)
(* What a knob writes beside its value (core/knobs.py): the switch of its  *)
(* section (an EQ, a low cut), which one end of its travel turns off and   *)
(* the rest of it on, a pinned companion (a slope), and what happens to    *)
(* all three when a snapshot is recalled under a knob that is held.        *)
(*                                                                         *)
(* The bridge does not hear its own writes: what it thinks of the mixer    *)
(* comes from reports, of moves made elsewhere and of a dump it asks for   *)
(* after a move.  A value is `Off`, the end of the travel that turns the   *)
(* section off, or another.  Writes reach the mixer at once and in order.  *)
(* The knob is one of a channel: a section of the effects gets no dump.    *)
(***************************************************************************)
EXTENDS Naturals, Sequences

CONSTANTS
  Hands,        \* threads that move the knob: web sockets, the broker's thread
  Switcher,     \* the thread that recalls a snapshot
  Values,       \* positions of the knob
  Off,          \* the one at the end of the travel
  None,
  Knobs,        \* the knobs to look at: auto_enable, off_at, a pinned companion
  Mishaps,      \* a subset of AllMishaps
  MaxMoves,     \* bound: moves of the knob
  MaxOthers     \* bound: everything others do to the section, and recalls

AllMishaps ==
  {"overlap",   \* two threads are in knob_set at the same time
   "late",      \* the recall arrives after the knobs have been asserted again
   "overtaken"} \* the knob is moved between the look at its value and the
                \* assertion of that value

Threads == Hands \cup {Switcher}
Things  == {"section", "pin"}     \* what is reported; TRUE: on, as pinned

ASSUME SectionAssumption ==
  /\ Switcher \notin Hands
  /\ Off \in Values /\ None \notin Values /\ None \notin BOOLEAN
  /\ Knobs \subseteq [auto : BOOLEAN, offEnd : BOOLEAN, pinned : BOOLEAN]
  /\ Mishaps \subseteq AllMishaps
  /\ MaxMoves \in Nat /\ MaxOthers \in Nat

VARIABLES
  knob,     \* its configuration
  mixer,    \* per thing, and the value written last
  reports,  \* of the mixer, under way
  seen,     \* per thing: what the listener has of it
  bridge,   \* knob_values, the crossing memo, the two limits of 2 s, and
            \* whether a readback is due
  pc,
  arg,      \* per thread: the value it writes
  flight,   \* whether a recall is under way
  past,     \* the things that nothing but the knob has touched since a move
            \* that could tell (own); the value moved to last
  mishaps,
  count

vars == <<knob, mixer, reports, seen, bridge, pc, arg, flight, past, mishaps, count>>

Idle    == \A t \in Threads : pc[t] = "idle"
Calling == {t \in Threads : pc[t] \notin {"idle", "waits", "held"}}
Calm(m) == mishaps \cap m = {}

Goto(t, l)  == pc' = [pc EXCEPT ![t] = l]
Told(thing) == reports = <<>> /\ ~bridge.readback /\ ~bridge.limit[thing]

Suffers(m) ==
  /\ m \subseteq Mishaps
  /\ mishaps' = mishaps \cup m

Holding(m, condition) == IF condition THEN {m} ELSE {}

-----------------------------------------------------------------------------
(* The mixer: somebody at its controls, a recall that arrives, and dumps.  *)

Reported(thing, on, condition) == IF condition THEN <<<<thing, on>>>> ELSE <<>>

Writes(thing, on) == mixer' = [mixer EXCEPT ![thing] = on]

Touched(things) == past' = [past EXCEPT !.own = @ \ things]

Counted(what, limit) ==
  count[what] < limit /\ count' = [count EXCEPT ![what] = @ + 1]

\* A switch the knob does not move, or a companion that it does not pin, is
\* of no interest.
Watched == {thing \in Things : IF thing = "pin" THEN knob.pinned ELSE knob.auto \/ knob.offEnd}

\* A person at the mixer switches the section, or sets the companion.
Turns(thing) ==
  /\ thing \in Watched
  /\ Counted("others", MaxOthers)
  /\ Writes(thing, ~mixer[thing])
  /\ reports' = Append(reports, <<thing, ~mixer[thing]>>)
  /\ Touched({thing})
  /\ UNCHANGED <<knob, seen, bridge, pc, arg, flight, mishaps>>

\* The snapshot has a value of its own for everything; changes are reported.
Lands(section, pin, v) ==
  /\ flight
  /\ flight' = FALSE
  /\ "pin" \in Watched \/ pin = mixer.pin
  /\ "section" \in Watched \/ section = mixer.section
  /\ mixer' = [section |-> section, pin |-> pin, level |-> v]
  /\ reports' = reports \o Reported("section", section, section # mixer.section)
                       \o Reported("pin", pin, pin # mixer.pin)
  /\ Touched(Things)
  /\ UNCHANGED <<knob, seen, bridge, pc, arg, mishaps, count>>

Ingest ==
  /\ reports # <<>>
  /\ seen' = [seen EXCEPT ![Head(reports)[1]] = Head(reports)[2]]
  /\ reports' = Tail(reports)
  /\ UNCHANGED <<knob, mixer, bridge, pc, arg, flight, past, mishaps, count>>

\* 0.4 s after the last move, longer than a report takes, the channel is dumped.
Readback ==
  /\ bridge.readback /\ reports = <<>>
  /\ bridge' = [bridge EXCEPT !.readback = FALSE]
  /\ reports' = Reported("section", mixer.section, "section" \in Watched)
                \o Reported("pin", mixer.pin, "pin" \in Watched)
  /\ UNCHANGED <<knob, mixer, seen, pc, arg, flight, past, mishaps, count>>

\* 2 s after an automatic write the next may follow.
LimitEnds(thing) ==
  /\ bridge.limit[thing] /\ reports = <<>>
  /\ bridge' = [bridge EXCEPT !.limit[thing] = FALSE]
  /\ UNCHANGED <<knob, mixer, reports, seen, pc, arg, flight, past, mishaps, count>>

-----------------------------------------------------------------------------
(* The switch and the companion, on the knob's card: knob_enable and       *)
(* knob_param_set.                                                         *)

\* Mutant: no readback follows.
KnobEnableMutant(on) ==
  /\ "section" \in Watched
  /\ Counted("others", MaxOthers)
  /\ Writes("section", on)
  /\ bridge' = [bridge EXCEPT !.limit["section"] = TRUE]
  /\ Touched({"section"})
  /\ UNCHANGED <<knob, reports, seen, pc, arg, flight, mishaps>>

KnobEnable(on) ==
  /\ "section" \in Watched
  /\ Counted("others", MaxOthers)
  /\ Writes("section", on)
  /\ bridge' = [bridge EXCEPT !.limit["section"] = TRUE, !.readback = TRUE]
  /\ Touched({"section"})
  /\ UNCHANGED <<knob, reports, seen, pc, arg, flight, mishaps>>

KnobParamSet(on) ==
  /\ "pin" \in Watched
  /\ Counted("others", MaxOthers)
  /\ Writes("pin", on)
  /\ bridge' = [bridge EXCEPT !.readback = TRUE]
  /\ Touched({"pin"})
  /\ UNCHANGED <<knob, reports, seen, pc, arg, flight, mishaps>>

-----------------------------------------------------------------------------
(* knob_set of a knob that resolves.  One that does not changes nothing.   *)

Parked(v) == knob.offEnd /\ v = Off

\* _off_at_min: a crossing is told from the one before, not from the mixer.
Enters(t, v) ==
  /\ Suffers(Holding("overlap", Calling # {}))
  /\ arg' = [arg EXCEPT ![t] = v]
  /\ Goto(t, IF knob.offEnd /\ bridge'.memo # Parked(v) THEN "crosses"
             ELSE IF Parked(v) THEN "pins" ELSE "autoEnable")

\* A move that stays at the end leaves the switch to whoever used it.
KnobSet(t, v) ==
  /\ pc[t] = "idle" /\ t \in Hands
  /\ Counted("moves", MaxMoves)
  /\ UNCHANGED bridge
  /\ Enters(t, v)
  /\ past' = [past EXCEPT
       !.own = @ \cup {thing \in Things : Told(thing) /\ (thing = "section" => ~Parked(v))}]
  /\ UNCHANGED <<knob, mixer, reports, seen, flight>>

Crosses(t) ==
  /\ pc[t] = "crosses"
  /\ Writes("section", ~Parked(arg[t]))
  /\ bridge' = [bridge EXCEPT !.limit["section"] = TRUE]
  /\ past' = [past EXCEPT !.own = @ \cup {"section"}]
  /\ Goto(t, "remembers")
  /\ UNCHANGED <<knob, reports, seen, arg, flight, mishaps, count>>

Remembers(t) ==
  /\ pc[t] = "remembers"
  /\ bridge' = [bridge EXCEPT !.memo = Parked(arg[t])]
  /\ Goto(t, IF Parked(arg[t]) THEN "pins" ELSE "autoEnable")
  /\ UNCHANGED <<knob, mixer, reports, seen, arg, flight, past, mishaps, count>>

\* Mutant: a switch nothing is known of is left alone.
NeedsEnableMutant == knob.auto /\ seen["section"] = FALSE /\ ~bridge.limit["section"]

\* _auto_enable, unless the section is known to be on.
NeedsEnable == knob.auto /\ seen["section"] # TRUE /\ ~bridge.limit["section"]

AutoEnable(t) ==
  /\ pc[t] = "autoEnable"
  /\ Goto(t, IF NeedsEnable THEN "enables" ELSE "pins")
  /\ UNCHANGED <<knob, mixer, reports, seen, bridge, arg, flight, past, mishaps, count>>

Enables(t) ==
  /\ pc[t] = "enables"
  /\ Writes("section", TRUE)
  /\ bridge' = [bridge EXCEPT !.limit["section"] = TRUE]
  /\ Goto(t, "pins")
  /\ UNCHANGED <<knob, reports, seen, arg, flight, past, mishaps, count>>

\* Mutant: a companion nothing is known of is left alone.
NeedsPinMutant == knob.pinned /\ seen["pin"] = FALSE /\ ~bridge.limit["pin"]

\* _assert_pins
NeedsPin == knob.pinned /\ seen["pin"] # TRUE /\ ~bridge.limit["pin"]

AssertPins(t) ==
  /\ pc[t] = "pins"
  /\ IF NeedsPin
       THEN /\ Writes("pin", TRUE)
            /\ bridge' = [bridge EXCEPT !.limit["pin"] = TRUE]
       ELSE UNCHANGED <<mixer, bridge>>
  /\ Goto(t, "value")
  /\ UNCHANGED <<knob, reports, seen, arg, flight, past, mishaps, count>>

\* Mutant: a knob at its end writes no value.
WritesValueMutant(t) ==
  /\ pc[t] = "value"
  /\ mixer' = IF Parked(arg[t]) THEN mixer ELSE [mixer EXCEPT !.level = arg[t]]
  /\ bridge' = [bridge EXCEPT !.value = arg[t], !.readback = TRUE]
  /\ past' = [past EXCEPT !.asked = IF t \in Hands THEN arg[t] ELSE @]
  /\ Suffers(Holding("overtaken", t \in Hands /\ pc[Switcher] = "held"))
  /\ Goto(t, "idle")
  /\ UNCHANGED <<knob, reports, seen, arg, flight, count>>

\* The value, and knob_values; KnobStream has these steps apart.
WritesValue(t) ==
  /\ pc[t] = "value"
  /\ mixer' = [mixer EXCEPT !.level = arg[t]]
  /\ bridge' = [bridge EXCEPT !.value = arg[t], !.readback = TRUE]
  /\ past' = [past EXCEPT !.asked = IF t \in Hands THEN arg[t] ELSE @]
  /\ Suffers(Holding("overtaken", t \in Hands /\ pc[Switcher] = "held"))
  /\ Goto(t, "idle")
  /\ UNCHANGED <<knob, reports, seen, arg, flight, count>>

-----------------------------------------------------------------------------
(* A recall, by a macro, a click or the broker: the command, a wait for an *)
(* answer that is not insisted on, and reapply_held_knobs.                 *)

Recalls ==
  /\ pc[Switcher] = "idle"
  /\ ~flight
  /\ Counted("others", MaxOthers)
  /\ flight' = TRUE
  /\ Goto(Switcher, "waits")
  /\ UNCHANGED <<knob, mixer, reports, seen, bridge, arg, past, mishaps>>

Looks ==
  /\ pc[Switcher] = "waits"
  /\ Suffers(Holding("late", flight) \cup Holding("overtaken", Calling # {}))
  /\ arg' = [arg EXCEPT ![Switcher] = bridge.value]
  /\ Goto(Switcher, IF bridge.value = None THEN "idle" ELSE "held")
  /\ UNCHANGED <<knob, mixer, reports, seen, bridge, flight, past, count>>

\* Mutant: the crossing memo survives a recall.
ForgetsMutant == [bridge EXCEPT !.limit = [thing \in Things |-> FALSE]]

Forgets == [bridge EXCEPT !.memo = None, !.limit = [thing \in Things |-> FALSE]]

Reapplies ==
  /\ pc[Switcher] = "held"
  /\ bridge' = Forgets
  /\ Enters(Switcher, arg[Switcher])
  /\ past' = [past EXCEPT
       !.own = @ \cup (IF reports = <<>> /\ ~bridge.readback THEN Things
                       ELSE Holding("section", Parked(arg[Switcher])))]
  /\ UNCHANGED <<knob, mixer, reports, seen, flight, count>>

-----------------------------------------------------------------------------
Init ==
  /\ knob \in Knobs
  /\ mixer \in [section : BOOLEAN, pin : BOOLEAN, level : {Off}]
  /\ \A thing \in Things \ Watched : ~mixer[thing]
  /\ reports = <<>>
  /\ seen \in [Things -> {None}] \cup {[thing \in Things |-> mixer[thing]]}
  /\ bridge = [value |-> None, memo |-> None, readback |-> FALSE,
               limit |-> [thing \in Things |-> FALSE]]
  /\ pc = [t \in Threads |-> "idle"]
  /\ arg = [t \in Threads |-> None]
  /\ flight = FALSE
  /\ past = [own |-> {}, asked |-> None]
  /\ mishaps = {}
  /\ count = [moves |-> 0, others |-> 0]

Set(t) ==
  \/ \E v \in Values : KnobSet(t, v)
  \/ Crosses(t) \/ Remembers(t) \/ AutoEnable(t) \/ Enables(t)
  \/ AssertPins(t) \/ WritesValue(t)

Others ==
  \/ \E thing \in Things : Turns(thing) \/ LimitEnds(thing)
  \/ \E section, pin \in BOOLEAN, v \in Values : Lands(section, pin, v)
  \/ Ingest \/ Readback
  \/ \E on \in BOOLEAN : KnobEnable(on) \/ KnobParamSet(on)

Next == Others \/ (\E t \in Threads : Set(t)) \/ Recalls \/ Looks \/ Reapplies

Spec == Init /\ [][Next]_vars

-----------------------------------------------------------------------------
Locations == {"idle", "waits", "held", "crosses", "remembers",
              "autoEnable", "enables", "pins", "value"}

\* Types, where each thread can be, and what its place says of the knob.
TypeOK ==
  /\ knob \in Knobs
  /\ mixer \in [section : BOOLEAN, pin : BOOLEAN, level : Values]
  /\ reports \in Seq(Things \X BOOLEAN)
  /\ seen \in [Things -> BOOLEAN \cup {None}]
  /\ bridge \in [value : Values \cup {None}, memo : BOOLEAN \cup {None},
                 readback : BOOLEAN, limit : [Things -> BOOLEAN]]
  /\ pc \in [Threads -> Locations]
  /\ \A t \in Hands : pc[t] \notin {"waits", "held"}
  /\ arg \in [Threads -> Values \cup {None}]
  /\ \A t \in Threads : pc[t] \notin {"idle", "waits"} => arg[t] # None
  /\ \A t \in Threads : pc[t] \in {"crosses", "remembers"} => knob.offEnd
  /\ flight \in BOOLEAN
  /\ past \in [own : SUBSET Things, asked : Values \cup {None}]
  /\ mishaps \subseteq Mishaps
  /\ count \in [moves : Nat, others : Nat]

IsSet == bridge.value # None

\* A knob that is moved off its end leaves its section on: unless somebody
\* has switched it off since, and however stale the bridge's view of the
\* switch was, as long as the move came when all had been told.
PlayedIsOn ==
  (Idle /\ IsSet /\ knob.auto /\ ~Parked(bridge.value) /\ "section" \in past.own
     /\ Calm({"overlap"})) => mixer.section

\* A knob at its end has its section off: since it came there, or since a
\* recall was followed by the assertion of held knobs, whatever the bridge
\* still thought of the switch.
ParkedIsOff ==
  (Idle /\ IsSet /\ Parked(bridge.value) /\ "section" \in past.own
     /\ Calm({"overlap"})) => ~mixer.section

\* A pinned companion has its value after a move that could tell, and nobody
\* but the knob touched it; the limit for the section does not delay it.
PinHolds ==
  (Idle /\ IsSet /\ knob.pinned /\ "pin" \in past.own) => mixer.pin

\* A recall never moves a held knob: mixer and bridge have the value it was
\* moved to last, whenever during the switch that was.
HeldValue ==
  (Idle /\ IsSet /\ Calm({"overlap", "late", "overtaken"})) =>
    mixer.level = past.asked /\ bridge.value = past.asked

\* Once the reports are in and no readback is due, the bridge is right about
\* the switch and the companion, which its own writes did not tell it.
KnowsMixer ==
  (reports = <<>> /\ ~bridge.readback /\ Calling = {}) =>
    \A thing \in Watched : seen[thing] \in {None, mixer[thing]}

=============================================================================
