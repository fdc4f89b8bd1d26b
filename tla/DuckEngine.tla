----------------------------- MODULE DuckEngine -----------------------------
(***************************************************************************)
(* One sidechain duck of tmosc/duck_engine.py: a 25 Hz ticker that lowers  *)
(* the fader of a send by the gain reduction a key channel asks for,       *)
(* beside the people who move the same fader: through the bridge           *)
(* (knob_set, then seed) or in TotalMix.  The bridge never sees the fader: *)
(* it has the level of the last report, which comes late, may be an echo   *)
(* of its own write, and does not come at all for most of them.            *)
(*                                                                         *)
(* A level is a natural number, coarser than WRITE_EPS_DB and              *)
(* RESTORE_MIN_DB; `human` is the one a person chose last.                 *)
(* The circumstances the engine does not cope with are named mishaps: an   *)
(* instance says which may happen, and `calm` that none has.               *)
(***************************************************************************)
EXTENDS Integers, Sequences

CONSTANTS
  Top,          \* levels are 0..Top
  Floor,        \* FLOOR_DB: at or below it there is nothing to duck
  Depth,        \* duck.depth
  ExternalEps,  \* EXTERNAL_EPS_DB
  None,
  Mishaps,      \* the mishaps that may happen: a subset of AllMishaps
  MaxMoves      \* bound: moves, dumps and edits in one behaviour

AllMishaps ==
  {"late",      \* a level is written while a report is under way or unread
   "overlap",   \* knob_set runs during a tick
   "failed",    \* a write is not resolved, or raises, or finds no transport
   "stale",     \* the duck starts when the last report is not the fader
   "unnoticed", \* a person's level is taken for old news or for an echo
   "deleted"}   \* the macro is deleted while it ducks

ASSUME DuckAssumption ==
  /\ Top \in Nat /\ Floor \in Nat /\ Depth \in Nat
  /\ ExternalEps \in Nat
  /\ Floor <= Top
  /\ None \notin 0..Top
  /\ Mishaps \subseteq AllMishaps
  /\ MaxMoves \in Nat

VARIABLES
  pc,        \* where the ticker is
  dev,       \* dev_db of this tick
  from,      \* base as this tick read it
  out,       \* level about to be written
  tracked,   \* whether self.rt has an entry for the macro
  gr, base, written, applied, seen,  \* that entry
  mode,      \* the macro's duck: "enabled", "disabled", or "deleted" with it
  stopping,  \* _knob_watch_stop
  setter,    \* where knob_set is
  turn,      \* level knob_set writes
  fader,     \* the level of the send in TotalMix
  wire,      \* reports on their way to the listener
  report,    \* the listener's level of the send
  unread,    \* whether the ticker has not looked at it yet
  human,     \* the level chosen last, by knob_set or in TotalMix
  moves,
  calm

entry     == <<tracked, gr, base, written, applied, seen>>
tickVars  == <<pc, dev, from, out>>
knobVars  == <<setter, turn>>
config    == <<mode, stopping>>
reports   == <<wire, report, unread>>
mixer     == <<fader, human, reports>>
vars == <<tickVars, entry, knobVars, config, mixer, moves, calm>>

Levels == 0..Top

Near(a, b) == a - b <= ExternalEps /\ b - a <= ExternalEps

\* max(FLOOR_DB, base - gr)
Ducked(b, g) == IF b - g > Floor THEN b - g ELSE Floor

If(kind, happens) == IF happens THEN {kind} ELSE {}

Suffers(kinds) ==
  /\ kinds \subseteq Mishaps
  /\ calm' = (calm /\ kinds = {})

-----------------------------------------------------------------------------
Init ==
  /\ pc = "wait"
  /\ dev = None
  /\ from = None
  /\ out = None
  /\ tracked = FALSE
  /\ gr = 0
  /\ base = None
  /\ written = None
  /\ applied = 0
  /\ seen = None
  /\ mode = "enabled"
  /\ stopping = FALSE
  /\ setter = "idle"
  /\ turn = None
  /\ fader \in Levels
  /\ wire = <<>>
  /\ report \in {None, fader}
  /\ unread = FALSE
  /\ human = fader
  /\ moves = 0
  /\ calm = TRUE

-----------------------------------------------------------------------------
(* The ticker: _tick_one and duck_tick.                                    *)

\* The tick is over, and its locals are gone.
TickEnds ==
  /\ pc' = "wait"
  /\ dev' = None
  /\ from' = None
  /\ out' = None

\* self.rt.setdefault(name, {})
TickBegins ==
  /\ pc = "wait"
  /\ ~stopping
  /\ mode = "enabled"
  /\ pc' = "rebase"
  /\ dev' = report
  /\ unread' = FALSE
  /\ tracked' = TRUE
  /\ Suffers(If("overlap", setter # "idle")
               \cup If("stale", ~tracked /\ report \notin {None, fader}))
  /\ UNCHANGED <<from, out, gr, base, written, applied, seen, knobVars,
                 config, fader, human, wire, report, moves>>

\* The envelope follows the key channel, which may be anything.
Envelope == 0..Depth

IsNews == dev # None /\ dev # seen

ExternalMutant == TRUE

\* Not an echo of the last write.
External == written = None \/ ~Near(dev, written)

\* dev is taken for the level a person chose.
Believed == IsNews /\ External

Adopts ==
  /\ pc = "rebase"
  /\ gr' \in Envelope
  /\ seen' = IF IsNews THEN dev ELSE seen
  /\ base' = IF Believed THEN dev ELSE base
  /\ Suffers(If("unnoticed", dev = human /\ base # dev /\ ~Believed))
  /\ UNCHANGED <<tracked, knobVars, config, mixer, moves>>

LevelUnknown ==
  /\ Adopts
  /\ base' = None
  /\ TickEnds
  /\ UNCHANGED <<written, applied>>

NothingToDuck ==
  /\ Adopts
  /\ base' # None /\ base' <= Floor
  /\ TickEnds
  /\ written' = None
  /\ applied' = 0

Audible ==
  /\ Adopts
  /\ base' # None /\ base' > Floor
  /\ pc' = "record"
  /\ from' = base'
  /\ written' = IF written = None THEN base' ELSE written
  /\ applied' = IF written = None THEN 0 ELSE applied
  /\ UNCHANGED <<dev, out>>

NoWrite ==
  /\ pc = "record"
  /\ written = Ducked(from, gr)
  /\ TickEnds
  /\ UNCHANGED <<entry, knobVars, config, mixer, moves, calm>>

AppliedMutant == applied

\* rt["applied"] = gr
Applied == gr

Record ==
  /\ pc = "record"
  /\ written # Ducked(from, gr)
  /\ pc' = "write"
  /\ out' = Ducked(from, gr)
  /\ written' = Ducked(from, gr)
  /\ applied' = Applied
  /\ UNCHANGED <<dev, from, tracked, gr, base, seen, knobVars, config, mixer,
                 moves, calm>>

\* The ticker has still to hear of something.
Pending == unread \/ wire # <<>>

\* resolve_step and send_message.
Sends ==
  \/ /\ fader' = out
     /\ Suffers(If("late", Pending))
  \/ /\ Suffers({"failed"})
     /\ UNCHANGED fader

Write ==
  /\ pc = "write"
  /\ Sends
  /\ TickEnds
  /\ UNCHANGED <<entry, knobVars, config, human, reports, moves>>

-----------------------------------------------------------------------------
(* _restore: the duck is off, its macro is gone, or the engine stops.      *)

Forgets ==
  /\ tracked' = FALSE
  /\ gr' = 0
  /\ base' = None
  /\ written' = None
  /\ applied' = 0
  /\ seen' = None

Restoring == applied > 0 /\ mode # "deleted"

\* seed is over.
Returns ==
  /\ setter' = "idle"
  /\ turn' = None

\* A seed that has its hands on the entry goes on, but nobody reads it.
Restore ==
  /\ pc = "wait"
  /\ tracked
  /\ stopping \/ mode # "enabled"
  /\ Forgets
  /\ pc' = IF Restoring THEN "restore" ELSE "wait"
  /\ out' = IF Restoring THEN base ELSE out
  /\ IF setter = "seed" THEN UNCHANGED knobVars ELSE Returns
  /\ Suffers(If("overlap", setter # "idle")
               \cup If("deleted", mode = "deleted" /\ applied > 0)
               \cup If("late", Restoring /\ Pending))
  /\ UNCHANGED <<dev, from, config, mixer, moves>>

RestoreWrites ==
  /\ pc = "restore"
  /\ Sends
  /\ TickEnds
  /\ UNCHANGED <<entry, knobVars, config, human, reports, moves>>

Ends ==
  /\ pc = "wait"
  /\ stopping
  /\ ~tracked
  /\ pc' = "gone"
  /\ UNCHANGED <<dev, from, out, entry, knobVars, config, mixer, moves, calm>>

-----------------------------------------------------------------------------
(* knob_set: the write, then seed.                                         *)

Counted == moves < MaxMoves /\ moves' = moves + 1

KnobWrites(l) ==
  /\ Counted
  /\ setter = "idle"
  /\ ~stopping
  /\ mode # "deleted"
  /\ setter' = "seed"
  /\ turn' = l
  /\ fader' = l
  /\ human' = l
  /\ Suffers(If("overlap", pc # "wait")
               \cup If("late", Pending))
  /\ UNCHANGED <<tickVars, entry, config, reports>>

\* No entry: nothing is ducked.
SeedsNothing ==
  /\ setter = "seed"
  /\ ~tracked
  /\ Returns
  /\ UNCHANGED <<tickVars, entry, config, mixer, moves, calm>>

SeededMutant == base

\* "the performer's new un-ducked level"
Seeded == turn

SeedsBase ==
  /\ setter = "seed"
  /\ tracked
  /\ setter' = "seedWritten"
  /\ base' = Seeded
  /\ UNCHANGED <<tickVars, tracked, gr, written, applied, seen, turn, config,
                 mixer, moves, calm>>

SeedsWritten ==
  /\ setter = "seedWritten"
  /\ setter' = "seedApplied"
  /\ written' = turn
  /\ UNCHANGED <<tickVars, tracked, gr, base, applied, seen, turn, config,
                 mixer, moves, calm>>

SeedsApplied ==
  /\ setter = "seedApplied"
  /\ Returns
  /\ applied' = 0
  /\ UNCHANGED <<tickVars, tracked, gr, base, written, seen, config, mixer,
                 moves, calm>>

-----------------------------------------------------------------------------
(* TotalMix, the listener, and whoever edits the configuration.            *)

\* A fader moved in TotalMix is always reported.
FaderMoved(l) ==
  /\ Counted
  /\ fader' = l
  /\ human' = l
  /\ wire' = Append(wire, l)
  /\ UNCHANGED <<tickVars, entry, knobVars, config, report, unread,
                 calm>>

\* A settle readback, /sendall, /sendstate, re-send ON.
Dump ==
  /\ Counted
  /\ wire' = Append(wire, fader)
  /\ UNCHANGED <<tickVars, entry, knobVars, config, fader, human, report,
                 unread, calm>>

Ingest ==
  /\ wire # <<>>
  /\ report' = Head(wire)
  /\ unread' = TRUE
  /\ wire' = Tail(wire)
  /\ UNCHANGED <<tickVars, entry, knobVars, config, fader, human, moves, calm>>

Edit(m) ==
  /\ Counted
  /\ mode \notin {m, "deleted"}
  /\ mode' = m
  /\ UNCHANGED <<tickVars, entry, knobVars, stopping, mixer, calm>>

\* stop_global_osc
Stop ==
  /\ ~stopping
  /\ stopping' = TRUE
  /\ UNCHANGED <<tickVars, entry, knobVars, mode, mixer, moves, calm>>

-----------------------------------------------------------------------------
Tick ==
  \/ TickBegins
  \/ LevelUnknown
  \/ NothingToDuck
  \/ Audible
  \/ NoWrite
  \/ Record
  \/ Write
  \/ Restore
  \/ RestoreWrites
  \/ Ends

SeedStep ==
  \/ SeedsNothing
  \/ SeedsBase
  \/ SeedsWritten
  \/ SeedsApplied

Next ==
  \/ Tick
  \/ SeedStep
  \/ \E l \in Levels : KnobWrites(l) \/ FaderMoved(l)
  \/ Dump
  \/ Ingest
  \/ \E m \in {"enabled", "disabled", "deleted"} : Edit(m)
  \/ Stop

Spec == Init /\ [][Next]_vars

-----------------------------------------------------------------------------
(* Properties.                                                             *)

Known == Levels \cup {None}

\* Every variable keeps its type.
TypeOK ==
  /\ pc \in {"wait", "rebase", "record", "write", "restore", "gone"}
  /\ dev \in Known /\ from \in Known /\ out \in Known
  /\ tracked \in BOOLEAN
  /\ gr \in 0..Depth /\ applied \in 0..Depth
  /\ base \in Known /\ written \in Known /\ seen \in Known
  /\ mode \in {"enabled", "disabled", "deleted"}
  /\ stopping \in BOOLEAN
  /\ setter \in {"idle", "seed", "seedWritten", "seedApplied"}
  /\ turn \in Known
  /\ fader \in Levels /\ human \in Levels
  /\ wire \in Seq(Levels)
  /\ report \in Known
  /\ unread \in BOOLEAN
  /\ moves \in 0..MaxMoves
  /\ calm \in BOOLEAN

\* Whether what people did has reached the entry.
UpToDate == setter = "idle" /\ ~Pending

\* "base = the freshest EXTERNAL device level": without mishaps a tick with
\* nothing left unread takes for its base what a person chose last, and never
\* an echo of the engine's own writes, however many reports, seeds and ticks
\* have gone by.
BaseIsHuman ==
  [][Adopts /\ calm' /\ UpToDate /\ base' # None => base' = human]_vars

\* "leave no send stuck ducked": without mishaps a send the engine has let go
\* is where a person put it last.
NoSendStuck ==
  calm /\ ~tracked /\ pc # "restore" => fader = human

\* "riding the send while it ducks Just Works": a tick that ends without
\* reduction, and with nothing unread, leaves the fader where a person put it.
ReleaseReturns ==
  [][pc # "wait" /\ pc' = "wait" /\ gr' = 0 /\ calm' /\ tracked' /\ UpToDate'
       /\ base' # None => fader' = human']_vars

=============================================================================
