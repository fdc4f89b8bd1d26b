----------------------------- MODULE ClassicAim -----------------------------
(***************************************************************************)
(* How a write finds its channel over classic OSC: core/transport.py, the  *)
(* step loop of run_macro and the listener (osc_listener.py) they wait on. *)
(* The mixer has one selected row, one bank position and one submix, which *)
(* every address is relative to.  A holder of the device lock moves them,  *)
(* waits for a dump of what they show now, writes, and moves them back.    *)
(*                                                                         *)
(* A channel's name is the set of hardware channels its strip controls: a  *)
(* stereo link makes one strip, with one name, of two.  All rows use the   *)
(* same names.  Commands reach the mixer at once, what it says about them  *)
(* travels in order.  A wait may run out whenever it likes: that it does   *)
(* so too early is one of the mishaps; a `calm` behaviour has none.        *)
(***************************************************************************)
EXTENDS Integers, Sequences, FiniteSets

CONSTANTS
  Channels,     \* hardware channels of a row
  Layouts,      \* ways to link them
  Strips,       \* per layout: its strips, each a set of channels
  Submixes,     \* the mixer's outputs, by name
  Start,        \* per row: what the physical table makes of a channel's name
  Macros,       \* what may be run under the device lock: sequences of steps
  None,
  Mishaps,      \* a subset of AllMishaps
  MaxRuns,      \* bound: runs in one behaviour
  MaxHands,     \* bound: moves of a person at the mixer
  MaxTicks      \* bound: values of an operation

Rows == 1..3    \* inputs, playbacks, outputs
Hw   == 0..(Channels - 1)

AllMishaps ==
  {"lost",    \* a datagram, either way
   "early",   \* a wait runs out while something is under way
   "late",    \* a read of page 2 or 3 is answered by an earlier dump
   "moved",   \* a person moves the mixer during a run
   "blind",   \* the stored address is used, as nothing is heard
   "raised"}  \* an exception ends a resolution

Kinds == {"send", "mute",                 \* a strip of page 1
          "detail", "enable", "pulse",    \* the channel page 2 is aimed at
          "fx", "raw", "select", "switch", "probe", "outputs", "sweep"}

Page2 == {"detail", "enable", "pulse"}

\* A step names what its kind needs, the rest is immaterial.
Steps == [kind : Kinds, row : Rows, ch : SUBSET Int, sub : STRING \cup Submixes,
          on : BOOLEAN]

\* What the strips of a dump depend on.
Views == [row : Rows, bank : Hw, layout : Layouts]

ASSUME AimAssumption ==
  /\ Channels \in Nat \ {0}
  /\ Strips \in [Layouts -> Seq(SUBSET Hw)]
  /\ \A l \in Layouts, h \in Hw : \E i \in DOMAIN Strips[l] : h \in Strips[l][i]
  /\ \A l \in Layouts : \A i, j \in DOMAIN Strips[l] :  \* from left to right
       /\ Strips[l][i] # {}
       /\ i < j => \A g \in Strips[l][i], h \in Strips[l][j] : g < h
  /\ DOMAIN Start = Rows
  /\ \A r \in Rows : \A ch \in DOMAIN Start[r] : Start[r][ch] \in ch \cap Hw
  /\ Macros \subseteq Seq(Steps)
  /\ \A m \in Macros : \A i, j \in DOMAIN m :  \* a sweep is no macro
       m[i].kind = "sweep" => m[j].kind = "sweep"
  /\ \A m \in Macros : \A i \in DOMAIN m :     \* a channel has a name
       m[i].kind \in {"send", "mute"} => m[i].ch # {}
  /\ None \notin Submixes \cup Views
  /\ Mishaps \subseteq AllMishaps
  /\ MaxRuns \in Nat /\ MaxHands \in Nat /\ MaxTicks \in Nat

VARIABLES
  mixer,      \* row, bank, submix, layout, buttons, which of "row" and "bank" a
              \* person set last (hand), and what it says, under way (out)
  state,      \* DeviceState: row, label, the strips of each bank, last answers
  since,      \* kinds of message that came since the code last noted a count
  listener,   \* where _handle is
  wait,       \* where the run is in wait_for
  pc,
  macro,
  step,
  strip,      \* resolved strip of page 1
  button,     \* state of a button as far as the run knows
  ticks,      \* values of an operation so far, offsets of a sweep so far
  bankDirty,
  runs, hands,
  mishaps     \* those that have happened

heard  == <<state, since>>
plan   == <<macro, step>>
work   == <<strip, button, ticks, bankDirty>>
env    == <<runs, hands>>
vars   == <<mixer, heard, listener, wait, pc, plan, work, env, mishaps>>

If(kind, happens) == IF happens THEN {kind} ELSE {}

calm == mishaps = {}

\* Bound: a mishap is followed by no other but what comes of it.
Suffers(kinds) ==
  /\ kinds \subseteq Mishaps
  /\ kinds \subseteq {"late", "blind"} \/ calm
  /\ mishaps' = mishaps \cup kinds

S == macro[step]

-----------------------------------------------------------------------------
(* The mixer (external).                                                   *)

\* What a strip shows: bank b starts with the strip of channel b.
Shown(v, s) ==
  LET all   == Strips[v.layout]
      first == CHOOSE i \in DOMAIN all : v.bank \in all[i]
  IN  IF first + s - 1 \in DOMAIN all THEN all[first + s - 1] ELSE {}

View(x) == [row |-> x.row, bank |-> x.bank, layout |-> x.layout]

\* Page 1: submix and row, "VALUES FIRST and TRACKNAMES LAST".
Dump(x) ==
  <<[kind |-> "values", sub |-> x.submix, row |-> x.row],
    [kind |-> "names", view |-> View(x)]>>

\* A change is dumped, a command that changes nothing is not.
Changed(x, y) == IF x = y THEN x ELSE [y EXCEPT !.out = @ \o Dump(y)]

MovesRow(x, r)    == Changed(x, [x EXCEPT !.row = r])
MovesBank(x, b)   == Changed(x, [x EXCEPT !.bank = b])
MovesSubmix(x, s) == Changed(x, [x EXCEPT !.submix = s])
MovesLayout(x, l) == Changed(x, [x EXCEPT !.layout = l])

ByHand(x, what) == [x EXCEPT !.hand = @ \cup {what}]

\* The commands of the bridge.
ToRow(x, r)    == [MovesRow(x, r) EXCEPT !.hand = @ \ {"row"}]
ToBank(x, b)   == [MovesBank(x, b) EXCEPT !.hand = @ \ {"bank"}]
ToSubmix(x, s) == MovesSubmix(x, s)

\* Page 2 acts on the strip the bank starts with.  Each has its own button.
Enabled(x) == Shown(x, 1) \in x.enabled[x.row]
Press(x) ==
  [x EXCEPT !.enabled[x.row] = IF Enabled(x) THEN @ \ {Shown(x, 1)}
                                             ELSE @ \cup {Shown(x, 1)}]
PressFx(x) == [x EXCEPT !.fx = ~@]

\* A read asks: what is under way by then is not its answer.
Asked(x) ==
  [x EXCEPT !.out =
     [i \in DOMAIN @ |-> IF @[i].kind \in {"track", "enable", "fx"}
                           THEN [@[i] EXCEPT !.old = TRUE] ELSE @[i]]]

\* /2/busX sets the row like /1/busX, and dumps page 2 in any case.
Mirror(x, r) ==
  LET y == ToRow(x, r)
  IN  [y EXCEPT !.out =
         @ \o <<[kind |-> "track", ch |-> Shown(y, 1), old |-> FALSE],
                [kind |-> "enable", on |-> Enabled(y), old |-> FALSE]>>]

\* /3/faderGroups/1/1 changes nothing and dumps page 3.
MirrorFx(x) ==
  [x EXCEPT !.out = Append(@, [kind |-> "fx", on |-> x.fx, old |-> FALSE])]

\* The k-th command of a step is lost, or it arrives.
Sent(k, lost, x, y) == IF k = lost THEN x ELSE y

-----------------------------------------------------------------------------
(* DeviceState.ingest.                                                     *)

\* Output strips are filed under no submix.
Place(sub, row) == <<IF row = 3 THEN None ELSE sub, row>>

Places == ((Submixes \cup {None}) \X {1, 2}) \cup {<<None, 3>>}

\* Values stamp a strip as fresh whatever its name is.
Stamped(d, sub, row) ==
  [d EXCEPT !.label = sub, !.row = row, !.strips[Place(sub, row)].seen = TRUE]

Ingested(d, msg) ==
  CASE msg.kind = "values" -> Stamped(d, msg.sub, msg.row)
    [] msg.kind = "names"  -> [d EXCEPT !.strips[Place(d.label, d.row)] =
                                 [view |-> msg.view, seen |-> TRUE]]
    [] msg.kind = "track"  -> [d EXCEPT !.track = [ch |-> msg.ch, old |-> msg.old]]
    [] msg.kind = "enable" -> [d EXCEPT !.enable = [on |-> msg.on, old |-> msg.old]]
    [] msg.kind = "fx"     -> [d EXCEPT !.fx = [on |-> msg.on, old |-> msg.old]]

\* A floor newer than everything: no strip is fresh.
Floored(d) ==
  [d EXCEPT !.strips = [p \in Places |-> [d.strips[p] EXCEPT !.seen = FALSE]]]

-----------------------------------------------------------------------------
(* _match_in and find_strip.                                               *)

\* _names_cover, and the aliases of the physical table.
Covers(shown, wanted) == shown \cap wanted # {}

Lowest(strips) == {s \in strips : \A t \in strips : s <= t}

\* The exact name first, a strip that covers it second.
MatchIn(place) ==
  LET bank  == state.strips[place]
      fresh == IF bank.seen /\ bank.view # None THEN 1..Channels ELSE {}
      exact == {s \in fresh : Shown(bank.view, s) = S.ch}
      cover == {s \in fresh : Covers(Shown(bank.view, s), S.ch)}
  IN  IF exact # {} THEN Lowest(exact) ELSE Lowest(cover)

\* A send is looked up under its submix, where no output strip is; a mute in the
\* current bank first and then in any.
Found ==
  IF S.kind = "send"
  THEN IF state.label = S.sub /\ S.row # 3 THEN MatchIn(Place(S.sub, S.row)) ELSE {}
  ELSE LET here == MatchIn(Place(state.label, S.row))
       IN  IF here # {} THEN here
           ELSE UNION {MatchIn(p) : p \in {q \in Places : q[2] = S.row}}

-----------------------------------------------------------------------------
(* wait_for: look, register, look again, sleep.  Each place of the run that *)
(* waits has its predicate.                                                *)

Waiting == {"label", "match", "settle", "track", "enable", "fx", "any"}

Holds ==
  CASE pc = "label" -> state.label = S.sub
    [] pc = "match" -> Found # {}
    [] pc = "settle" -> "any" \in since
    [] OTHER -> pc \in since

\* The code notes the count of what it is about to wait for.
Notes(kind) == since' = since \ {kind}

Waits(at) ==
  /\ pc' = at
  /\ wait' = "look"

\* A message may have come since the first look.
Registers ==
  /\ wait = "look"
  /\ wait' = "armed"
  /\ UNCHANGED <<mixer, heard, listener, pc, plan, work, env, mishaps>>

\* Mutant: there is no second look.
LooksAgainMutant ==
  /\ wait = "armed"
  /\ wait' = "asleep"
  /\ UNCHANGED <<mixer, heard, listener, pc, plan, work, env, mishaps>>

LooksAgain ==
  /\ wait = "armed"
  /\ ~Holds
  /\ wait' = "asleep"
  /\ UNCHANGED <<mixer, heard, listener, pc, plan, work, env, mishaps>>

\* The waiter leaves the list: a _handle that has copied it wakes nobody.
Leaves == listener' = IF listener = "evaluating" THEN "idle" ELSE listener

\* wait_for returns True.
Satisfied(at) ==
  /\ pc = at
  /\ \/ wait \in {"look", "armed"} /\ Holds
     \/ wait = "woken"
  /\ Leaves

\* Nothing is under way.
Quiet == mixer.out = <<>> /\ listener = "idle"

\* wait_for returns False.
TimesOut(at) ==
  /\ pc = at
  /\ wait = "asleep"
  /\ Leaves

-----------------------------------------------------------------------------
(* The listener's thread: _handle.                                         *)

Ingests ==
  /\ listener = "idle"
  /\ mixer.out # <<>>
  /\ state' = Ingested(state, Head(mixer.out))
  /\ since' = since \cup {"any", Head(mixer.out).kind}
  /\ mixer' = [mixer EXCEPT !.out = Tail(@)]
  /\ listener' = "ingested"
  /\ UNCHANGED <<wait, pc, plan, work, env, mishaps>>

\* list(self._waiters)
Copies ==
  /\ listener = "ingested"
  /\ listener' = IF wait \in {"armed", "asleep"} THEN "evaluating" ELSE "idle"
  /\ UNCHANGED <<mixer, heard, wait, pc, plan, work, env, mishaps>>

Wakes ==
  /\ listener = "evaluating"
  /\ listener' = "idle"
  /\ wait' = IF Holds THEN "woken" ELSE wait
  /\ UNCHANGED <<mixer, heard, pc, plan, work, env, mishaps>>

\* A datagram of the mixer's is lost.
Drops ==
  /\ mixer.out # <<>>
  /\ mixer' = [mixer EXCEPT !.out = Tail(@)]
  /\ Suffers({"lost"})
  /\ UNCHANGED <<heard, listener, wait, pc, plan, work, env>>

-----------------------------------------------------------------------------
(* A run: what holds the device lock.                                      *)

At(kinds) == pc = "steps" /\ step \in DOMAIN macro /\ S.kind \in kinds

NextStep == step' = step + 1 /\ pc' = "steps"

\* Mutant: the steps are counted from 0.
BeginsMutant(m) ==
  /\ pc = "idle"
  /\ runs < MaxRuns
  /\ runs' = runs + 1
  /\ macro' = m
  /\ step' = 0
  /\ pc' = "steps"
  /\ UNCHANGED <<mixer, heard, listener, wait, work, hands, mishaps>>

Begins(m) ==
  /\ pc = "idle"
  /\ runs < MaxRuns
  /\ runs' = runs + 1
  /\ macro' = m
  /\ step' = 1
  /\ pc' = "steps"
  /\ UNCHANGED <<mixer, heard, listener, wait, work, hands, mishaps>>

\* A snapshot is recalled before the first step (SwitchBelief has the wait).
Switches(l) ==
  /\ At({"switch"})
  /\ mixer' = MovesLayout(mixer, l)
  /\ NextStep
  /\ UNCHANGED <<heard, listener, wait, macro, work, env, mishaps>>

\* A raw address is written as it stands.
PlaysRaw ==
  /\ At({"raw"})
  /\ NextStep
  /\ UNCHANGED <<mixer, heard, listener, wait, macro, work, env, mishaps>>

\* A raw /setSubmix: "membership in the MEASURED physical outputs table".
Selects ==
  /\ At({"select"})
  /\ S.sub \in Submixes
  /\ mixer' = ToSubmix(mixer, S.sub)
  /\ NextStep
  /\ UNCHANGED <<heard, listener, wait, macro, work, env, mishaps>>

\* "The whole macro stops on refusal".
Aborts ==
  /\ At({"select"})
  /\ S.sub \notin Submixes
  /\ pc' = "finally"
  /\ UNCHANGED <<mixer, heard, listener, wait, plan, work, env, mishaps>>

-----------------------------------------------------------------------------
(* _resolve_target: a strip of page 1.                                     *)

\* Not in the physical table; what page 2 shows, playbacks do not have.
Unmeasured ==
  /\ \/ At({"send"}) /\ S.sub \notin Submixes
     \/ At(Page2) /\ (S.row = 2 \/ S.ch \notin DOMAIN Start[S.row])
  /\ pc' = "refused"
  /\ UNCHANGED <<mixer, heard, listener, wait, plan, work, env, mishaps>>

\* Bank, row, the time, submix.
AimsSend ==
  /\ At({"send"})
  /\ S.sub \in Submixes
  /\ \E lost \in 0..3 :
       LET bank == Sent(1, lost, mixer, ToBank(mixer, 0))
           row  == Sent(2, lost, bank, ToRow(bank, S.row))
       IN  /\ mixer' = Sent(3, lost, row, ToSubmix(row, S.sub))
           /\ Suffers(If("lost", lost # 0))
  /\ state' = Floored(state)
  /\ Notes("values")
  /\ Waits("label")
  /\ UNCHANGED <<listener, plan, work, env>>

\* "Mute is GLOBAL-per-channel": no submix.
AimsMute ==
  /\ At({"mute"})
  /\ \E lost \in 0..2 :
       LET bank == Sent(1, lost, mixer, ToBank(mixer, 0))
       IN  /\ mixer' = Sent(2, lost, bank, ToRow(bank, S.row))
           /\ Suffers(If("lost", lost # 0))
  /\ state' = Floored(state)
  /\ pc' = "provoke"
  /\ UNCHANGED <<since, listener, wait, plan, work, env>>

LabelSeen ==
  /\ Satisfied("label")
  /\ pc' = "provoke"
  /\ wait' = "off"
  /\ UNCHANGED <<mixer, heard, plan, work, env, mishaps>>

\* "a CONFIRMED DIFFERENT label": refused.
WrongLabel ==
  /\ TimesOut("label")
  /\ "values" \in since
  /\ state.label # S.sub
  /\ Suffers(If("early", ~Quiet))
  /\ pc' = "refused"
  /\ wait' = "off"
  /\ UNCHANGED <<mixer, heard, plan, work, env>>

\* "SILENCE": the step's own address is written, whatever it means by now.
NoLabel(s) ==
  /\ TimesOut("label")
  /\ "values" \notin since \/ state.label = S.sub
  /\ Suffers({"blind"})
  /\ pc' = "write"
  /\ wait' = "off"
  /\ strip' = s
  /\ UNCHANGED <<mixer, heard, plan, button, ticks, bankDirty, env>>

\* Of two rows one is a change.
OtherRow == IF S.row = 1 THEN 2 ELSE 1

\* Mutant: the row is commanded that is selected already, nothing is dumped.
ProvokesMutant ==
  /\ pc = "provoke"
  /\ Found = {}
  /\ mixer' = ToRow(mixer, S.row)
  /\ Waits("match")
  /\ UNCHANGED <<heard, listener, plan, work, env, mishaps>>

Provokes ==
  /\ pc = "provoke"
  /\ Found = {}
  /\ \E lost \in 0..2 :
       LET other == Sent(1, lost, mixer, ToRow(mixer, OtherRow))
       IN  /\ mixer' = Sent(2, lost, other, ToRow(other, S.row))
           /\ Suffers(If("lost", lost # 0))
  /\ Waits("match")
  /\ UNCHANGED <<heard, listener, plan, work, env>>

AlreadyFresh ==
  /\ pc = "provoke"
  /\ Found # {}
  /\ Waits("match")
  /\ UNCHANGED <<mixer, heard, listener, plan, work, env, mishaps>>

\* "Never match mid-burst": wait until nothing comes any more.
Candidate ==
  /\ Satisfied("match")
  /\ Notes("any")
  /\ Waits("settle")
  /\ UNCHANGED <<mixer, state, plan, work, env, mishaps>>

StillStreaming ==
  /\ Satisfied("settle")
  /\ Notes("any")
  /\ Waits("settle")
  /\ UNCHANGED <<mixer, state, plan, work, env, mishaps>>

\* Mutant: the first candidate is taken.
SettledMutant ==
  /\ Satisfied("settle")
  /\ \E s \in Found : strip' = s
  /\ pc' = "write"
  /\ wait' = "off"
  /\ UNCHANGED <<mixer, heard, plan, button, ticks, bankDirty, env, mishaps>>

\* Quiet for SETTLE_S, or the deadline: match again.
Settled ==
  /\ TimesOut("settle")
  /\ Suffers(If("early", ~Quiet))
  /\ \E s \in Found : strip' = s
  /\ pc' = "write"
  /\ wait' = "off"
  /\ UNCHANGED <<mixer, heard, plan, button, ticks, bankDirty, env>>

Unsettled ==
  /\ TimesOut("settle")
  /\ Suffers(If("early", ~Quiet))
  /\ Found = {}
  /\ Waits("match")
  /\ UNCHANGED <<mixer, heard, plan, work, env>>

\* "channel is NOT in the live bank".
NotInBank ==
  /\ TimesOut("match")
  /\ Suffers(If("early", ~Quiet))
  /\ pc' = "refused"
  /\ wait' = "off"
  /\ UNCHANGED <<mixer, heard, plan, work, env>>

-----------------------------------------------------------------------------
(* _resolve_target and _confirm_page2_aim: the channel of page 2.          *)

\* Row, bank, and the mirror of the row that was commanded.
AimsPage2 ==
  /\ At(Page2)
  /\ S.row # 2
  /\ S.ch \in DOMAIN Start[S.row]
  /\ \E lost \in 0..3 :
       LET row  == Sent(1, lost, Asked(mixer), ToRow(Asked(mixer), S.row))
           bank == Sent(2, lost, row, ToBank(row, Start[S.row][S.ch]))
       IN  /\ mixer' = Sent(3, lost, bank, Mirror(bank, S.row))
           /\ Suffers(If("lost", lost # 0))
  /\ Notes("track")
  /\ Waits("track")
  /\ UNCHANGED <<state, listener, plan, work, env>>

\* Mutant: whatever page 2 shows, it is taken for the channel.
ConfirmsMutant ==
  /\ Satisfied("track")
  /\ S.kind \in Page2
  /\ Suffers(If("late", state.track.old))
  /\ pc' = IF S.kind = "detail" THEN "write" ELSE "read"
  /\ wait' = "off"
  /\ bankDirty' = TRUE
  /\ UNCHANGED <<mixer, heard, plan, strip, button, ticks, env>>

\* "compute, CONFIRM, then act".
Confirms ==
  /\ Satisfied("track")
  /\ S.kind \in Page2
  /\ Covers(state.track.ch, S.ch)
  /\ Suffers(If("late", state.track.old))
  /\ pc' = IF S.kind = "detail" THEN "write" ELSE "read"
  /\ wait' = "off"
  /\ bankDirty' = TRUE
  /\ UNCHANGED <<mixer, heard, plan, strip, button, ticks, env>>

\* "restore what the failed aim changed"
Restores(kinds) ==
  \E lost \in 0..2 :
    LET bank == Sent(1, lost, mixer, ToBank(mixer, 0))
    IN  /\ mixer' = Sent(2, lost, bank, ToRow(bank, 1))
        /\ Suffers(kinds \cup If("lost", lost # 0))

Misaimed ==
  /\ Satisfied("track")
  /\ S.kind \in Page2
  /\ ~Covers(state.track.ch, S.ch)
  /\ Restores(If("late", state.track.old))
  /\ pc' = "refused"
  /\ wait' = "off"
  /\ UNCHANGED <<heard, plan, work, env>>

Unconfirmed ==
  /\ TimesOut("track")
  /\ S.kind \in Page2
  /\ Restores(If("early", ~Quiet))
  /\ pc' = "refused"
  /\ wait' = "off"
  /\ UNCHANGED <<heard, plan, work, env>>

\* "step skipped": the next one is tried.
Skips ==
  /\ pc = "refused"
  /\ NextStep
  /\ UNCHANGED <<mixer, heard, listener, wait, macro, work, env, mishaps>>

\* An exception out of a resolution that has sent something: the bank was not
\* noted as dirty yet.
Raises ==
  /\ pc \in {"label", "match", "settle", "track"}
  /\ Suffers({"raised"})
  /\ Leaves
  /\ pc' = "finally"
  /\ wait' = "off"
  /\ UNCHANGED <<mixer, heard, plan, work, env>>

-----------------------------------------------------------------------------
(* _read_button_state, _set_button_state, _EdgeToggleClient.               *)

ReadsEnable ==
  /\ pc = "read"
  /\ \E lost \in 0..1 :
       /\ mixer' = Sent(1, lost, Asked(mixer), Mirror(Asked(mixer), S.row))
       /\ Suffers(If("lost", lost # 0))
  /\ Notes("enable")
  /\ Waits("enable")
  /\ UNCHANGED <<state, listener, plan, work, env>>

ReadsFx ==
  /\ At({"fx"})
  /\ \E lost \in 0..1 :
       /\ mixer' = Sent(1, lost, Asked(mixer), MirrorFx(Asked(mixer)))
       /\ Suffers(If("lost", lost # 0))
  /\ Notes("fx")
  /\ Waits("fx")
  /\ UNCHANGED <<state, listener, plan, work, env>>

Answer == IF pc = "fx" THEN state.fx ELSE state.enable

ButtonRead ==
  /\ \E at \in {"enable", "fx"} : Satisfied(at)
  /\ Suffers(If("late", Answer.old))
  /\ button' = Answer.on
  /\ ticks' = 0
  /\ pc' = IF S.kind = "pulse" THEN "pulse" ELSE "set"
  /\ wait' = "off"
  /\ UNCHANGED <<mixer, heard, plan, strip, bankDirty, env>>

\* "a blind press is a coin flip, refuse instead".  The step of an operation is
\* left without the restore of its bank.
ButtonUnknown ==
  /\ \E at \in {"enable", "fx"} : TimesOut(at)
  /\ Suffers(If("early", ~Quiet))
  /\ IF S.kind = "pulse" THEN NextStep ELSE pc' = "after" /\ UNCHANGED step
  /\ wait' = "off"
  /\ UNCHANGED <<mixer, heard, macro, work, env>>

\* Mutant: the value is written as it is, as if it were a level.
PressedMutant(on) ==
  \E lost \in 0..1 :
    /\ mixer' = IF ~on THEN mixer
                ELSE Sent(1, lost, mixer, IF S.kind = "fx" THEN PressFx(mixer)
                                                           ELSE Press(mixer))
    /\ Suffers(If("lost", lost # 0))

\* Writing 1.0 flips a button.
Pressed(on) ==
  \E lost \in 0..1 :
    /\ mixer' = IF on = button THEN mixer
                ELSE Sent(1, lost, mixer, IF S.kind = "fx" THEN PressFx(mixer)
                                                           ELSE Press(mixer))
    /\ Suffers(If("lost", lost # 0))

Sets ==
  /\ pc = "set"
  /\ Pressed(S.on)
  /\ button' = S.on
  /\ pc' = "after"
  /\ UNCHANGED <<heard, listener, wait, plan, strip, ticks, bankDirty, env>>

Pulses(on) ==
  /\ pc = "pulse"
  /\ ticks < MaxTicks
  /\ ticks' = ticks + 1
  /\ Pressed(on)
  /\ button' = on
  /\ UNCHANGED <<heard, listener, wait, pc, plan, strip, bankDirty, env>>

\* A value is written, or the values of an operation.
Writes ==
  /\ pc \in {"write", "pulse"}
  /\ pc' = "after"
  /\ UNCHANGED <<mixer, heard, listener, wait, plan, work, env, mishaps>>

\* Mutant: the bank stays where the step has aimed it.
StepEndsMutant ==
  /\ pc = "after"
  /\ NextStep
  /\ bankDirty' = FALSE
  /\ UNCHANGED <<mixer, heard, listener, wait, macro, strip, button, ticks,
                 env, mishaps>>

StepEnds ==
  /\ pc = "after"
  /\ \E lost \in 0..1 :
       /\ mixer' = IF S.kind \in Page2 THEN Sent(1, lost, mixer, ToBank(mixer, 0))
                                       ELSE mixer
       /\ Suffers(If("lost", lost # 0))
  /\ NextStep
  /\ bankDirty' = (bankDirty /\ S.kind \notin Page2)
  /\ UNCHANGED <<heard, listener, wait, macro, strip, button, ticks, env>>

-----------------------------------------------------------------------------
(* Other holders of the lock: probe_device and _live_input_names,          *)
(* _live_output_names, run_sweep.                                          *)

\* A row toggle; what is waited for, is waited for without the lock.
Probes ==
  /\ At({"probe"})
  /\ \E lost \in 0..2 :
       LET other == Sent(1, lost, mixer, ToRow(mixer, 2))
       IN  /\ mixer' = Sent(2, lost, other, ToRow(other, 1))
           /\ Suffers(If("lost", lost # 0))
  /\ NextStep
  /\ UNCHANGED <<heard, listener, wait, macro, work, env>>

ShowsOutputs ==
  /\ At({"outputs"})
  /\ \E lost \in 0..1 :
       /\ mixer' = Sent(1, lost, mixer, ToRow(mixer, 3))
       /\ Suffers(If("lost", lost # 0))
  /\ Notes("any")
  /\ Waits("any")
  /\ UNCHANGED <<state, listener, plan, work, env>>

\* Answered or not, the input row is selected again.
ShowsInputs ==
  /\ Satisfied("any") \/ TimesOut("any")
  /\ \E lost \in 0..1 :
       /\ mixer' = Sent(1, lost, mixer, ToRow(mixer, 1))
       /\ Suffers(If("lost", lost # 0))
  /\ NextStep
  /\ wait' = "off"
  /\ UNCHANGED <<heard, macro, work, env>>

SweepBegins ==
  /\ At({"sweep"})
  /\ \E lost \in 0..1 :
       /\ mixer' = Sent(1, lost, mixer, ToRow(mixer, S.row))
       /\ Suffers(If("lost", lost # 0))
  /\ ticks' = 0
  /\ pc' = "sweep"
  /\ UNCHANGED <<heard, listener, wait, plan, strip, button, bankDirty, env>>

\* An offset past the hardware end saturates (SWEEP_BOUNDARY_EXTRA, here 1).
Offset == IF ticks < Channels THEN ticks ELSE Channels - 1

\* Mutant: the mirror is asked before the bank is set.
SweepAimsMutant ==
  /\ pc = "sweep"
  /\ \E lost \in 0..2 :
       LET dump == Sent(1, lost, Asked(mixer), Mirror(Asked(mixer), S.row))
       IN  /\ mixer' = Sent(2, lost, dump, ToBank(dump, Offset))
           /\ Suffers(If("lost", lost # 0))
  /\ Notes("track")
  /\ Waits("track")
  /\ UNCHANGED <<state, listener, plan, work, env>>

SweepAims ==
  /\ pc = "sweep"
  /\ \E lost \in 0..2 :
       LET bank == Sent(1, lost, Asked(mixer), ToBank(Asked(mixer), Offset))
       IN  /\ mixer' = Sent(2, lost, bank, Mirror(bank, S.row))
           /\ Suffers(If("lost", lost # 0))
  /\ Notes("track")
  /\ Waits("track")
  /\ UNCHANGED <<state, listener, plan, work, env>>

SweepReads ==
  /\ Satisfied("track")
  /\ S.kind = "sweep"
  /\ Suffers(If("late", state.track.old))
  /\ pc' = "observe"
  /\ wait' = "off"
  /\ UNCHANGED <<mixer, heard, plan, work, env>>

SweepObserves ==
  /\ pc = "observe"
  /\ ticks' = ticks + 1
  /\ IF ticks < Channels THEN pc' = "sweep" /\ UNCHANGED step ELSE NextStep
  /\ UNCHANGED <<mixer, heard, listener, wait, macro, strip, button, bankDirty,
                 env, mishaps>>

\* "no page-2 dump ... aborting"
SweepAborts ==
  /\ TimesOut("track")
  /\ S.kind = "sweep"
  /\ Suffers(If("early", ~Quiet))
  /\ pc' = "finally"
  /\ wait' = "off"
  /\ UNCHANGED <<mixer, heard, plan, work, env>>

-----------------------------------------------------------------------------
(* The end of a run: "Restores are GUARANTEED via finally".                *)

StepsDone ==
  /\ pc = "steps"
  /\ step \notin DOMAIN macro
  /\ pc' = "finally"
  /\ UNCHANGED <<mixer, heard, listener, wait, plan, work, env, mishaps>>

Plays(kinds) == \E i \in DOMAIN macro : macro[i].kind \in kinds

\* A step drove the playback or output row.
RowDirty ==
  \/ Plays({"sweep"})
  \/ \E i \in DOMAIN macro :
       macro[i].kind \in {"send", "mute"} \cup Page2 /\ macro[i].row # 1

Finally ==
  /\ pc = "finally"
  /\ \E lost \in 0..2 :
       LET bank == IF bankDirty \/ Plays({"sweep"})
                     THEN Sent(1, lost, mixer, ToBank(mixer, 0)) ELSE mixer
       IN  /\ mixer' = IF RowDirty THEN Sent(2, lost, bank, ToRow(bank, 1))
                                   ELSE bank
           /\ Suffers(If("lost", lost # 0))
  /\ pc' = "idle"
  /\ macro' = <<>>
  /\ step' = 1
  /\ ticks' = 0
  /\ bankDirty' = FALSE
  /\ UNCHANGED <<heard, listener, wait, strip, button, env>>

-----------------------------------------------------------------------------
(* A person at the mixer.                                                  *)

Touches ==
  /\ hands < MaxHands
  /\ hands' = hands + 1
  /\ Suffers(If("moved", pc # "idle"))
  /\ \/ \E r \in Rows : mixer' = ByHand(MovesRow(mixer, r), "row")
     \/ \E b \in Hw : mixer' = ByHand(MovesBank(mixer, b), "bank")
     \/ \E s \in Submixes : mixer' = MovesSubmix(mixer, s)
     \/ \E l \in Layouts : mixer' = MovesLayout(mixer, l)
  /\ mixer' # mixer
  /\ UNCHANGED <<heard, listener, wait, pc, plan, work, runs>>

-----------------------------------------------------------------------------
Init ==
  /\ mixer \in [row : {1}, bank : {0}, submix : Submixes, layout : Layouts,
                enabled : {[r \in Rows |-> {}]}, fx : {FALSE}, hand : {{}},
                out : {<<>>}]
  /\ state = [row |-> 1, label |-> None,
              strips |-> [p \in Places |-> [view |-> None, seen |-> FALSE]],
              track |-> [ch |-> {}, old |-> FALSE],
              enable |-> [on |-> FALSE, old |-> FALSE],
              fx |-> [on |-> FALSE, old |-> FALSE]]
  /\ since = {}
  /\ listener = "idle"
  /\ wait = "off"
  /\ pc = "idle"
  /\ macro = <<>>
  /\ step = 1
  /\ strip = 1
  /\ button = FALSE
  /\ ticks = 0
  /\ bankDirty = FALSE
  /\ runs = 0
  /\ hands = 0
  /\ mishaps = {}

Page1Run ==
  \/ Unmeasured \/ AimsSend \/ AimsMute \/ LabelSeen \/ WrongLabel
  \/ \E s \in 1..Channels : NoLabel(s)
  \/ Provokes \/ AlreadyFresh \/ Candidate \/ StillStreaming \/ Settled
  \/ Unsettled \/ NotInBank

Page2Run ==
  \/ AimsPage2 \/ Confirms \/ Misaimed \/ Unconfirmed
  \/ ReadsEnable \/ ReadsFx \/ ButtonRead \/ ButtonUnknown \/ Sets
  \/ \E on \in BOOLEAN : Pulses(on)

OtherRun ==
  \/ Probes \/ ShowsOutputs \/ ShowsInputs
  \/ SweepBegins \/ SweepAims \/ SweepReads \/ SweepObserves \/ SweepAborts

Run ==
  \/ \E l \in Layouts : Switches(l)
  \/ PlaysRaw \/ Selects \/ Aborts
  \/ Page1Run \/ Page2Run \/ OtherRun
  \/ Registers \/ LooksAgain
  \/ Skips \/ Raises \/ Writes \/ StepEnds \/ StepsDone \/ Finally

Listener == Ingests \/ Copies \/ Wakes

Next ==
  \/ \E m \in Macros : Begins(m)
  \/ Run
  \/ Listener
  \/ Drops
  \/ Touches

Spec == Init /\ [][Next]_vars

-----------------------------------------------------------------------------
(* Properties.                                                             *)

Messages ==
  [kind : {"values"}, sub : Submixes, row : Rows]
    \cup [kind : {"names"}, view : Views]
    \cup [kind : {"track"}, ch : SUBSET Hw, old : BOOLEAN]
    \cup [kind : {"enable", "fx"}, on : BOOLEAN, old : BOOLEAN]

Mixers ==
  [row : Rows, bank : Hw, submix : Submixes, layout : Layouts,
   enabled : [Rows -> SUBSET SUBSET Hw], fx : BOOLEAN,
   hand : SUBSET {"row", "bank"}, out : Seq(Messages)]

DeviceStates ==
  [row : Rows, label : Submixes \cup {None},
   strips : [Places -> [view : Views \cup {None}, seen : BOOLEAN]],
   track : [ch : SUBSET Hw, old : BOOLEAN],
   enable : [on : BOOLEAN, old : BOOLEAN],
   fx : [on : BOOLEAN, old : BOOLEAN]]

Between == {"idle", "steps", "finally"}

\* The types, what a run waits for, and that a run is at a step of its macro
\* (run_macro's loop) wherever it resolves, reads or writes.
TypeOK ==
  /\ mixer \in Mixers
  /\ state \in DeviceStates
  /\ since \subseteq {"any", "values", "names", "track", "enable", "fx"}
  /\ listener \in {"idle", "ingested", "evaluating"}
  /\ wait \in {"off", "look", "armed", "asleep", "woken"}
  /\ pc \in Between \cup Waiting \cup
       {"refused", "provoke", "write", "read", "set", "pulse", "after",
        "sweep", "observe"}
  /\ macro \in Macros \cup {<<>>}
  /\ step \in 1..(Len(macro) + 1)
  /\ strip \in 1..Channels
  /\ button \in BOOLEAN /\ bankDirty \in BOOLEAN
  /\ ticks \in Nat /\ runs \in 0..MaxRuns /\ hands \in 0..MaxHands
  /\ mishaps \subseteq Mishaps
  /\ wait = "off" <=> pc \notin Waiting
  /\ pc \notin Between => step \in DOMAIN macro

\* What a write is about to act on is what its step names: the channel, on its
\* row and in its submix, however the strips have moved since they were seen.
OnTarget ==
  /\ mixer.row = S.row
  /\ Covers(Shown(mixer, IF S.kind \in Page2 THEN 1 ELSE strip), S.ch)
  /\ S.kind = "send" => mixer.submix = S.sub

Acting == pc = "write" \/ (pc \in {"set", "pulse"} /\ S.kind # "fx")

WritesLandOnTarget == calm /\ Acting => OnTarget

\* "every wrong-channel write this project has produced would have been caught by
\* this check": on page 2 a lost command or answer can not misdirect a write.
ConfirmedWritesLand ==
  mishaps \subseteq {"lost", "early", "raised"} /\ Acting /\ S.kind \in Page2 =>
    OnTarget

\* A button that was set is in the state the step asks for, and an operation on
\* one knows its state: it can only be flipped.
ButtonSet ==
  /\ calm /\ pc = "after" /\ S.kind = "fx" => mixer.fx = S.on
  /\ calm /\ pc = "after" /\ S.kind = "enable" => Enabled(mixer) = S.on
  /\ calm /\ pc = "pulse" => Enabled(mixer) = button

\* No run leaves the bank scrolled or another row selected, and no raw step finds
\* the bank scrolled: only a person does that.
RestsAtHome ==
  /\ calm /\ (pc = "idle" \/ At({"raw"})) =>
       mixer.bank = 0 \/ "bank" \in mixer.hand
  /\ calm /\ pc = "idle" => mixer.row = 1 \/ "row" \in mixer.hand

\* Who sleeps does not wait for what has come: he is woken, or the listener is
\* about to look for him.
WaitMissesNothing ==
  wait = "asleep" /\ Holds => listener \in {"ingested", "evaluating"}

\* A target is only refused that is not there.  (The classic transport has no
\* output fader: a send of row 3 is refused always.)
RefusesOnlyAbsent ==
  calm /\ pc = "refused" =>
    \/ /\ S.kind = "send"
       /\ S.sub \notin Submixes \/ S.row = 3
    \/ /\ S.kind \in {"send", "mute"}
       /\ \A s \in 1..Channels : ~Covers(Shown(mixer, s), S.ch)
    \/ /\ S.kind \in Page2
       /\ S.row = 2 \/ S.ch \notin DOMAIN Start[S.row]

\* What a sweep is about to learn of an offset is true.
SweepLearnsTruth ==
  calm /\ pc = "observe" => Offset \in state.track.ch
=============================================================================
