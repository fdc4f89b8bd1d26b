-------------------------- MODULE ClassicAimProofs --------------------------
(***************************************************************************)
(* Theorems about ClassicAim.  The argument: the answer to a question is   *)
(* under way, or has been heard, until the run has taken it; what a fresh  *)
(* answer says is what the mixer still is, as only a mishap moves it.      *)
(***************************************************************************)
EXTENDS ClassicAim, SequenceTheorems, TLAPS

Types == {"any", "values", "names", "track", "enable", "fx"}

-----------------------------------------------------------------------------
(* The types of what the mixer is made of.                                 *)

LEMMA ShownFits ==
  ASSUME NEW v, v.layout \in Layouts, NEW s
  PROVE  Shown(v, s) \in SUBSET Hw
<1> DEFINE all == Strips[v.layout]
           i   == (CHOOSE j \in DOMAIN all : v.bank \in all[j]) + s - 1
<1>1. all \in Seq(SUBSET Hw)
  BY AimAssumption
<1>2. Shown(v, s) = IF i \in DOMAIN all THEN all[i] ELSE {}
  BY DEF Shown
<1>3. i \in DOMAIN all => all[i] \in SUBSET Hw
  BY <1>1, LenProperties, ElementOfSeq
<1> QED
  BY <1>2, <1>3

LEMMA MixerFits ==
  ASSUME NEW x \in Mixers
  PROVE  /\ x.row \in Rows /\ x.bank \in Hw /\ x.submix \in Submixes
         /\ x.layout \in Layouts /\ x.enabled \in [Rows -> SUBSET SUBSET Hw]
         /\ x.fx \in BOOLEAN /\ x.hand \in SUBSET {"row", "bank"}
         /\ x.out \in Seq(Messages)
         /\ View(x) \in Views
         /\ \A s : Shown(x, s) \in SUBSET Hw
<1>1. /\ x.row \in Rows /\ x.bank \in Hw /\ x.submix \in Submixes
      /\ x.layout \in Layouts /\ x.enabled \in [Rows -> SUBSET SUBSET Hw]
      /\ x.fx \in BOOLEAN /\ x.hand \in SUBSET {"row", "bank"}
      /\ x.out \in Seq(Messages)
  BY DEF Mixers
<1>2. View(x) \in Views
  BY <1>1 DEF View, Views
<1> QED
  BY <1>1, <1>2, ShownFits

LEMMA MessageFits ==
  /\ \A s \in Submixes, r \in Rows :
       [kind |-> "values", sub |-> s, row |-> r] \in Messages
  /\ \A v \in Views : [kind |-> "names", view |-> v] \in Messages
  /\ \A c \in SUBSET Hw, o \in BOOLEAN :
       [kind |-> "track", ch |-> c, old |-> o] \in Messages
  /\ \A b, o \in BOOLEAN :
       /\ [kind |-> "enable", on |-> b, old |-> o] \in Messages
       /\ [kind |-> "fx", on |-> b, old |-> o] \in Messages
BY DEF Messages

LEMMA DumpFits ==
  ASSUME NEW x \in Mixers
  PROVE  Dump(x) \in Seq(Messages)
<1>1. x.submix \in Submixes /\ x.row \in Rows /\ View(x) \in Views
  BY MixerFits
<1> QED
  BY <1>1, MessageFits DEF Dump

LEMMA ChangedFits ==
  ASSUME NEW x \in Mixers, NEW y \in Mixers
  PROVE  Changed(x, y) \in Mixers
<1>1. y.out \o Dump(y) \in Seq(Messages)
  BY MixerFits, DumpFits, ConcatProperties
<1> QED
  BY <1>1 DEF Changed, Mixers

LEMMA MovesFit ==
  ASSUME NEW x \in Mixers
  PROVE  /\ \A r \in Rows : MovesRow(x, r) \in Mixers
         /\ \A b \in Hw : MovesBank(x, b) \in Mixers
         /\ \A s \in Submixes : MovesSubmix(x, s) \in Mixers
         /\ \A l \in Layouts : MovesLayout(x, l) \in Mixers
<1>1. /\ \A r \in Rows : [x EXCEPT !.row = r] \in Mixers
      /\ \A b \in Hw : [x EXCEPT !.bank = b] \in Mixers
      /\ \A s \in Submixes : [x EXCEPT !.submix = s] \in Mixers
      /\ \A l \in Layouts : [x EXCEPT !.layout = l] \in Mixers
  BY DEF Mixers
<1> QED
  BY <1>1, ChangedFits DEF MovesRow, MovesBank, MovesSubmix, MovesLayout

LEMMA HandFits ==
  ASSUME NEW x \in Mixers, NEW h \in SUBSET {"row", "bank"}
  PROVE  [x EXCEPT !.hand = h] \in Mixers
BY DEF Mixers

LEMMA CommandsFit ==
  ASSUME NEW x \in Mixers
  PROVE  /\ \A r \in Rows : ToRow(x, r) \in Mixers
         /\ \A b \in Hw : ToBank(x, b) \in Mixers
         /\ \A s \in Submixes : ToSubmix(x, s) \in Mixers
<1>1. ASSUME NEW y \in Mixers
      PROVE  /\ [y EXCEPT !.hand = @ \ {"row"}] \in Mixers
             /\ [y EXCEPT !.hand = @ \ {"bank"}] \in Mixers
  BY MixerFits, HandFits
<1> QED
  BY <1>1, MovesFit DEF ToRow, ToBank, ToSubmix

LEMMA AskedFits ==
  ASSUME NEW x \in Mixers
  PROVE  Asked(x) \in Mixers
<1> DEFINE out == [i \in DOMAIN x.out |->
                     IF x.out[i].kind \in {"track", "enable", "fx"}
                       THEN [x.out[i] EXCEPT !.old = TRUE] ELSE x.out[i]]
<1>1. x.out \in Seq(Messages)
  BY MixerFits
<1>2. /\ Len(x.out) \in Nat
      /\ DOMAIN x.out = 1..Len(x.out)
      /\ \A i \in DOMAIN x.out : x.out[i] \in Messages
  BY <1>1, LenProperties, ElementOfSeq
<1>3. ASSUME NEW m \in Messages, m.kind \in {"track", "enable", "fx"}
      PROVE  [m EXCEPT !.old = TRUE] \in Messages
  BY <1>3 DEF Messages
<1>4. out \in [1..Len(x.out) -> Messages]
  BY <1>2, <1>3
<1>5. out \in Seq(Messages)
  BY <1>2, <1>4, SeqDef
<1>6. Asked(x) = [x EXCEPT !.out = out]
  BY DEF Asked
<1> HIDE DEF out
<1> QED
  BY <1>5, <1>6 DEF Mixers

LEMMA MirrorFits ==
  ASSUME NEW x \in Mixers, NEW r \in Rows
  PROVE  Mirror(x, r) \in Mixers
<1> DEFINE y == ToRow(x, r)
           t == <<[kind |-> "track", ch |-> Shown(y, 1), old |-> FALSE],
                  [kind |-> "enable", on |-> Enabled(y), old |-> FALSE]>>
<1>1. y \in Mixers
  BY CommandsFit
<1>2. Shown(y, 1) \in SUBSET Hw /\ Enabled(y) \in BOOLEAN
  BY <1>1, MixerFits DEF Enabled
<1>3. t \in Seq(Messages)
  <2>1. [kind |-> "track", ch |-> Shown(y, 1), old |-> FALSE] \in Messages
    BY <1>2, MessageFits
  <2>2. [kind |-> "enable", on |-> Enabled(y), old |-> FALSE] \in Messages
    BY <1>2, MessageFits
  <2> QED
    BY <2>1, <2>2
<1>4. y.out \o t \in Seq(Messages)
  BY <1>1, <1>3, MixerFits, ConcatProperties
<1>5. Mirror(x, r) = [y EXCEPT !.out = y.out \o t]
  BY DEF Mirror
<1> HIDE DEF y, t
<1> QED
  BY <1>1, <1>4, <1>5 DEF Mixers

LEMMA ButtonsFit ==
  ASSUME NEW x \in Mixers
  PROVE  MirrorFx(x) \in Mixers /\ Press(x) \in Mixers /\ PressFx(x) \in Mixers
<1>1. x.fx \in BOOLEAN /\ Shown(x, 1) \in SUBSET Hw /\ x.row \in Rows
  BY MixerFits
<1>2. Append(x.out, [kind |-> "fx", on |-> x.fx, old |-> FALSE]) \in Seq(Messages)
  BY <1>1, MixerFits, MessageFits, AppendProperties
<1>3. MirrorFx(x) \in Mixers
  BY <1>2 DEF MirrorFx, Mixers
<1>4. Press(x) \in Mixers
  BY <1>1 DEF Press, Mixers
<1>5. PressFx(x) \in Mixers
  BY DEF PressFx, Mixers
<1> QED
  BY <1>3, <1>4, <1>5

-----------------------------------------------------------------------------
(* The types of what the bridge has heard.                                 *)

LEMMA PlaceFits ==
  ASSUME NEW sub \in Submixes \cup {None}, NEW row \in Rows
  PROVE  Place(sub, row) \in Places
BY DEF Place, Places, Rows

LEMMA StampedFits ==
  ASSUME NEW d \in DeviceStates, NEW sub \in Submixes, NEW row \in Rows
  PROVE  Stamped(d, sub, row) \in DeviceStates
<1>1. Place(sub, row) \in Places
  BY PlaceFits
<1>2. d.strips \in [Places -> [view : Views \cup {None}, seen : BOOLEAN]]
  BY DEF DeviceStates
<1>3. [d.strips EXCEPT ![Place(sub, row)].seen = TRUE]
        \in [Places -> [view : Views \cup {None}, seen : BOOLEAN]]
  BY <1>1, <1>2
<1> QED
  BY <1>3 DEF Stamped, DeviceStates

LEMMA IngestedFits ==
  ASSUME NEW d \in DeviceStates, NEW msg \in Messages
  PROVE  Ingested(d, msg) \in DeviceStates
<1> DEFINE Entry == [view : Views \cup {None}, seen : BOOLEAN]
<1>0. d.label \in Submixes \cup {None} /\ d.row \in Rows
      /\ d.strips \in [Places -> Entry]
  BY DEF DeviceStates
<1>1. CASE msg.kind = "values"
  <2>1. msg.sub \in Submixes /\ msg.row \in Rows
    BY <1>1 DEF Messages
  <2> QED
    BY <1>1, <2>1, StampedFits DEF Ingested
<1>2. CASE msg.kind = "names"
  <2>1. [view |-> msg.view, seen |-> TRUE] \in Entry
    BY <1>2 DEF Messages
  <2>2. Place(d.label, d.row) \in Places
    BY <1>0, PlaceFits
  <2>3. [d.strips EXCEPT ![Place(d.label, d.row)] =
           [view |-> msg.view, seen |-> TRUE]] \in [Places -> Entry]
    BY <1>0, <2>1, <2>2
  <2>4. Ingested(d, msg) =
          [d EXCEPT !.strips = [d.strips EXCEPT ![Place(d.label, d.row)] =
                                  [view |-> msg.view, seen |-> TRUE]]]
    BY <1>2 DEF Ingested
  <2> QED
    BY <2>3, <2>4 DEF DeviceStates
<1>3. CASE msg.kind = "track"
  <2>1. msg.ch \in SUBSET Hw /\ msg.old \in BOOLEAN
    BY <1>3 DEF Messages
  <2> QED
    BY <1>3, <2>1 DEF Ingested, DeviceStates
<1>4. CASE msg.kind = "enable"
  <2>1. msg.on \in BOOLEAN /\ msg.old \in BOOLEAN
    BY <1>4 DEF Messages
  <2> QED
    BY <1>4, <2>1 DEF Ingested, DeviceStates
<1>5. CASE msg.kind = "fx"
  <2>1. msg.on \in BOOLEAN /\ msg.old \in BOOLEAN
    BY <1>5 DEF Messages
  <2> QED
    BY <1>5, <2>1 DEF Ingested, DeviceStates
<1>6. msg.kind \in Types \ {"any"}
  BY DEF Messages, Types
<1> QED
  BY <1>1, <1>2, <1>3, <1>4, <1>5, <1>6 DEF Types

LEMMA FlooredFits ==
  ASSUME NEW d \in DeviceStates
  PROVE  Floored(d) \in DeviceStates
<1> DEFINE Entry == [view : Views \cup {None}, seen : BOOLEAN]
           strips == [p \in Places |-> [d.strips[p] EXCEPT !.seen = FALSE]]
<1>1. d.strips \in [Places -> Entry]
  BY DEF DeviceStates
<1>2. \A p \in Places : [d.strips[p] EXCEPT !.seen = FALSE] \in Entry
  BY <1>1
<1>3. strips \in [Places -> Entry]
  BY <1>2
<1>4. Floored(d) = [d EXCEPT !.strips = strips]
  BY DEF Floored
<1> HIDE DEF strips
<1> QED
  BY <1>3, <1>4 DEF DeviceStates

LEMMA FoundFits ==
  Found \subseteq 1..Channels
BY DEF Found, MatchIn, Lowest

LEMMA MacroFits ==
  ASSUME macro \in Macros \cup {<<>>}, step \in DOMAIN macro
  PROVE  /\ macro \in Macros /\ macro \in Seq(Steps)
         /\ Len(macro) \in Nat /\ DOMAIN macro = 1..Len(macro)
         /\ step + 1 \in 1..(Len(macro) + 1)
         /\ S \in Steps /\ S.row \in Rows /\ S.on \in BOOLEAN
<1>1. macro \in Macros
  OBVIOUS
<1>2. macro \in Seq(Steps)
  BY <1>1, AimAssumption
<1>3. Len(macro) \in Nat /\ DOMAIN macro = 1..Len(macro) /\ S \in Steps
  BY <1>2, LenProperties, ElementOfSeq DEF S
<1>4. S.row \in Rows /\ S.on \in BOOLEAN
  BY <1>3 DEF Steps
<1> QED
  BY <1>1, <1>2, <1>3, <1>4

-----------------------------------------------------------------------------
(* Types.                                                                  *)

\* The lemmas above, for what is a row, a bank or a submix.
LEMMA AllFit ==
  /\ \A x \in Mixers, r \in Rows : ToRow(x, r) \in Mixers
  /\ \A x \in Mixers, b \in Hw : ToBank(x, b) \in Mixers
  /\ \A x \in Mixers, s \in Submixes : ToSubmix(x, s) \in Mixers
  /\ \A x \in Mixers, r \in Rows : Mirror(x, r) \in Mixers
  /\ \A x \in Mixers : Asked(x) \in Mixers
BY CommandsFit, MirrorFits, AskedFits

LEMMA MixerKept ==
  ASSUME TypeOK, Next
  PROVE  mixer' \in Mixers
<1>0. mixer \in Mixers /\ 1 \in Rows /\ 2 \in Rows /\ 3 \in Rows /\ 0 \in Hw
  BY AimAssumption DEF TypeOK, Rows, Hw
<1>s. step \in DOMAIN macro => S.row \in Rows
  BY MacroFits DEF TypeOK
<1>t. mixer.out # <<>> => [mixer EXCEPT !.out = Tail(@)] \in Mixers
  <2>1. mixer.out # <<>> => Tail(mixer.out) \in Seq(Messages)
    BY <1>0, MixerFits, HeadTailProperties
  <2> QED
    BY <1>0, <2>1 DEF Mixers
<1>p. pc \notin Between => step \in DOMAIN macro
  BY DEF TypeOK
<1>1. ASSUME NEW l \in Layouts, Switches(l)
      PROVE  mixer' \in Mixers
  BY <1>0, <1>1, MovesFit DEF Switches
<1>2. CASE Selects
  BY <1>0, <1>2, CommandsFit DEF Selects
<1>3. CASE AimsSend
  BY <1>0, <1>s, <1>3, AllFit DEF AimsSend, At, Sent
<1>4. CASE AimsMute
  BY <1>0, <1>s, <1>4, AllFit DEF AimsMute, At, Sent
<1>5. CASE Provokes
  <2>1. S.row \in Rows /\ OtherRow \in Rows
    BY <1>0, <1>s, <1>p, <1>5 DEF Provokes, Between, OtherRow
  <2> QED
    BY <1>0, <2>1, <1>5, AllFit DEF Provokes, Sent
<1>6. CASE AimsPage2
  <2>1. S.row \in Rows /\ Start[S.row][S.ch] \in Hw
    BY AimAssumption, <1>s, <1>6 DEF AimsPage2, At
  <2> QED
    BY <1>0, <2>1, <1>6, AllFit DEF AimsPage2, Sent
<1>7. CASE Misaimed \/ Unconfirmed
  BY <1>0, <1>7, AllFit DEF Misaimed, Unconfirmed, Restores, Sent
<1>8. CASE ReadsEnable
  <2>1. S.row \in Rows
    BY <1>s, <1>p, <1>8 DEF ReadsEnable, Between
  <2> QED
    BY <1>0, <2>1, <1>8, AllFit DEF ReadsEnable, Sent
<1>9. CASE ReadsFx
  BY <1>0, <1>9, AllFit, ButtonsFit DEF ReadsFx, Sent
<1>10. CASE Sets
  BY <1>0, <1>10, AllFit, ButtonsFit DEF Sets, Pressed, Sent
<1>11. ASSUME NEW on \in BOOLEAN, Pulses(on)
       PROVE  mixer' \in Mixers
  BY <1>0, <1>11, AllFit, ButtonsFit DEF Pulses, Pressed, Sent
<1>12. CASE StepEnds
  BY <1>0, <1>12, AllFit DEF StepEnds, Sent
<1>13. CASE Probes \/ ShowsOutputs \/ ShowsInputs
  BY <1>0, <1>13, AllFit DEF Probes, ShowsOutputs, ShowsInputs, Sent
<1>14. CASE SweepBegins
  BY <1>0, <1>s, <1>14, AllFit DEF SweepBegins, At, Sent
<1>15. CASE SweepAims
  <2>1. S.row \in Rows
    BY <1>s, <1>p, <1>15 DEF SweepAims, Between
  <2>2. Offset \in Hw
    BY AimAssumption DEF Offset, Hw, TypeOK
  <2> QED
    BY <1>0, <2>1, <2>2, <1>15, AllFit DEF SweepAims, Sent
<1>16. CASE Finally
  BY <1>0, <1>16, AllFit DEF Finally, Sent
<1>17. CASE Ingests \/ Drops
  BY <1>t, <1>17 DEF Ingests, Drops
<1>18. CASE Touches
  <2>1. ASSUME NEW x \in Mixers, NEW w \in {"row", "bank"}
        PROVE  ByHand(x, w) \in Mixers
    BY MixerFits, HandFits DEF ByHand
  <2> QED
    BY <1>0, <1>18, <2>1, MovesFit DEF Touches
<1>19. CASE UNCHANGED mixer
  BY <1>0, <1>19
<1> QED
  BY <1>1, <1>2, <1>3, <1>4, <1>5, <1>6, <1>7, <1>8, <1>9, <1>10, <1>11, <1>12,
     <1>13, <1>14, <1>15, <1>16, <1>17, <1>18, <1>19
     DEF Next, Run, Page1Run, Page2Run, OtherRun, Listener, Begins, PlaysRaw,
     Aborts, Unmeasured, LabelSeen, WrongLabel, NoLabel, AlreadyFresh,
     Candidate, StillStreaming, Settled, Unsettled, NotInBank, Confirms,
     ButtonRead, ButtonUnknown, SweepReads, SweepObserves, SweepAborts,
     Registers, LooksAgain, Skips, Raises, Writes, StepsDone, Copies, Wakes

LEMMA StateKept ==
  ASSUME TypeOK, Next
  PROVE  /\ state' \in DeviceStates
         /\ since' \subseteq Types
<1>0. state \in DeviceStates /\ since \subseteq Types
  BY DEF TypeOK, Types
<1>1. CASE Ingests
  <2>1. Head(mixer.out) \in Messages
    BY <1>1, MixerFits, HeadTailProperties DEF Ingests, TypeOK
  <2>2. Head(mixer.out).kind \in Types
    BY <2>1 DEF Messages, Types
  <2> QED
    BY <1>0, <1>1, <2>1, <2>2, IngestedFits DEF Ingests, Types
<1>2. CASE AimsSend \/ AimsMute
  BY <1>0, <1>2, FlooredFits DEF AimsSend, AimsMute, Notes
<1>3. CASE UNCHANGED state /\ (UNCHANGED since \/ \E k : Notes(k))
  BY <1>0, <1>3 DEF Notes
<1> QED
  BY <1>1, <1>2, <1>3
     DEF Next, Run, Page1Run, Page2Run, OtherRun, Listener, heard, Begins,
     PlaysRaw, Aborts, Unmeasured, LabelSeen, WrongLabel, NoLabel, AlreadyFresh,
     Candidate, StillStreaming, Settled, Unsettled, NotInBank, Confirms,
     ButtonRead, ButtonUnknown, SweepReads, SweepObserves, SweepAborts,
     Registers, LooksAgain, Skips, Raises, Writes, StepsDone, Copies, Wakes,
     Switches, Selects, Provokes, AimsPage2, Misaimed, Unconfirmed, ReadsEnable,
     ReadsFx, Sets, Pulses, StepEnds, Probes, ShowsOutputs, ShowsInputs,
     SweepBegins, SweepAims, Finally, Drops, Touches

\* Who is about to be asked is asleep, or about to look again.
Listening == listener = "evaluating" => wait \in {"armed", "asleep"}

\* The rest of TypeOK: where the run, the wait and the listener are, ...
PlaceOK ==
  /\ listener \in {"idle", "ingested", "evaluating"}
  /\ wait \in {"off", "look", "armed", "asleep", "woken"}
  /\ pc \in Between \cup Waiting \cup
       {"refused", "provoke", "write", "read", "set", "pulse", "after",
        "sweep", "observe"}
  /\ macro \in Macros \cup {<<>>}
  /\ step \in 1..(Len(macro) + 1)
  /\ wait = "off" <=> pc \notin Waiting
  /\ pc \notin Between => step \in DOMAIN macro

\* ... and what it works with.
WorkOK ==
  /\ strip \in 1..Channels
  /\ button \in BOOLEAN /\ bankDirty \in BOOLEAN
  /\ ticks \in Nat /\ runs \in 0..MaxRuns /\ hands \in 0..MaxHands
  /\ mishaps \subseteq Mishaps

LEMMA PlaceKept ==
  ASSUME PlaceOK, Listening, Next
  PROVE  PlaceOK' /\ Listening'
<1> USE DEF PlaceOK, Listening, Between, Waiting
<1>l. step \in DOMAIN macro =>
        step + 1 \in 1..(Len(macro) + 1) /\ step \in 1..(Len(macro) + 1)
  BY MacroFits
<1>m. ASSUME NEW m \in Macros
      PROVE  1 \in 1..(Len(m) + 1)
  BY AimAssumption, LenProperties
<1>1. ASSUME NEW m \in Macros, Begins(m)
      PROVE  PlaceOK' /\ Listening'
  BY <1>1, <1>m DEF Begins
<1>2. CASE \/ \E l \in Layouts : Switches(l)
           \/ PlaysRaw \/ Selects \/ Probes \/ Skips \/ StepEnds \/ SweepObserves
  BY <1>2, <1>l DEF Switches, PlaysRaw, Selects, Probes, Skips, StepEnds,
     SweepObserves, At, NextStep, plan, heard
<1>3. CASE ShowsInputs
  BY <1>3, <1>l DEF ShowsInputs, NextStep, Satisfied, TimesOut, Leaves
<1>4. CASE \/ Aborts \/ Unmeasured \/ AimsMute \/ Sets \/ Writes
           \/ (\E on \in BOOLEAN : Pulses(on)) \/ SweepBegins \/ StepsDone
  BY <1>4, <1>l DEF Aborts, Unmeasured, AimsMute, Sets, Pulses, Writes,
     SweepBegins, StepsDone, At, plan, heard
<1>5. CASE AimsSend \/ Provokes \/ AlreadyFresh \/ AimsPage2
  BY <1>5, <1>l DEF AimsSend, Provokes, AlreadyFresh, AimsPage2, At, Waits, plan,
     heard
<1>6. CASE ReadsEnable \/ ReadsFx \/ ShowsOutputs \/ SweepAims
  BY <1>6, <1>l DEF ReadsEnable, ReadsFx, ShowsOutputs, SweepAims, At, Waits,
     plan, heard
<1>7. CASE Candidate \/ StillStreaming \/ Unsettled
  BY <1>7, <1>l DEF Candidate, StillStreaming, Unsettled, Waits, Satisfied,
     TimesOut, Leaves, plan, heard
<1>8. CASE \/ LabelSeen \/ WrongLabel \/ (\E s \in 1..Channels : NoLabel(s))
           \/ Settled \/ NotInBank \/ Raises
  BY <1>8, <1>l DEF LabelSeen, WrongLabel, NoLabel, Settled, NotInBank, Raises,
     Satisfied, TimesOut, Leaves, plan, heard
<1>9. CASE Confirms \/ Misaimed \/ Unconfirmed \/ SweepReads \/ SweepAborts
  BY <1>9, <1>l DEF Confirms, Misaimed, Unconfirmed, SweepReads, SweepAborts,
     Satisfied, TimesOut, Leaves, plan, heard
<1>10. CASE ButtonRead \/ ButtonUnknown
  BY <1>10, <1>l DEF ButtonRead, ButtonUnknown, NextStep, Satisfied, TimesOut,
     Leaves, plan, heard
<1>11. CASE Registers \/ LooksAgain
  BY <1>11 DEF Registers, LooksAgain, plan, heard
<1>12. CASE Finally
  BY <1>12, EmptySeq DEF Finally
<1>13. CASE Listener
  BY <1>13 DEF Listener, Ingests, Copies, Wakes, plan
<1>14. CASE Drops \/ Touches
  BY <1>14 DEF Drops, Touches, plan
<1> QED
  BY <1>1, <1>2, <1>3, <1>4, <1>5, <1>6, <1>7, <1>8, <1>9, <1>10, <1>11, <1>12,
     <1>13, <1>14 DEF Next, Run, Page1Run, Page2Run, OtherRun

\* Every action's mishaps are possible ones.
LEMMA MishapsKept ==
  ASSUME mishaps \subseteq Mishaps, Next
  PROVE  mishaps' \subseteq Mishaps /\ mishaps \subseteq mishaps'
<1>1. UNCHANGED mishaps \/ \E kinds : Suffers(kinds)
  BY DEF Next, Run, Page1Run, Page2Run, OtherRun, Listener, Begins, Switches,
     PlaysRaw, Selects, Aborts, Unmeasured, AimsSend, AimsMute, LabelSeen,
     WrongLabel, NoLabel, Provokes, AlreadyFresh, Candidate, StillStreaming,
     Settled, Unsettled, NotInBank, AimsPage2, Confirms, Misaimed, Unconfirmed,
     Skips, Raises, ReadsEnable, ReadsFx, ButtonRead, ButtonUnknown, Sets,
     Pulses, Writes, StepEnds, Probes, ShowsOutputs, ShowsInputs, SweepBegins,
     SweepAims, SweepReads, SweepObserves, SweepAborts, StepsDone, Finally,
     Registers, LooksAgain, Ingests, Copies, Wakes, Drops, Touches, Restores,
     Pressed
<1> QED
  BY <1>1 DEF Suffers

LEMMA WorkKept ==
  ASSUME TypeOK, Next
  PROVE  WorkOK'
<1>0. WorkOK
  BY DEF TypeOK, WorkOK
<1>1. strip' \in 1..Channels
  <2>1. CASE Settled
    BY <2>1, FoundFits DEF Settled
  <2>2. CASE \E s \in 1..Channels : NoLabel(s)
    BY <2>2 DEF NoLabel
  <2>3. CASE UNCHANGED strip
    BY <1>0, <2>3 DEF WorkOK
  <2> QED
    BY <2>1, <2>2, <2>3
       DEF Next, Run, Page1Run, Page2Run, OtherRun, Listener, Begins, Switches,
       PlaysRaw, Selects, Aborts, Unmeasured, AimsSend, AimsMute, LabelSeen,
       WrongLabel, Provokes, AlreadyFresh, Candidate, StillStreaming,
       Unsettled, NotInBank, AimsPage2, Confirms, Misaimed, Unconfirmed, Skips,
       Raises, ReadsEnable, ReadsFx, ButtonRead, ButtonUnknown, Sets, Pulses,
       Writes, StepEnds, Probes, ShowsOutputs, ShowsInputs, SweepBegins,
       SweepAims, SweepReads, SweepObserves, SweepAborts, StepsDone, Finally,
       Registers, LooksAgain, Ingests, Copies, Wakes, Drops, Touches, work
<1>2. button' \in BOOLEAN
  <2>1. CASE ButtonRead
    <3>1. Answer.on \in BOOLEAN
      BY DEF Answer, TypeOK, DeviceStates
    <3> QED
      BY <2>1, <3>1 DEF ButtonRead
  <2>2. CASE Sets
    <3>1. S.on \in BOOLEAN
      BY <2>2, MacroFits DEF Sets, TypeOK, Between
    <3> QED
      BY <2>2, <3>1 DEF Sets
  <2>3. CASE \E on \in BOOLEAN : Pulses(on)
    BY <2>3 DEF Pulses
  <2>4. CASE UNCHANGED button
    BY <1>0, <2>4 DEF WorkOK
  <2> QED
    BY <2>1, <2>2, <2>3, <2>4
       DEF Next, Run, Page1Run, Page2Run, OtherRun, Listener, Begins, Switches,
       PlaysRaw, Selects, Aborts, Unmeasured, AimsSend, AimsMute, LabelSeen,
       WrongLabel, NoLabel, Provokes, AlreadyFresh, Candidate, StillStreaming,
       Settled, Unsettled, NotInBank, AimsPage2, Confirms, Misaimed,
       Unconfirmed, Skips, Raises, ReadsEnable, ReadsFx, ButtonUnknown, Writes,
       StepEnds, Probes, ShowsOutputs, ShowsInputs, SweepBegins, SweepAims,
       SweepReads, SweepObserves, SweepAborts, StepsDone, Finally, Registers,
       LooksAgain, Ingests, Copies, Wakes, Drops, Touches, work
<1>3. bankDirty' \in BOOLEAN
  <2>1. CASE StepEnds
    BY <1>0, <2>1, Zenon DEF StepEnds, WorkOK
  <2>2. CASE bankDirty' \in {TRUE, FALSE} \/ UNCHANGED bankDirty
    BY <1>0, <2>2 DEF WorkOK
  <2> QED
    BY <2>1, <2>2
       DEF Next, Run, Page1Run, Page2Run, OtherRun, Listener, Begins, Switches,
       PlaysRaw, Selects, Aborts, Unmeasured, AimsSend, AimsMute, LabelSeen,
       WrongLabel, NoLabel, Provokes, AlreadyFresh, Candidate, StillStreaming,
       Settled, Unsettled, NotInBank, AimsPage2, Confirms, Misaimed,
       Unconfirmed, Skips, Raises, ReadsEnable, ReadsFx, ButtonRead,
       ButtonUnknown, Sets, Pulses, Writes, Probes, ShowsOutputs, ShowsInputs,
       SweepBegins, SweepAims, SweepReads, SweepObserves, SweepAborts,
       StepsDone, Finally, Registers, LooksAgain, Ingests, Copies, Wakes,
       Drops, Touches, work
<1>4. ticks' \in Nat
  <2>1. CASE (\E on \in BOOLEAN : Pulses(on)) \/ SweepObserves
    BY <1>0, <2>1 DEF Pulses, SweepObserves, WorkOK
  <2>2. CASE UNCHANGED ticks \/ ticks' = 0
    BY <1>0, <2>2 DEF WorkOK
  <2> QED
    BY <2>1, <2>2
       DEF Next, Run, Page1Run, Page2Run, OtherRun, Listener, Begins, Switches,
       PlaysRaw, Selects, Aborts, Unmeasured, AimsSend, AimsMute, LabelSeen,
       WrongLabel, NoLabel, Provokes, AlreadyFresh, Candidate, StillStreaming,
       Settled, Unsettled, NotInBank, AimsPage2, Confirms, Misaimed,
       Unconfirmed, Skips, Raises, ReadsEnable, ReadsFx, ButtonRead,
       ButtonUnknown, Sets, Writes, StepEnds, Probes, ShowsOutputs,
       ShowsInputs, SweepBegins, SweepAims, SweepReads, SweepAborts, StepsDone,
       Finally, Registers, LooksAgain, Ingests, Copies, Wakes, Drops, Touches,
       work
<1>5. runs' \in 0..MaxRuns /\ hands' \in 0..MaxHands
  <2>1. CASE \E m \in Macros : Begins(m)
    BY <1>0, <2>1, AimAssumption DEF Begins, WorkOK
  <2>2. CASE Touches
    BY <1>0, <2>2, AimAssumption DEF Touches, WorkOK
  <2>3. CASE UNCHANGED env
    BY <1>0, <2>3 DEF WorkOK, env
  <2> QED
    BY <2>1, <2>2, <2>3
       DEF Next, Run, Page1Run, Page2Run, OtherRun, Listener, Switches,
       PlaysRaw, Selects, Aborts, Unmeasured, AimsSend, AimsMute, LabelSeen,
       WrongLabel, NoLabel, Provokes, AlreadyFresh, Candidate, StillStreaming,
       Settled, Unsettled, NotInBank, AimsPage2, Confirms, Misaimed,
       Unconfirmed, Skips, Raises, ReadsEnable, ReadsFx, ButtonRead,
       ButtonUnknown, Sets, Pulses, Writes, StepEnds, Probes, ShowsOutputs,
       ShowsInputs, SweepBegins, SweepAims, SweepReads, SweepObserves,
       SweepAborts, StepsDone, Finally, Registers, LooksAgain, Ingests, Copies,
       Wakes, Drops
<1>6. mishaps' \subseteq Mishaps
  BY <1>0, MishapsKept DEF WorkOK
<1> QED
  BY <1>1, <1>2, <1>3, <1>4, <1>5, <1>6 DEF WorkOK

-----------------------------------------------------------------------------
TypeInv == TypeOK /\ Listening

LEMMA TypeParts ==
  TypeOK <=> /\ mixer \in Mixers /\ state \in DeviceStates
             /\ since \subseteq Types
             /\ PlaceOK /\ WorkOK
BY DEF TypeOK, Types, PlaceOK, WorkOK

LEMMA TypesAtFirst ==
  ASSUME Init
  PROVE  TypeInv
<1>0. Channels \in Nat \ {0} /\ MaxRuns \in Nat /\ MaxHands \in Nat
  BY AimAssumption
<1>1. mixer \in Mixers
  <2>1. 1 \in Rows /\ 0 \in Hw /\ <<>> \in Seq(Messages)
    BY <1>0, EmptySeq DEF Rows, Hw
  <2>2. [r \in Rows |-> {}] \in [Rows -> SUBSET SUBSET Hw]
    OBVIOUS
  <2> QED
    BY <2>1, <2>2 DEF Init, Mixers
<1>2. state \in DeviceStates
  BY DEF Init, DeviceStates, Rows
<1>3. PlaceOK
  <2>1. Len(<<>>) = 0
    BY EmptySeq
  <2>2. step \in 1..(Len(macro) + 1)
    <3>1. step = 1 /\ Len(macro) = 0
      BY <2>1 DEF Init
    <3> QED
      BY <3>1
  <2>3. /\ listener = "idle" /\ wait = "off" /\ pc = "idle" /\ macro = <<>>
    BY DEF Init
  <2> QED
    BY <2>2, <2>3 DEF PlaceOK, Between, Waiting
<1>4. WorkOK /\ since \subseteq Types
  <2>1. strip \in 1..Channels /\ ticks \in Nat /\ runs \in 0..MaxRuns
        /\ hands \in 0..MaxHands
    BY <1>0 DEF Init
  <2>2. button = FALSE /\ bankDirty = FALSE /\ since = {} /\ mishaps = {}
    BY DEF Init
  <2> QED
    BY <2>1, <2>2, Zenon DEF WorkOK
<1> QED
  BY <1>1, <1>2, <1>3, <1>4, TypeParts DEF TypeInv, Listening, Init

\* The types hold, and a run is at a step of its macro wherever it resolves,
\* reads or writes, for any mixer, macros and mishaps (run_macro,
\* _resolve_target, wait_for).
THEOREM Typing == Spec => []TypeOK
<1>1. Init => TypeInv
  BY TypesAtFirst
<1>2. ASSUME TypeInv, [Next]_vars
      PROVE  TypeInv'
  <2>1. CASE Next
    <3>1. mixer' \in Mixers /\ state' \in DeviceStates /\ since' \subseteq Types
      BY <1>2, <2>1, MixerKept, StateKept DEF TypeInv
    <3>2. PlaceOK' /\ Listening'
      BY <1>2, <2>1, PlaceKept, TypeParts DEF TypeInv
    <3>3. WorkOK'
      BY <1>2, <2>1, WorkKept DEF TypeInv
    <3> QED
      BY <3>1, <3>2, <3>3 DEF TypeInv, TypeOK, Types, PlaceOK, WorkOK
  <2>2. CASE UNCHANGED vars
    BY <1>2, <2>2 DEF vars, heard, plan, work, env, TypeInv, Listening, TypeOK,
       Between, Waiting
  <2> QED
    BY <1>2, <2>1, <2>2
<1>3. TypeInv => TypeOK
  BY DEF TypeInv
<1> QED
  BY <1>1, <1>2, <1>3, PTL DEF Spec

-----------------------------------------------------------------------------
(* wait_for.                                                               *)

\* What a wait asks for, is asked of what the bridge has heard only.
LEMMA HoldsOfHeard ==
  ASSUME UNCHANGED <<heard, pc, plan>>
  PROVE  Holds' = Holds
BY DEF Holds, Found, MatchIn, Lowest, S, heard, plan

\* Who sleeps in wait_for does not wait for what has come: _handle has yet to ask
\* him, or to copy the list he is in.
THEOREM NothingMissed == Spec => []WaitMissesNothing
<1>1. Init => WaitMissesNothing
  BY DEF Init, WaitMissesNothing
<1>2. ASSUME TypeOK, WaitMissesNothing, [Next]_vars
      PROVE  WaitMissesNothing'
  <2> SUFFICES ASSUME (wait = "asleep" /\ Holds)'
               PROVE  listener' \in {"ingested", "evaluating"}
    BY DEF WaitMissesNothing
  <2>1. CASE LooksAgain
    BY <2>1, HoldsOfHeard DEF LooksAgain
  <2>2. CASE Ingests \/ Copies
    BY <2>2 DEF Ingests, Copies
  <2>3. CASE Wakes
    BY <2>3, HoldsOfHeard DEF Wakes
  <2>4. CASE UNCHANGED <<heard, listener, wait, pc, plan>>
    BY <1>2, <2>4, HoldsOfHeard DEF WaitMissesNothing
  <2>5. CASE pc \notin Waiting /\ UNCHANGED wait
    BY <1>2, <2>5 DEF TypeOK
  <2>6. CASE wait' # "asleep"
    BY <2>6
  <2> QED
    BY <1>2, <2>1, <2>2, <2>3, <2>4, <2>5, <2>6
       DEF Next, Run, Page1Run, Page2Run, OtherRun, Listener, Begins, Switches,
       PlaysRaw, Selects, Aborts, Unmeasured, AimsSend, AimsMute, LabelSeen,
       WrongLabel, NoLabel, Provokes, AlreadyFresh, Candidate, StillStreaming,
       Settled, Unsettled, NotInBank, AimsPage2, Confirms, Misaimed,
       Unconfirmed, Skips, Raises, ReadsEnable, ReadsFx, ButtonRead,
       ButtonUnknown, Sets, Pulses, Writes, StepEnds, Probes, ShowsOutputs,
       ShowsInputs, SweepBegins, SweepAims, SweepReads, SweepObserves,
       SweepAborts, StepsDone, Finally, Registers, Drops, Touches, At, Waits,
       Waiting, vars, heard, plan
<1> QED
  BY <1>1, <1>2, Typing, PTL DEF Spec

-----------------------------------------------------------------------------
(* What the commands do to the mixer, and what it says about them.         *)

LEMMA Commands ==
  ASSUME NEW x \in Mixers
  PROVE  /\ \A r \in Rows : /\ ToRow(x, r).row = r
                            /\ ToRow(x, r).bank = x.bank
                            /\ ToRow(x, r).layout = x.layout
                            /\ ToRow(x, r).enabled = x.enabled
                            /\ ToRow(x, r).fx = x.fx
                            /\ ToRow(x, r).hand = x.hand \ {"row"}
         /\ \A b \in Hw : /\ ToBank(x, b).row = x.row
                          /\ ToBank(x, b).bank = b
                          /\ ToBank(x, b).layout = x.layout
                          /\ ToBank(x, b).enabled = x.enabled
                          /\ ToBank(x, b).fx = x.fx
                          /\ ToBank(x, b).hand = x.hand \ {"bank"}
         /\ \A s \in Submixes : /\ ToSubmix(x, s).row = x.row
                                /\ ToSubmix(x, s).bank = x.bank
                                /\ ToSubmix(x, s).hand = x.hand
<1>1. ASSUME NEW y \in Mixers
      PROVE  /\ Changed(x, y).row = y.row /\ Changed(x, y).bank = y.bank
             /\ Changed(x, y).layout = y.layout
             /\ Changed(x, y).enabled = y.enabled /\ Changed(x, y).fx = y.fx
             /\ Changed(x, y).hand = y.hand
             /\ Changed(x, y) \in Mixers
  <2>1. Changed(x, y) \in Mixers
    BY ChangedFits
  <2> QED
    BY <2>1 DEF Changed, Mixers
<1>2. ASSUME NEW y \in Mixers, NEW h
      PROVE  LET z == [y EXCEPT !.hand = h]
             IN  /\ z.row = y.row /\ z.bank = y.bank /\ z.layout = y.layout
                 /\ z.enabled = y.enabled /\ z.fx = y.fx /\ z.hand = h
  BY DEF Mixers
<1>3. ASSUME NEW r \in Rows
      PROVE  /\ [x EXCEPT !.row = r] \in Mixers
             /\ [x EXCEPT !.row = r].row = r
             /\ [x EXCEPT !.row = r].bank = x.bank
             /\ [x EXCEPT !.row = r].layout = x.layout
             /\ [x EXCEPT !.row = r].enabled = x.enabled
             /\ [x EXCEPT !.row = r].fx = x.fx
             /\ [x EXCEPT !.row = r].hand = x.hand
  BY DEF Mixers
<1>4. ASSUME NEW b \in Hw
      PROVE  /\ [x EXCEPT !.bank = b] \in Mixers
             /\ [x EXCEPT !.bank = b].row = x.row
             /\ [x EXCEPT !.bank = b].bank = b
             /\ [x EXCEPT !.bank = b].layout = x.layout
             /\ [x EXCEPT !.bank = b].enabled = x.enabled
             /\ [x EXCEPT !.bank = b].fx = x.fx
             /\ [x EXCEPT !.bank = b].hand = x.hand
  BY DEF Mixers
<1>5. ASSUME NEW s \in Submixes
      PROVE  /\ [x EXCEPT !.submix = s] \in Mixers
             /\ [x EXCEPT !.submix = s].row = x.row
             /\ [x EXCEPT !.submix = s].bank = x.bank
             /\ [x EXCEPT !.submix = s].hand = x.hand
  BY DEF Mixers
<1>6. ASSUME NEW r \in Rows
      PROVE  /\ ToRow(x, r).row = r
             /\ ToRow(x, r).bank = x.bank
             /\ ToRow(x, r).layout = x.layout
             /\ ToRow(x, r).enabled = x.enabled
             /\ ToRow(x, r).fx = x.fx
             /\ ToRow(x, r).hand = x.hand \ {"row"}
  <2> DEFINE y == [x EXCEPT !.row = r]
             z == Changed(x, y)
  <2>1. ToRow(x, r) = [z EXCEPT !.hand = z.hand \ {"row"}]
    BY DEF ToRow, MovesRow
  <2>2. y \in Mixers
    BY <1>3
  <2>3. z \in Mixers /\ z.hand = y.hand
    BY <1>1, <2>2
  <2> HIDE DEF z
  <2>4. LET t == [z EXCEPT !.hand = z.hand \ {"row"}]
        IN  /\ t.row = z.row /\ t.bank = z.bank /\ t.layout = z.layout
            /\ t.enabled = z.enabled /\ t.fx = z.fx
            /\ t.hand = z.hand \ {"row"}
    BY <1>2, <2>3
  <2>5. /\ z.row = y.row /\ z.bank = y.bank /\ z.layout = y.layout
        /\ z.enabled = y.enabled /\ z.fx = y.fx
    BY <1>1, <2>2 DEF z
  <2> QED
    BY <2>1, <2>3, <2>4, <2>5, <1>3
<1>7. ASSUME NEW b \in Hw
      PROVE  /\ ToBank(x, b).row = x.row
             /\ ToBank(x, b).bank = b
             /\ ToBank(x, b).layout = x.layout
             /\ ToBank(x, b).enabled = x.enabled
             /\ ToBank(x, b).fx = x.fx
             /\ ToBank(x, b).hand = x.hand \ {"bank"}
  <2> DEFINE y == [x EXCEPT !.bank = b]
             z == Changed(x, y)
  <2>1. ToBank(x, b) = [z EXCEPT !.hand = z.hand \ {"bank"}]
    BY DEF ToBank, MovesBank
  <2>2. y \in Mixers
    BY <1>4
  <2>3. z \in Mixers /\ z.hand = y.hand
    BY <1>1, <2>2
  <2> HIDE DEF z
  <2>4. LET t == [z EXCEPT !.hand = z.hand \ {"bank"}]
        IN  /\ t.row = z.row /\ t.bank = z.bank /\ t.layout = z.layout
            /\ t.enabled = z.enabled /\ t.fx = z.fx
            /\ t.hand = z.hand \ {"bank"}
    BY <1>2, <2>3
  <2>5. /\ z.row = y.row /\ z.bank = y.bank /\ z.layout = y.layout
        /\ z.enabled = y.enabled /\ z.fx = y.fx
    BY <1>1, <2>2 DEF z
  <2> QED
    BY <2>1, <2>3, <2>4, <2>5, <1>4
<1>8. ASSUME NEW s \in Submixes
      PROVE  /\ ToSubmix(x, s).row = x.row
             /\ ToSubmix(x, s).bank = x.bank
             /\ ToSubmix(x, s).hand = x.hand
  <2> DEFINE y == [x EXCEPT !.submix = s]
  <2>1. ToSubmix(x, s) = Changed(x, y)
    BY DEF ToSubmix, MovesSubmix
  <2>2. y \in Mixers
    BY <1>5
  <2>3. /\ Changed(x, y).row = y.row /\ Changed(x, y).bank = y.bank
        /\ Changed(x, y).hand = y.hand
    BY <1>1, <2>2
  <2> QED
    BY <2>1, <2>3, <1>5
<1> QED
  BY <1>6, <1>7, <1>8

LEMMA Reads ==
  ASSUME NEW x \in Mixers
  PROVE  /\ \A r \in Rows : /\ Mirror(x, r).row = r
                            /\ Mirror(x, r).bank = x.bank
                            /\ Mirror(x, r).layout = x.layout
                            /\ Mirror(x, r).enabled = x.enabled
                            /\ Mirror(x, r).fx = x.fx
                            /\ Mirror(x, r).hand = x.hand \ {"row"}
         /\ Asked(x).row = x.row /\ Asked(x).bank = x.bank
         /\ Asked(x).layout = x.layout /\ Asked(x).enabled = x.enabled
         /\ Asked(x).fx = x.fx /\ Asked(x).hand = x.hand
         /\ MirrorFx(x).row = x.row /\ MirrorFx(x).bank = x.bank
         /\ MirrorFx(x).layout = x.layout /\ MirrorFx(x).enabled = x.enabled
         /\ MirrorFx(x).fx = x.fx /\ MirrorFx(x).hand = x.hand
<1>1. ASSUME NEW y \in Mixers, NEW o
      PROVE  LET z == [y EXCEPT !.out = o]
             IN  /\ z.row = y.row /\ z.bank = y.bank /\ z.layout = y.layout
                 /\ z.enabled = y.enabled /\ z.fx = y.fx /\ z.hand = y.hand
  BY DEF Mixers
<1>2. ASSUME NEW r \in Rows
      PROVE  /\ Mirror(x, r).row = r
             /\ Mirror(x, r).bank = x.bank
             /\ Mirror(x, r).layout = x.layout
             /\ Mirror(x, r).enabled = x.enabled
             /\ Mirror(x, r).fx = x.fx
             /\ Mirror(x, r).hand = x.hand \ {"row"}
  BY <1>1, Commands, AllFit DEF Mirror
<1> QED
  BY <1>1, <1>2 DEF Asked, MirrorFx

LEMMA ShownSame ==
  ASSUME NEW v, NEW w, v.layout = w.layout, v.bank = w.bank
  PROVE  \A s : Shown(v, s) = Shown(w, s)
BY DEF Shown

LEMMA PressFlips ==
  ASSUME NEW x \in Mixers
  PROVE  /\ Enabled(Press(x)) = ~Enabled(x)
         /\ Press(x).row = x.row /\ Press(x).bank = x.bank
         /\ Press(x).layout = x.layout /\ Press(x).hand = x.hand
         /\ Press(x).fx = x.fx /\ Press(x).out = x.out
         /\ PressFx(x).fx = ~x.fx
         /\ PressFx(x).row = x.row /\ PressFx(x).bank = x.bank
         /\ PressFx(x).layout = x.layout /\ PressFx(x).hand = x.hand
         /\ PressFx(x).enabled = x.enabled /\ PressFx(x).out = x.out
<1> DEFINE s == Shown(x, 1)
<1>1. x.row \in Rows /\ x.enabled \in [Rows -> SUBSET SUBSET Hw]
      /\ x.fx \in BOOLEAN
  BY MixerFits
<1>2. /\ Press(x).row = x.row /\ Press(x).bank = x.bank
      /\ Press(x).layout = x.layout /\ Press(x).hand = x.hand
      /\ Press(x).fx = x.fx /\ Press(x).out = x.out
      /\ Press(x).enabled[x.row] =
           IF s \in x.enabled[x.row] THEN x.enabled[x.row] \ {s}
                                     ELSE x.enabled[x.row] \cup {s}
  BY <1>1 DEF Press, Mixers, Enabled
<1>3. Shown(Press(x), 1) = s
  BY <1>2, ShownSame
<1> HIDE DEF s
<1>4. Enabled(Press(x)) = ~Enabled(x)
  <2>1. Enabled(x) <=> s \in x.enabled[x.row]
    BY DEF Enabled, s
  <2>2. Enabled(Press(x)) <=> s \in Press(x).enabled[x.row]
    BY <1>2, <1>3 DEF Enabled
  <2>3. Enabled(x) \in BOOLEAN /\ Enabled(Press(x)) \in BOOLEAN
    BY DEF Enabled
  <2> QED
    BY <1>2, <2>1, <2>2, <2>3
<1>5. /\ PressFx(x).row = x.row /\ PressFx(x).bank = x.bank
      /\ PressFx(x).layout = x.layout /\ PressFx(x).hand = x.hand
      /\ PressFx(x).enabled = x.enabled /\ PressFx(x).out = x.out
  BY DEF PressFx, Mixers
<1>6. PressFx(x).fx = ~x.fx
  BY <1>1 DEF PressFx, Mixers
<1> QED
  BY <1>2, <1>4, <1>5, <1>6

-----------------------------------------------------------------------------
(* Answers under way.                                                      *)

\* The answers of a kind that are not older than the last question.
Fresh(out, k) ==
  {m \in {out[i] : i \in DOMAIN out} : m.kind = k /\ ~m.old}

Answers == {"track", "enable", "fx"}

LEMMA FreshConcat ==
  ASSUME NEW p \in Seq(Messages), NEW q \in Seq(Messages), NEW k
  PROVE  Fresh(p \o q, k) = Fresh(p, k) \cup Fresh(q, k)
<1>1. /\ Len(p) \in Nat /\ Len(q) \in Nat
      /\ DOMAIN p = 1..Len(p) /\ DOMAIN q = 1..Len(q)
      /\ DOMAIN (p \o q) = 1..(Len(p) + Len(q))
      /\ \A i \in 1..(Len(p) + Len(q)) :
           (p \o q)[i] = IF i <= Len(p) THEN p[i] ELSE q[i - Len(p)]
  BY LenProperties, ConcatProperties
<1>2. {(p \o q)[i] : i \in DOMAIN (p \o q)}
        = {p[i] : i \in DOMAIN p} \cup {q[i] : i \in DOMAIN q}
  <2>1. ASSUME NEW i \in DOMAIN (p \o q)
        PROVE  (p \o q)[i] \in {p[j] : j \in DOMAIN p} \cup {q[j] : j \in DOMAIN q}
    <3>1. CASE i <= Len(p)
      BY <1>1, <2>1, <3>1
    <3>2. CASE ~(i <= Len(p))
      <4>1. i - Len(p) \in DOMAIN q /\ (p \o q)[i] = q[i - Len(p)]
        BY <1>1, <2>1, <3>2
      <4> QED
        BY <4>1
    <3> QED
      BY <3>1, <3>2
  <2>2. ASSUME NEW j \in DOMAIN p
        PROVE  \E i \in DOMAIN (p \o q) : (p \o q)[i] = p[j]
    BY <1>1, <2>2
  <2>3. ASSUME NEW j \in DOMAIN q
        PROVE  \E i \in DOMAIN (p \o q) : (p \o q)[i] = q[j]
    <3>1. /\ j + Len(p) \in DOMAIN (p \o q)
          /\ (p \o q)[j + Len(p)] = q[j]
      BY <1>1, <2>3
    <3> QED
      BY <3>1
  <2>4. {(p \o q)[i] : i \in DOMAIN (p \o q)}
          \subseteq {p[i] : i \in DOMAIN p} \cup {q[i] : i \in DOMAIN q}
    BY <2>1
  <2>5. {p[i] : i \in DOMAIN p} \subseteq {(p \o q)[i] : i \in DOMAIN (p \o q)}
    BY <2>2
  <2>6. {q[i] : i \in DOMAIN q} \subseteq {(p \o q)[i] : i \in DOMAIN (p \o q)}
    BY <2>3
  <2> QED
    BY <2>4, <2>5, <2>6
<1> QED
  BY <1>2 DEF Fresh

LEMMA FreshOne ==
  ASSUME NEW m, NEW k
  PROVE  Fresh(<<m>>, k) = IF m.kind = k /\ ~m.old THEN {m} ELSE {}
BY DEF Fresh

LEMMA FreshTwo ==
  ASSUME NEW m, NEW n, m.kind # n.kind, ~m.old, ~n.old
  PROVE  /\ Fresh(<<m, n>>, m.kind) = {m}
         /\ Fresh(<<m, n>>, n.kind) = {n}
<1>1. {<<m, n>>[i] : i \in DOMAIN <<m, n>>} = {m, n}
  <2>1. /\ DOMAIN <<m, n>> = {1, 2}
        /\ <<m, n>>[1] = m /\ <<m, n>>[2] = n
    OBVIOUS
  <2> QED
    BY <2>1
<1> QED
  BY <1>1 DEF Fresh

LEMMA FreshTail ==
  ASSUME NEW p \in Seq(Messages), p # <<>>, NEW k
  PROVE  /\ Fresh(Tail(p), k) \subseteq Fresh(p, k)
         /\ Fresh(p, k) \subseteq Fresh(Tail(p), k) \cup {Head(p)}
         /\ Head(p).kind = k /\ ~Head(p).old => Head(p) \in Fresh(p, k)
<1>1. /\ Len(p) \in Nat /\ Len(p) # 0
      /\ DOMAIN p = 1..Len(p) /\ DOMAIN Tail(p) = 1..(Len(p) - 1)
      /\ \A i \in 1..(Len(p) - 1) : Tail(p)[i] = p[i + 1]
      /\ Head(p) = p[1]
  BY LenProperties, HeadTailProperties, EmptySeq
<1>2. {Tail(p)[i] : i \in DOMAIN Tail(p)} \subseteq {p[i] : i \in DOMAIN p}
  BY <1>1
<1>3. ASSUME NEW i \in DOMAIN p
      PROVE  p[i] \in {Tail(p)[j] : j \in DOMAIN Tail(p)} \cup {Head(p)}
  <2>1. CASE i = 1
    BY <1>1, <2>1
  <2>2. CASE i # 1
    <3>1. i - 1 \in DOMAIN Tail(p) /\ Tail(p)[i - 1] = p[i]
      BY <1>1, <1>3, <2>2
    <3> QED
      BY <3>1
  <2> QED
    BY <2>1, <2>2
<1>4. Head(p) \in {p[i] : i \in DOMAIN p}
  BY <1>1
<1> QED
  BY <1>2, <1>3, <1>4 DEF Fresh

LEMMA FreshChanged ==
  ASSUME NEW x \in Mixers, NEW y \in Mixers, y.out = x.out, NEW k \in Answers
  PROVE  Fresh(Changed(x, y).out, k) = Fresh(x.out, k)
<1>1. CASE x = y
  BY <1>1 DEF Changed
<1>2. CASE x # y
  <2>1. Changed(x, y).out = y.out \o Dump(y)
    BY <1>2 DEF Changed, Mixers
  <2>2. Fresh(Dump(y), k) = {}
    BY DEF Fresh, Dump, Answers
  <2>3. y.out \in Seq(Messages) /\ Dump(y) \in Seq(Messages)
    BY DumpFits, MixerFits
  <2>4. Fresh(y.out \o Dump(y), k) = Fresh(y.out, k) \cup Fresh(Dump(y), k)
    BY <2>3, FreshConcat
  <2> QED
    BY <2>1, <2>2, <2>4
<1> QED
  BY <1>1, <1>2

LEMMA FreshCommands ==
  ASSUME NEW x \in Mixers, NEW k \in Answers
  PROVE  /\ \A r \in Rows : Fresh(ToRow(x, r).out, k) = Fresh(x.out, k)
         /\ \A b \in Hw : Fresh(ToBank(x, b).out, k) = Fresh(x.out, k)
<1>1. ASSUME NEW y \in Mixers, NEW h
      PROVE  [y EXCEPT !.hand = h].out = y.out
  BY DEF Mixers
<1>2. ASSUME NEW r \in Rows
      PROVE  Fresh(ToRow(x, r).out, k) = Fresh(x.out, k)
  <2> DEFINE y == [x EXCEPT !.row = r]
  <2>1. y \in Mixers /\ y.out = x.out
    BY DEF Mixers
  <2>2. ToRow(x, r).out = Changed(x, y).out
    BY <1>1, <2>1, ChangedFits DEF ToRow, MovesRow
  <2> QED
    BY <2>1, <2>2, FreshChanged
<1>3. ASSUME NEW b \in Hw
      PROVE  Fresh(ToBank(x, b).out, k) = Fresh(x.out, k)
  <2> DEFINE y == [x EXCEPT !.bank = b]
  <2>1. y \in Mixers /\ y.out = x.out
    BY DEF Mixers
  <2>2. ToBank(x, b).out = Changed(x, y).out
    BY <1>1, <2>1, ChangedFits DEF ToBank, MovesBank
  <2> QED
    BY <2>1, <2>2, FreshChanged
<1> QED
  BY <1>2, <1>3

\* A question leaves nothing fresh under way, ...
LEMMA FreshAsked ==
  ASSUME NEW x \in Mixers, NEW k \in Answers
  PROVE  Fresh(Asked(x).out, k) = {}
<1> DEFINE out == [i \in DOMAIN x.out |->
                     IF x.out[i].kind \in {"track", "enable", "fx"}
                       THEN [x.out[i] EXCEPT !.old = TRUE] ELSE x.out[i]]
<1>1. Asked(x).out = out
  BY DEF Asked, Mixers
<1>2. ASSUME NEW i \in DOMAIN x.out, out[i].kind = k
      PROVE  out[i].old
  <2>1. x.out[i] \in Messages
    BY MixerFits, LenProperties, ElementOfSeq
  <2>2. CASE x.out[i].kind \in Answers
    <3>1. out[i] = [x.out[i] EXCEPT !.old = TRUE]
      BY <2>2 DEF Answers
    <3>2. x.out[i] \in [kind : {"track"}, ch : SUBSET Hw, old : BOOLEAN]
            \cup [kind : {"enable", "fx"}, on : BOOLEAN, old : BOOLEAN]
      BY <2>1, <2>2 DEF Messages, Answers
    <3> QED
      BY <3>1, <3>2
  <2>3. CASE x.out[i].kind \notin Answers
    BY <1>2, <2>3 DEF Answers
  <2> QED
    BY <2>2, <2>3
<1>3. DOMAIN out = DOMAIN x.out
  OBVIOUS
<1> HIDE DEF out
<1>4. ASSUME NEW m \in Fresh(out, k)
      PROVE  FALSE
  <2>1. PICK i \in DOMAIN x.out : m = out[i]
    BY <1>3, <1>4 DEF Fresh
  <2>2. out[i].kind = k /\ ~out[i].old
    BY <1>4, <2>1 DEF Fresh
  <2> QED
    BY <1>2, <2>2
<1> QED
  BY <1>1, <1>4

\* ... and what comes for it, says what page 2 or 3 shows.
Track(x)  == [kind |-> "track", ch |-> Shown(x, 1), old |-> FALSE]
Enable(x) == [kind |-> "enable", on |-> Enabled(x), old |-> FALSE]
Fx(x)     == [kind |-> "fx", on |-> x.fx, old |-> FALSE]

LEMMA FreshMirror ==
  ASSUME NEW x \in Mixers, NEW r \in Rows
  PROVE  LET y == Mirror(x, r)
         IN  /\ Fresh(y.out, "track") = Fresh(x.out, "track") \cup {Track(y)}
             /\ Fresh(y.out, "enable") = Fresh(x.out, "enable") \cup {Enable(y)}
<1> DEFINE z == ToRow(x, r)
           y == Mirror(x, r)
           t == <<Track(z), Enable(z)>>
<1>1. z \in Mixers
  BY CommandsFit
<1>2. t \in Seq(Messages)
  <2>1. Shown(z, 1) \in SUBSET Hw /\ Enabled(z) \in BOOLEAN
    BY <1>1, MixerFits DEF Enabled
  <2>2. Track(z) \in Messages /\ Enable(z) \in Messages
    BY <2>1, MessageFits DEF Track, Enable
  <2> QED
    BY <2>2
<1>3. y.out = z.out \o t
  BY <1>1 DEF Mirror, Mixers, Track, Enable
<1>4. Fresh(t, "track") = {Track(z)} /\ Fresh(t, "enable") = {Enable(z)}
  <2>1. /\ Track(z).kind = "track" /\ Enable(z).kind = "enable"
        /\ ~Track(z).old /\ ~Enable(z).old
    BY DEF Track, Enable
  <2> QED
    BY <2>1, FreshTwo
<1>5. Track(y) = Track(z) /\ Enable(y) = Enable(z)
  <2>1. /\ y.layout = z.layout /\ y.bank = z.bank /\ y.row = z.row
        /\ y.enabled = z.enabled
    BY Reads, Commands
  <2> QED
    BY <2>1, ShownSame DEF Track, Enable, Enabled
<1>6. /\ Fresh(z.out, "track") = Fresh(x.out, "track")
      /\ Fresh(z.out, "enable") = Fresh(x.out, "enable")
  BY FreshCommands DEF Answers
<1>7. /\ Fresh(y.out, "track") = Fresh(z.out, "track") \cup Fresh(t, "track")
      /\ Fresh(y.out, "enable") = Fresh(z.out, "enable") \cup Fresh(t, "enable")
  <2>1. z.out \in Seq(Messages)
    BY <1>1, MixerFits
  <2> HIDE DEF t
  <2>2. \A k : Fresh(z.out \o t, k) = Fresh(z.out, k) \cup Fresh(t, k)
    BY <1>2, <2>1, FreshConcat
  <2> QED
    BY <1>3, <2>2
<1> HIDE DEF t, z, y
<1>8. /\ Fresh(y.out, "track") = Fresh(x.out, "track") \cup {Track(y)}
      /\ Fresh(y.out, "enable") = Fresh(x.out, "enable") \cup {Enable(y)}
  BY <1>4, <1>5, <1>6, <1>7
<1> QED
  BY <1>8 DEF y

LEMMA FreshMirrorFx ==
  ASSUME NEW x \in Mixers
  PROVE  Fresh(MirrorFx(x).out, "fx") = Fresh(x.out, "fx") \cup {Fx(MirrorFx(x))}
<1>1. Fx(x) \in Messages /\ x.out \in Seq(Messages)
  BY MixerFits, MessageFits DEF Fx
<1>2. MirrorFx(x).out = x.out \o <<Fx(x)>>
  <2>1. MirrorFx(x).out = Append(x.out, Fx(x))
    BY DEF MirrorFx, Mixers, Fx
  <2> QED
    BY <1>1, <2>1, AppendIsConcat
<1>3. Fresh(<<Fx(x)>>, "fx") = {Fx(x)}
  <2>1. Fx(x).kind = "fx" /\ ~Fx(x).old
    BY DEF Fx
  <2> QED
    BY <2>1, FreshOne
<1>4. Fx(MirrorFx(x)) = Fx(x)
  BY Reads DEF Fx
<1>5. <<Fx(x)>> \in Seq(Messages)
  BY <1>1
<1>6. Fresh(x.out \o <<Fx(x)>>, "fx") = Fresh(x.out, "fx") \cup Fresh(<<Fx(x)>>, "fx")
  BY <1>1, <1>5, FreshConcat
<1> QED
  BY <1>2, <1>3, <1>4, <1>6

-----------------------------------------------------------------------------
(* The invariant.                                                          *)

\* What is read, waited for or written belongs to the kind of the step, ...
Staged ==
  /\ pc \in {"label", "provoke", "match", "settle"} => S.kind \in {"send", "mute"}
  /\ pc = "track" => S.kind \in Page2 \cup {"sweep"}
  /\ pc \in {"read", "enable"} => S.kind \in {"enable", "pulse"}
  /\ pc = "pulse" => S.kind = "pulse"
  /\ pc = "set" => S.kind \in {"enable", "fx"}
  /\ pc = "fx" => S.kind = "fx"
  /\ pc \in {"sweep", "observe"} => S.kind = "sweep"
  /\ pc = "any" => S.kind = "outputs"
  /\ pc = "write" => S.kind \in {"send", "mute", "detail"}

\* ... and who is woken for an answer has it.
Woken == wait = "woken" /\ pc \in Answers => pc \in since

\* The answer that is waited for is under way, or has come.
Pending == calm /\ pc \in Answers => pc \in since \/ Fresh(mixer.out, pc) # {}

\* On page 2 a fresh answer is what the mixer shows, until the write.
Aimed ==
  /\ mishaps \cap {"late", "moved"} = {}
  /\ pc \in {"track", "write", "read", "enable", "set", "pulse"}
  /\ S.kind \in Page2
  => /\ mixer.row = S.row
     /\ IF pc = "track"
        THEN /\ \A m \in Fresh(mixer.out, "track") : m.ch = Shown(mixer, 1)
             /\ "track" \in since /\ ~state.track.old =>
                  state.track.ch = Shown(mixer, 1)
        ELSE Covers(Shown(mixer, 1), S.ch)

\* So is what is heard of a button, until it is set.
EnableHeard ==
  calm =>
    /\ pc = "enable" =>
         /\ \A m \in Fresh(mixer.out, "enable") : m.on = Enabled(mixer)
         /\ "enable" \in since /\ ~state.enable.old =>
              state.enable.on = Enabled(mixer)
    /\ pc = "pulse" \/ (pc = "set" /\ S.kind = "enable") => button = Enabled(mixer)
    /\ pc = "after" /\ S.kind = "enable" => Enabled(mixer) = S.on

FxHeard ==
  calm =>
    /\ pc = "fx" =>
         /\ \A m \in Fresh(mixer.out, "fx") : m.on = mixer.fx
         /\ "fx" \in since /\ ~state.fx.old => state.fx.on = mixer.fx
    /\ pc = "set" /\ S.kind = "fx" => button = mixer.fx
    /\ pc = "after" /\ S.kind = "fx" => mixer.fx = S.on

\* Whoever moves the bank or the row is about to move it back, ...
BankHome ==
  calm =>
    \/ mixer.bank = 0
    \/ "bank" \in mixer.hand
    \/ bankDirty
    \/ Plays({"sweep"})
    \/ pc = "track"

RowHome ==
  calm => mixer.row = 1 \/ "row" \in mixer.hand \/ RowDirty \/ pc = "any"

\* ... before the next step as far as the bank is concerned.
DirtyUntilAfter ==
  /\ calm /\ bankDirty =>
       /\ pc \in {"write", "read", "enable", "set", "pulse", "after"}
       /\ S.kind \in Page2
  /\ pc = "idle" => macro = <<>> /\ bankDirty = FALSE


-----------------------------------------------------------------------------
(* Where a run is.                                                         *)

LEMMA StagedKept ==
  ASSUME TypeOK, Staged, Next
  PROVE  Staged'
<1>1. CASE UNCHANGED <<pc, plan>>
  BY <1>1 DEF Staged, S, plan
<1>2. CASE pc' \in {"idle", "steps", "finally", "refused", "after"}
  BY <1>2 DEF Staged
<1>3. CASE /\ UNCHANGED plan /\ S.kind \in {"send", "mute"}
           /\ pc' \in {"label", "provoke", "match", "settle", "write"}
  BY <1>3 DEF Staged, S, plan
<1>4. CASE AimsSend \/ AimsMute
  BY <1>3, <1>4 DEF AimsSend, AimsMute, At, Waits
<1>5. CASE LabelSeen \/ Provokes \/ AlreadyFresh \/ Candidate \/ StillStreaming
           \/ Unsettled \/ Settled \/ \E s \in 1..Channels : NoLabel(s)
  BY <1>3, <1>5 DEF LabelSeen, Provokes, AlreadyFresh, Candidate, plan,
     StillStreaming, Unsettled, Settled, NoLabel, Satisfied, TimesOut, Waits,
     Staged
<1>6. CASE AimsPage2 \/ ShowsOutputs \/ SweepBegins \/ ReadsFx
  <2>1. /\ UNCHANGED plan
        /\ \/ pc' = "track" /\ S.kind \in Page2
           \/ pc' = "any" /\ S.kind = "outputs"
           \/ pc' = "sweep" /\ S.kind = "sweep"
           \/ pc' = "fx" /\ S.kind = "fx"
    BY <1>6 DEF AimsPage2, ShowsOutputs, SweepBegins, ReadsFx, At, Waits
  <2> QED
    BY <2>1 DEF Staged, S, plan
<1>7. CASE Confirms \/ ReadsEnable \/ ButtonRead
  <2>1. UNCHANGED plan
    BY <1>7 DEF Confirms, ReadsEnable, ButtonRead
  <2>2. \/ pc' = "write" /\ S.kind = "detail"
        \/ pc' = "read" /\ S.kind \in {"enable", "pulse"}
        \/ pc' = "enable" /\ S.kind \in {"enable", "pulse"}
        \/ pc' = "pulse" /\ S.kind = "pulse"
        \/ pc' = "set" /\ S.kind \in {"enable", "fx"}
    BY <1>7 DEF Confirms, ReadsEnable, ButtonRead, Satisfied, Waits, Staged,
       Page2
  <2> QED
    BY <2>1, <2>2 DEF Staged, S, plan
<1>8. CASE SweepAims \/ SweepReads \/ SweepObserves
  <2>1. \/ pc' = "steps"
        \/ /\ UNCHANGED plan /\ S.kind = "sweep"
           /\ pc' \in {"track", "observe", "sweep"}
    BY <1>8 DEF SweepAims, SweepReads, SweepObserves, Waits, Staged, NextStep,
       plan
  <2> QED
    BY <2>1 DEF Staged, S, plan
<1> QED
  BY <1>1, <1>2, <1>4, <1>5, <1>6, <1>7, <1>8
     DEF Next, Run, Page1Run, Page2Run, OtherRun, Listener, Begins, Switches,
     PlaysRaw, Selects, Aborts, Unmeasured, WrongLabel, NoLabel, Settled,
     NotInBank, Misaimed, Unconfirmed, Skips, Raises, ButtonUnknown, Sets,
     Pulses, Writes, StepEnds, Probes, ShowsInputs, SweepAborts, StepsDone,
     Finally, Registers, LooksAgain, Ingests, Copies, Wakes, Drops, Touches,
     Restores, Pressed, NextStep, Satisfied

LEMMA WokenKept ==
  ASSUME TypeOK, Woken, Next
  PROVE  Woken'
<1>1. CASE Wakes
  BY <1>1 DEF Wakes, Woken, Holds, Answers, heard
<1>2. CASE wait' # "woken"
  BY <1>2 DEF Woken
<1>3. CASE UNCHANGED <<wait, pc>> /\ since \subseteq since'
  BY <1>3 DEF Woken
<1>4. CASE pc' \notin Answers
  BY <1>4 DEF Woken
<1>5. CASE pc \notin Waiting /\ UNCHANGED wait
  BY <1>5 DEF Woken, TypeOK
<1> QED
  BY <1>1, <1>2, <1>3, <1>4, <1>5
     DEF Next, Run, Page1Run, Page2Run, OtherRun, Listener, Begins, Switches,
     PlaysRaw, Selects, Aborts, Unmeasured, AimsSend, AimsMute, LabelSeen,
     WrongLabel, NoLabel, Provokes, AlreadyFresh, Candidate, StillStreaming,
     Settled, Unsettled, NotInBank, AimsPage2, Confirms, Misaimed, Unconfirmed,
     Skips, Raises, ReadsEnable, ReadsFx, ButtonRead, ButtonUnknown, Sets,
     Pulses, Writes, StepEnds, Probes, ShowsOutputs, ShowsInputs, SweepBegins,
     SweepAims, SweepReads, SweepObserves, SweepAborts, StepsDone, Finally,
     Registers, LooksAgain, Ingests, Copies, Drops, Touches, Restores, Pressed,
     NextStep, Waits, Answers, Waiting, Between, heard, At

\* Who waits for an answer and sleeps, is not out of time while nothing is lost:
\* the answer is about to come.
LEMMA AnswerComes ==
  ASSUME TypeOK, WaitMissesNothing, Pending, calm, pc \in Answers,
         wait = "asleep"
  PROVE  ~Quiet
<1> SUFFICES ASSUME Quiet
             PROVE  FALSE
  OBVIOUS
<1>1. Fresh(mixer.out, pc) = {}
  BY DEF Quiet, Fresh
<1>2. pc \in since
  BY <1>1 DEF Pending
<1>3. Holds
  BY <1>2 DEF Holds, Answers
<1> QED
  BY <1>3 DEF WaitMissesNothing, Quiet


\* No mishap is taken back.
LEMMA MishapsStay ==
  ASSUME Next
  PROVE  mishaps \subseteq mishaps'
<1>1. CASE \E kinds : Suffers(kinds)
  BY <1>1 DEF Suffers
<1>2. CASE UNCHANGED mishaps
  BY <1>2
<1> QED
  BY <1>1, <1>2
     DEF Next, Run, Page1Run, Page2Run, OtherRun, Listener, Begins, Switches,
     PlaysRaw, Selects, Aborts, Unmeasured, AimsSend, AimsMute, LabelSeen,
     WrongLabel, NoLabel, Provokes, AlreadyFresh, Candidate, StillStreaming,
     Settled, Unsettled, NotInBank, AimsPage2, Confirms, Misaimed, Unconfirmed,
     Skips, Raises, ReadsEnable, ReadsFx, ButtonRead, ButtonUnknown, Sets,
     Pulses, Writes, StepEnds, Probes, ShowsOutputs, ShowsInputs, SweepBegins,
     SweepAims, SweepReads, SweepObserves, SweepAborts, StepsDone, Finally,
     Registers, LooksAgain, Ingests, Copies, Wakes, Drops, Touches, Restores,
     Pressed

LEMMA CalmBefore ==
  ASSUME Next, calm'
  PROVE  calm
BY MishapsStay DEF calm

LEMMA CalmStep ==
  ASSUME NEW kinds, Suffers(kinds), calm'
  PROVE  kinds = {} /\ calm
BY DEF Suffers, calm

\* The mixer after a question that was not lost.
LEMMA Questions ==
  ASSUME NEW x \in Mixers, NEW r \in Rows, NEW b \in Hw
  PROVE  LET y == Mirror(Asked(x), r)
             z == Mirror(ToBank(Asked(x), b), r)
             w == Mirror(ToBank(ToRow(Asked(x), r), b), r)
         IN  /\ Fresh(y.out, "enable") = {Enable(y)}
             /\ Fresh(z.out, "track") = {Track(z)}
             /\ Fresh(w.out, "track") = {Track(w)}
             /\ Fresh(MirrorFx(Asked(x)).out, "fx") = {Fx(MirrorFx(Asked(x)))}
<1> DEFINE a == Asked(x)
<1>1. /\ a \in Mixers /\ ToBank(a, b) \in Mixers /\ ToRow(a, r) \in Mixers
      /\ ToBank(ToRow(a, r), b) \in Mixers
  BY AllFit
<1>2. ASSUME NEW k \in Answers
      PROVE  /\ Fresh(a.out, k) = {}
             /\ Fresh(ToBank(a, b).out, k) = {}
             /\ Fresh(ToBank(ToRow(a, r), b).out, k) = {}
  <2>1. Fresh(a.out, k) = {}
    BY FreshAsked
  <2>2. /\ Fresh(ToBank(a, b).out, k) = Fresh(a.out, k)
        /\ Fresh(ToRow(a, r).out, k) = Fresh(a.out, k)
    BY <1>1, FreshCommands
  <2>3. Fresh(ToBank(ToRow(a, r), b).out, k) = Fresh(ToRow(a, r).out, k)
    BY <1>1, FreshCommands
  <2> QED
    BY <2>1, <2>2, <2>3
<1> HIDE DEF a
<1>3. /\ Fresh(Mirror(a, r).out, "enable")
           = Fresh(a.out, "enable") \cup {Enable(Mirror(a, r))}
      /\ Fresh(Mirror(ToBank(a, b), r).out, "track")
           = Fresh(ToBank(a, b).out, "track") \cup {Track(Mirror(ToBank(a, b), r))}
      /\ Fresh(Mirror(ToBank(ToRow(a, r), b), r).out, "track")
           = Fresh(ToBank(ToRow(a, r), b).out, "track")
               \cup {Track(Mirror(ToBank(ToRow(a, r), b), r))}
      /\ Fresh(MirrorFx(a).out, "fx")
           = Fresh(a.out, "fx") \cup {Fx(MirrorFx(a))}
  BY <1>1, FreshMirror, FreshMirrorFx
<1>4. "track" \in Answers /\ "enable" \in Answers /\ "fx" \in Answers
  BY DEF Answers
<1> QED
  BY <1>2, <1>3, <1>4 DEF a

LEMMA PendingKept ==
  ASSUME TypeOK, Pending, Next
  PROVE  Pending'
<1> SUFFICES ASSUME calm', pc' \in Answers
             PROVE  (pc \in since \/ Fresh(mixer.out, pc) # {})'
  BY DEF Pending
<1>0. calm /\ mixer \in Mixers /\ (step \in DOMAIN macro => S.row \in Rows)
  BY CalmBefore, MacroFits DEF TypeOK
<1>p. pc \notin Between => step \in DOMAIN macro
  BY DEF TypeOK
<1>1. CASE AimsPage2
  <2>1. S.row \in Rows /\ Start[S.row][S.ch] \in Hw
    BY <1>0, <1>1, AimAssumption DEF AimsPage2, At
  <2>2. /\ mixer' = Mirror(ToBank(ToRow(Asked(mixer), S.row),
                                  Start[S.row][S.ch]), S.row)
        /\ pc' = "track"
    BY <1>1, CalmStep DEF AimsPage2, Sent, If, Waits
  <2>3. Fresh(mixer'.out, "track") = {Track(mixer')}
    BY <1>0, <2>1, <2>2, Questions
  <2> QED
    BY <2>2, <2>3
<1>2. CASE SweepAims
  <2>1. S.row \in Rows
    BY <1>0, <1>p, <1>2 DEF SweepAims, Between
  <2>2. Offset \in Hw
    BY AimAssumption DEF Offset, Hw, TypeOK
  <2>3. /\ mixer' = Mirror(ToBank(Asked(mixer), Offset), S.row)
        /\ pc' = "track"
    BY <1>2, CalmStep DEF SweepAims, Sent, If, Waits
  <2> QED
    BY <1>0, <2>1, <2>2, <2>3, Questions
<1>3. CASE ReadsEnable
  <2>1. S.row \in Rows /\ 0 \in Hw
    BY <1>0, <1>p, <1>3, AimAssumption DEF ReadsEnable, Between, Hw
  <2>2. mixer' = Mirror(Asked(mixer), S.row) /\ pc' = "enable"
    BY <1>3, CalmStep DEF ReadsEnable, Sent, If, Waits
  <2> QED
    BY <1>0, <2>1, <2>2, Questions
<1>4. CASE ReadsFx
  <2>1. 1 \in Rows /\ 0 \in Hw
    BY AimAssumption DEF Rows, Hw
  <2>2. mixer' = MirrorFx(Asked(mixer)) /\ pc' = "fx"
    BY <1>4, CalmStep DEF ReadsFx, Sent, If, Waits
  <2> QED
    BY <1>0, <2>1, <2>2, Questions
<1>5. CASE Ingests
  <2>1. /\ pc' = pc /\ since' = since \cup {"any", Head(mixer.out).kind}
        /\ mixer'.out = Tail(mixer.out) /\ mixer.out # <<>>
    BY <1>0, <1>5 DEF Ingests, Mixers
  <2>2. pc \in since \/ Fresh(mixer.out, pc) # {}
    BY <1>0, <2>1 DEF Pending
  <2>3. /\ mixer.out \in Seq(Messages)
        /\ Fresh(mixer.out, pc) \subseteq
             Fresh(Tail(mixer.out), pc) \cup {Head(mixer.out)}
    BY <1>0, <2>1, MixerFits, FreshTail
  <2>4. Head(mixer.out) \in Fresh(mixer.out, pc) => Head(mixer.out).kind = pc
    BY DEF Fresh
  <2> QED
    BY <2>1, <2>2, <2>3, <2>4
<1>6. CASE Drops
  BY <1>6, CalmStep DEF Drops
<1>7. CASE Touches
  BY <1>7, CalmStep DEF Touches, If, Answers
<1>8. CASE pc' = pc /\ UNCHANGED <<mixer, since>>
  BY <1>0, <1>8 DEF Pending
<1> QED
  BY <1>1, <1>2, <1>3, <1>4, <1>5, <1>6, <1>7, <1>8
     DEF Next, Run, Page1Run, Page2Run, OtherRun, Listener, Begins, Switches,
     PlaysRaw, Selects, Aborts, Unmeasured, AimsSend, AimsMute, LabelSeen,
     WrongLabel, NoLabel, Provokes, AlreadyFresh, Candidate, StillStreaming,
     Settled, Unsettled, NotInBank, Confirms, Misaimed, Unconfirmed, Skips,
     Raises, ButtonRead, ButtonUnknown, Sets, Pulses, Writes, StepEnds, Probes,
     ShowsOutputs, ShowsInputs, SweepBegins, SweepReads, SweepObserves,
     SweepAborts, StepsDone, Finally, Registers, LooksAgain, Copies, Wakes,
     NextStep, Waits, Answers, heard


-----------------------------------------------------------------------------
(* The aim of page 2.                                                      *)

\* What was heard last of a kind, once something was.
LEMMA HeardAnswer ==
  ASSUME TypeOK, Woken, NEW at \in Answers, Satisfied(at)
  PROVE  pc = at /\ at \in since
<1>1. pc = at /\ (Holds \/ wait = "woken")
  BY DEF Satisfied
<1>2. Holds => pc \in since
  BY <1>1 DEF Holds, Answers
<1> QED
  BY <1>1, <1>2 DEF Woken

\* A message is taken from the head of what is under way.
LEMMA Taken ==
  ASSUME mixer \in Mixers, mixer.out # <<>>, NEW k,
         mixer' = [mixer EXCEPT !.out = Tail(@)]
  PROVE  /\ mixer'.row = mixer.row /\ mixer'.bank = mixer.bank
         /\ mixer'.fx = mixer.fx /\ mixer'.hand = mixer.hand
         /\ Shown(mixer', 1) = Shown(mixer, 1)
         /\ Enabled(mixer') = Enabled(mixer)
         /\ Fresh(mixer'.out, k) \subseteq Fresh(mixer.out, k)
         /\ Head(mixer.out) \in Messages
         /\ Head(mixer.out).kind = k /\ ~Head(mixer.out).old
              => Head(mixer.out) \in Fresh(mixer.out, k)
<1>1. /\ mixer'.row = mixer.row /\ mixer'.bank = mixer.bank
      /\ mixer'.layout = mixer.layout /\ mixer'.enabled = mixer.enabled
      /\ mixer'.fx = mixer.fx /\ mixer'.hand = mixer.hand
      /\ mixer'.out = Tail(mixer.out)
  BY DEF Mixers
<1>2. Shown(mixer', 1) = Shown(mixer, 1)
  BY <1>1 DEF Shown
<1>3. mixer.out \in Seq(Messages)
  BY MixerFits
<1> QED
  BY <1>1, <1>2, <1>3, FreshTail, HeadTailProperties DEF Enabled

LEMMA AimedKept ==
  ASSUME TypeOK, Staged, Woken, Aimed, Next
  PROVE  Aimed'
<1> SUFFICES ASSUME (mishaps \cap {"late", "moved"} = {})',
                    (pc \in {"track", "write", "read", "enable", "set",
                             "pulse"})',
                    (S.kind \in Page2)'
             PROVE  (/\ mixer.row = S.row
                     /\ IF pc = "track"
                        THEN /\ \A m \in Fresh(mixer.out, "track") :
                                  m.ch = Shown(mixer, 1)
                             /\ "track" \in since /\ ~state.track.old =>
                                  state.track.ch = Shown(mixer, 1)
                        ELSE Covers(Shown(mixer, 1), S.ch))'
  BY DEF Aimed
<1>0. /\ mixer \in Mixers /\ mishaps \cap {"late", "moved"} = {}
      /\ step \in DOMAIN macro => S.row \in Rows
  BY MishapsStay, MacroFits DEF TypeOK
<1>p. pc \notin Between => step \in DOMAIN macro
  BY DEF TypeOK
<1>1. CASE AimsPage2
  <2>1. S.row \in Rows /\ Start[S.row][S.ch] \in Hw
    BY <1>0, <1>1, AimAssumption DEF AimsPage2, At
  <2>2. /\ UNCHANGED S /\ "track" \notin since'
        /\ pc' = "track"
    BY <1>1 DEF AimsPage2, Waits, Notes, plan, S
  <2>3. PICK lost \in 0..3 :
          LET row  == Sent(1, lost, Asked(mixer), ToRow(Asked(mixer), S.row))
              bank == Sent(2, lost, row, ToBank(row, Start[S.row][S.ch]))
          IN  mixer' = Sent(3, lost, bank, Mirror(bank, S.row))
    BY <1>1 DEF AimsPage2
  <2> DEFINE row  == Sent(1, lost, Asked(mixer), ToRow(Asked(mixer), S.row))
             bank == Sent(2, lost, row, ToBank(row, Start[S.row][S.ch]))
  <2>4. /\ row \in Mixers /\ Fresh(row.out, "track") = {}
        /\ lost # 1 => row.row = S.row
    <3>1. Asked(mixer) \in Mixers /\ Fresh(Asked(mixer).out, "track") = {}
      BY <1>0, AllFit, FreshAsked DEF Answers
    <3> QED
      BY <2>1, <3>1, AllFit, FreshCommands, Commands DEF Sent, Answers
  <2> HIDE DEF row
  <2>5. /\ bank \in Mixers /\ Fresh(bank.out, "track") = {}
        /\ lost # 1 => bank.row = S.row
    BY <2>1, <2>4, AllFit, FreshCommands, Commands DEF Sent, Answers
  <2>6. mixer' = IF lost = 3 THEN bank ELSE Mirror(bank, S.row)
    BY <2>3 DEF Sent, row, bank
  <2> HIDE DEF bank
  <2>7. CASE lost = 3
    BY <2>2, <2>5, <2>6, <2>7
  <2>8. CASE lost # 3
    <3>1. mixer' = Mirror(bank, S.row)
      BY <2>6, <2>8
    <3>2. mixer'.row = S.row /\ Fresh(mixer'.out, "track") = {Track(mixer')}
      BY <2>1, <2>5, <3>1, Reads, FreshMirror
    <3> QED
      BY <2>2, <3>2 DEF Track
  <2> QED
    BY <2>7, <2>8
<1>2. CASE Confirms
  <2>1. Satisfied("track") /\ S.kind \in Page2 /\ pc' # "track"
    BY <1>2 DEF Confirms
  <2>2. pc = "track" /\ "track" \in since
    BY <2>1, HeardAnswer DEF Answers
  <2>3. ~state.track.old
    BY <1>2 DEF Confirms, Suffers, If
  <2>4. mixer.row = S.row /\ state.track.ch = Shown(mixer, 1)
    BY <1>0, <2>1, <2>2, <2>3 DEF Aimed
  <2> QED
    BY <1>2, <2>1, <2>4 DEF Confirms, S, plan
<1>3. CASE ReadsEnable
  <2>1. pc = "read" /\ pc' = "enable" /\ UNCHANGED S
    BY <1>3 DEF ReadsEnable, Waits, plan, S
  <2>2. mixer' = Asked(mixer) \/ mixer' = Mirror(Asked(mixer), S.row)
    BY <1>3 DEF ReadsEnable, Sent
  <2>3. mixer.row = S.row /\ Covers(Shown(mixer, 1), S.ch)
    BY <1>0, <2>1 DEF Aimed
  <2>4. S.row \in Rows
    BY <1>0, <1>p, <2>1 DEF Between
  <2>5. /\ mixer'.row = S.row /\ mixer'.bank = mixer.bank
        /\ mixer'.layout = mixer.layout
    <3>1. /\ Asked(mixer) \in Mixers /\ Asked(mixer).row = mixer.row
          /\ Asked(mixer).bank = mixer.bank /\ Asked(mixer).layout = mixer.layout
      BY <1>0, AllFit, Reads
    <3>2. /\ Mirror(Asked(mixer), S.row).row = S.row
          /\ Mirror(Asked(mixer), S.row).bank = mixer.bank
          /\ Mirror(Asked(mixer), S.row).layout = mixer.layout
      BY <2>4, <3>1, Reads
    <3> QED
      BY <2>2, <2>3, <3>1, <3>2
  <2>6. Shown(mixer', 1) = Shown(mixer, 1)
    BY <2>5, ShownSame
  <2> QED
    BY <2>1, <2>3, <2>5, <2>6
<1>4. CASE ButtonRead
  <2>1. UNCHANGED <<mixer, S>> /\ pc \in {"enable", "fx"} /\ pc' # "track"
    BY <1>4 DEF ButtonRead, plan, S, Satisfied
  <2>2. pc = "enable"
    BY <2>1 DEF Staged, Page2
  <2> QED
    BY <1>0, <2>1, <2>2 DEF Aimed
<1>5. ASSUME NEW on \in BOOLEAN, Pulses(on)
      PROVE  (mixer.row = S.row /\ Covers(Shown(mixer, 1), S.ch))' /\ pc' # "track"
  <2>1. pc = "pulse" /\ pc' = "pulse" /\ UNCHANGED S
    BY <1>5 DEF Pulses, plan, S
  <2>2. mixer.row = S.row /\ Covers(Shown(mixer, 1), S.ch)
    BY <1>0, <2>1 DEF Aimed
  <2>3. mixer' = mixer \/ mixer' = Press(mixer) \/ mixer' = PressFx(mixer)
    BY <1>5 DEF Pulses, Pressed, Sent
  <2>4. mixer'.row = mixer.row /\ Shown(mixer', 1) = Shown(mixer, 1)
    BY <1>0, <2>3, PressFlips, ShownSame
  <2> QED
    BY <2>1, <2>2, <2>4
<1>6. CASE Ingests
  <2>1. /\ mixer.out # <<>> /\ mixer' = [mixer EXCEPT !.out = Tail(@)]
        /\ state' = Ingested(state, Head(mixer.out))
        /\ since' = since \cup {"any", Head(mixer.out).kind}
        /\ UNCHANGED <<pc, S>>
    BY <1>6 DEF Ingests, plan, S
  <2> DEFINE h == Head(mixer.out)
  <2>2. /\ mixer'.row = mixer.row /\ Shown(mixer', 1) = Shown(mixer, 1)
        /\ Fresh(mixer'.out, "track") \subseteq Fresh(mixer.out, "track")
        /\ h \in Messages
        /\ h.kind = "track" /\ ~h.old => h \in Fresh(mixer.out, "track")
    BY <1>0, <2>1, Taken
  <2>3. CASE h.kind = "track"
    <3>1. state'.track.ch = h.ch /\ state'.track.old = h.old
      BY <2>1, <2>3 DEF Ingested, TypeOK, DeviceStates
    <3> QED
      BY <1>0, <2>1, <2>2, <2>3, <3>1 DEF Aimed
  <2>4. CASE h.kind # "track"
    <3>1. state'.track = state.track
      BY <2>1, <2>2, <2>4 DEF Ingested, Stamped, TypeOK, DeviceStates, Messages
    <3>2. "track" \in since' => "track" \in since
      BY <2>1, <2>4
    <3> QED
      BY <1>0, <2>1, <2>2, <3>1, <3>2 DEF Aimed
  <2> QED
    BY <2>3, <2>4
<1>7. CASE Drops
  <2>1. /\ mixer.out # <<>> /\ mixer' = [mixer EXCEPT !.out = Tail(@)]
        /\ UNCHANGED <<state, since, pc, S>>
    BY <1>7 DEF Drops, plan, heard, S
  <2>2. /\ mixer'.row = mixer.row /\ Shown(mixer', 1) = Shown(mixer, 1)
        /\ Fresh(mixer'.out, "track") \subseteq Fresh(mixer.out, "track")
    BY <1>0, <2>1, Taken
  <2> QED
    BY <1>0, <2>1, <2>2 DEF Aimed
<1>8. CASE Touches
  BY <1>8 DEF Touches, Suffers, If
<1>9. CASE UNCHANGED <<mixer, state, since, pc, plan>>
  BY <1>0, <1>9 DEF Aimed, S, plan
<1>10. CASE UNCHANGED plan /\ S.kind \notin Page2
  BY <1>10 DEF S, plan
<1>11. CASE pc' \notin {"track", "write", "read", "enable", "set", "pulse"}
  BY <1>11
<1>12. CASE NoLabel(strip') \/ Settled \/ SweepAims
  BY <1>10, <1>12 DEF NoLabel, Settled, SweepAims, TimesOut, Staged, Page2
<1> QED
  BY <1>1, <1>2, <1>3, <1>4, <1>5, <1>6, <1>7, <1>8, <1>9, <1>11, <1>12
     DEF Next, Run, Page1Run, Page2Run, OtherRun, Listener, Begins, Switches,
     PlaysRaw, Selects, Aborts, Unmeasured, AimsSend, AimsMute, LabelSeen,
     WrongLabel, NoLabel, Provokes, AlreadyFresh, Candidate, StillStreaming,
     Unsettled, NotInBank, Misaimed, Unconfirmed, Skips, Raises, ReadsFx,
     ButtonUnknown, Sets, Writes, StepEnds, Probes, ShowsOutputs, ShowsInputs,
     SweepBegins, SweepReads, SweepObserves, SweepAborts, StepsDone, Finally,
     Registers, LooksAgain, Copies, Wakes, NextStep, Waits, heard


-----------------------------------------------------------------------------
(* Buttons.                                                                *)

\* What a change of a button does, when it is not lost.
LEMMA PressedRight ==
  ASSUME TypeOK, NEW on \in BOOLEAN, Pressed(on), calm'
  PROVE  /\ S.kind = "fx" /\ button = mixer.fx => mixer'.fx = on
         /\ S.kind # "fx" /\ button = Enabled(mixer) => Enabled(mixer') = on
<1>0. mixer \in Mixers /\ button \in BOOLEAN /\ mixer.fx \in BOOLEAN
  BY MixerFits DEF TypeOK
<1>1. PICK lost \in 0..1 :
        /\ mixer' = IF on = button THEN mixer
                    ELSE Sent(1, lost, mixer, IF S.kind = "fx" THEN PressFx(mixer)
                                                               ELSE Press(mixer))
        /\ Suffers(If("lost", lost # 0))
  BY DEF Pressed
<1>2. lost # 1
  BY <1>1, CalmStep DEF If
<1>3. mixer' = IF on = button THEN mixer
               ELSE IF S.kind = "fx" THEN PressFx(mixer) ELSE Press(mixer)
  BY <1>1, <1>2 DEF Sent
<1>4. CASE on = button
  BY <1>3, <1>4
<1>5. CASE on # button
  <2>1. on = ~button
    BY <1>0, <1>5
  <2>2. PressFx(mixer).fx = ~mixer.fx /\ Enabled(Press(mixer)) = ~Enabled(mixer)
    BY <1>0, PressFlips
  <2>3. S.kind = "fx" => mixer' = PressFx(mixer)
    BY <1>3, <1>5
  <2>4. S.kind # "fx" => mixer' = Press(mixer)
    BY <1>3, <1>5
  <2> QED
    BY <2>1, <2>2, <2>3, <2>4
<1> QED
  BY <1>4, <1>5

\* A read of a button that nothing disturbs, has its answer.
LEMMA NotUnknown ==
  ASSUME TypeOK, WaitMissesNothing, Pending, ButtonUnknown, calm'
  PROVE  FALSE
<1>1. pc \in Answers /\ wait = "asleep" /\ Suffers(If("early", ~Quiet))
  BY DEF ButtonUnknown, TimesOut, Answers
<1>2. calm /\ Quiet
  BY <1>1, CalmStep DEF If
<1> QED
  BY <1>1, <1>2, AnswerComes

LEMMA EnableHeardKept ==
  ASSUME TypeOK, WaitMissesNothing, Staged, Woken, Pending, EnableHeard, Next
  PROVE  EnableHeard'
<1> SUFFICES ASSUME calm'
             PROVE  (/\ pc = "enable" =>
                          /\ \A m \in Fresh(mixer.out, "enable") :
                               m.on = Enabled(mixer)
                          /\ "enable" \in since /\ ~state.enable.old =>
                               state.enable.on = Enabled(mixer)
                     /\ pc = "pulse" \/ (pc = "set" /\ S.kind = "enable") =>
                          button = Enabled(mixer)
                     /\ pc = "after" /\ S.kind = "enable" =>
                          Enabled(mixer) = S.on)'
  BY DEF EnableHeard
<1>0. calm /\ mixer \in Mixers
  BY CalmBefore DEF TypeOK
<1>p. pc \notin Between =>
        step \in DOMAIN macro /\ S.row \in Rows /\ S.on \in BOOLEAN
  BY MacroFits DEF TypeOK
<1>1. CASE ReadsEnable
  <2>1. S.row \in Rows /\ 0 \in Hw
    BY <1>p, <1>1, AimAssumption DEF ReadsEnable, Between, Hw
  <2>2. /\ mixer' = Mirror(Asked(mixer), S.row) /\ pc' = "enable"
        /\ "enable" \notin since'
    BY <1>1, CalmStep DEF ReadsEnable, Sent, If, Waits, Notes
  <2>3. Fresh(mixer'.out, "enable") = {Enable(mixer')}
    BY <1>0, <2>1, <2>2, Questions
  <2> QED
    BY <2>2, <2>3 DEF Enable
<1>2. CASE ButtonRead
  <2>1. /\ UNCHANGED <<mixer, S>> /\ pc' \in {"set", "pulse"}
        /\ pc' = "pulse" <=> S.kind = "pulse"
        /\ pc \in {"enable", "fx"} /\ Satisfied(pc)
        /\ button' = Answer.on /\ ~Answer.old
    BY <1>2, CalmStep DEF ButtonRead, plan, S, Satisfied, If
  <2>2. CASE pc = "fx"
    BY <2>1, <2>2 DEF Staged
  <2>3. CASE pc = "enable"
    <3>1. "enable" \in since
      BY <2>1, <2>3, HeardAnswer DEF Answers
    <3>2. button' = state.enable.on /\ ~state.enable.old
      BY <2>1, <2>3 DEF Answer
    <3>3. state.enable.on = Enabled(mixer)
      BY <1>0, <2>3, <3>1, <3>2 DEF EnableHeard
    <3> QED
      BY <2>1, <3>2, <3>3
  <2> QED
    BY <2>1, <2>2, <2>3
<1>3. CASE ButtonUnknown
  BY <1>3, NotUnknown
<1>4. CASE Sets
  <2>1. /\ pc = "set" /\ pc' = "after" /\ UNCHANGED S /\ Pressed(S.on)
        /\ S.on \in BOOLEAN
    BY <1>p, <1>4 DEF Sets, plan, S, Between
  <2>2. S.kind = "enable" => Enabled(mixer') = S.on
    BY <1>0, <2>1, PressedRight DEF EnableHeard
  <2> QED
    BY <2>1, <2>2
<1>5. ASSUME NEW on \in BOOLEAN, Pulses(on)
      PROVE  pc' = "pulse" /\ button' = Enabled(mixer')
  <2>1. /\ pc = "pulse" /\ pc' = "pulse" /\ button' = on /\ Pressed(on)
    BY <1>5 DEF Pulses
  <2>2. S.kind # "fx"
    BY <2>1 DEF Staged
  <2>3. button = Enabled(mixer)
    BY <1>0, <2>1 DEF EnableHeard
  <2> QED
    BY <2>1, <2>2, <2>3, PressedRight
<1>6. CASE Writes
  <2>1. pc' = "after" /\ UNCHANGED S /\ S.kind # "enable"
    BY <1>6 DEF Writes, Staged, plan, S
  <2> QED
    BY <2>1
<1>7. CASE Ingests
  <2>1. /\ mixer.out # <<>> /\ mixer' = [mixer EXCEPT !.out = Tail(@)]
        /\ state' = Ingested(state, Head(mixer.out))
        /\ since' = since \cup {"any", Head(mixer.out).kind}
        /\ UNCHANGED <<pc, S, button>>
    BY <1>7 DEF Ingests, plan, S, work
  <2> DEFINE h == Head(mixer.out)
  <2>2. /\ Enabled(mixer') = Enabled(mixer)
        /\ Fresh(mixer'.out, "enable") \subseteq Fresh(mixer.out, "enable")
        /\ h \in Messages
        /\ h.kind = "enable" /\ ~h.old => h \in Fresh(mixer.out, "enable")
    BY <1>0, <2>1, Taken
  <2>3. CASE h.kind = "enable"
    <3>1. state'.enable.on = h.on /\ state'.enable.old = h.old
      BY <2>1, <2>3 DEF Ingested, TypeOK, DeviceStates
    <3> QED
      BY <1>0, <2>1, <2>2, <2>3, <3>1 DEF EnableHeard
  <2>4. CASE h.kind # "enable"
    <3>1. state'.enable = state.enable
      BY <2>1, <2>2, <2>4 DEF Ingested, Stamped, TypeOK, DeviceStates, Messages
    <3>2. "enable" \in since' => "enable" \in since
      BY <2>1, <2>4
    <3> QED
      BY <1>0, <2>1, <2>2, <3>1, <3>2 DEF EnableHeard
  <2> QED
    BY <2>3, <2>4
<1>8. CASE Drops
  BY <1>8, CalmStep DEF Drops
<1>9. CASE Touches
  <2>1. pc' = "idle"
    BY <1>9, CalmStep DEF Touches, If
  <2> QED
    BY <2>1
<1>10. CASE UNCHANGED <<mixer, state, since, pc, plan, button>>
  BY <1>0, <1>10 DEF EnableHeard, S, plan
<1>11. CASE pc' \notin {"enable", "pulse", "set", "after"}
  BY <1>11
<1> QED
  BY <1>1, <1>2, <1>3, <1>4, <1>5, <1>6, <1>7, <1>8, <1>9, <1>10, <1>11
     DEF Next, Run, Page1Run, Page2Run, OtherRun, Listener, Begins, Switches,
     PlaysRaw, Selects, Aborts, Unmeasured, AimsSend, AimsMute, LabelSeen,
     WrongLabel, NoLabel, Provokes, AlreadyFresh, Candidate, StillStreaming,
     Settled, Unsettled, NotInBank, AimsPage2, Confirms, Misaimed, Unconfirmed,
     Skips, Raises, ReadsFx, StepEnds, Probes, ShowsOutputs, ShowsInputs,
     SweepBegins, SweepAims, SweepReads, SweepObserves, SweepAborts, StepsDone,
     Finally, Registers, LooksAgain, Copies, Wakes, NextStep, Waits, heard,
     work

LEMMA FxHeardKept ==
  ASSUME TypeOK, WaitMissesNothing, Staged, Woken, Pending, FxHeard, Next
  PROVE  FxHeard'
<1> SUFFICES ASSUME calm'
             PROVE  (/\ pc = "fx" =>
                          /\ \A m \in Fresh(mixer.out, "fx") : m.on = mixer.fx
                          /\ "fx" \in since /\ ~state.fx.old =>
                               state.fx.on = mixer.fx
                     /\ pc = "set" /\ S.kind = "fx" => button = mixer.fx
                     /\ pc = "after" /\ S.kind = "fx" => mixer.fx = S.on)'
  BY DEF FxHeard
<1>0. calm /\ mixer \in Mixers
  BY CalmBefore DEF TypeOK
<1>p. pc \notin Between =>
        step \in DOMAIN macro /\ S.row \in Rows /\ S.on \in BOOLEAN
  BY MacroFits DEF TypeOK
<1>1. CASE ReadsFx
  <2>1. 1 \in Rows /\ 0 \in Hw
    BY AimAssumption DEF Rows, Hw
  <2>2. /\ mixer' = MirrorFx(Asked(mixer)) /\ pc' = "fx"
        /\ "fx" \notin since'
    BY <1>1, CalmStep DEF ReadsFx, Sent, If, Waits, Notes
  <2>3. Fresh(mixer'.out, "fx") = {Fx(mixer')}
    BY <1>0, <2>1, <2>2, Questions
  <2> QED
    BY <2>2, <2>3 DEF Fx
<1>2. CASE ButtonRead
  <2>1. /\ UNCHANGED <<mixer, S>> /\ pc' \in {"set", "pulse"}
        /\ pc' = "pulse" <=> S.kind = "pulse"
        /\ pc \in {"enable", "fx"} /\ Satisfied(pc)
        /\ button' = Answer.on /\ ~Answer.old
    BY <1>2, CalmStep DEF ButtonRead, plan, S, Satisfied, If
  <2>2. CASE pc = "enable"
    BY <2>1, <2>2 DEF Staged
  <2>3. CASE pc = "fx"
    <3>1. "fx" \in since
      BY <2>1, <2>3, HeardAnswer DEF Answers
    <3>2. button' = state.fx.on /\ ~state.fx.old
      BY <2>1, <2>3 DEF Answer
    <3>3. state.fx.on = mixer.fx
      BY <1>0, <2>3, <3>1, <3>2 DEF FxHeard
    <3> QED
      BY <2>1, <3>2, <3>3
  <2> QED
    BY <2>1, <2>2, <2>3
<1>3. CASE ButtonUnknown
  BY <1>3, NotUnknown
<1>4. CASE Sets
  <2>1. /\ pc = "set" /\ pc' = "after" /\ UNCHANGED S /\ Pressed(S.on)
        /\ S.on \in BOOLEAN
    BY <1>p, <1>4 DEF Sets, plan, S, Between
  <2>2. S.kind = "fx" => mixer'.fx = S.on
    BY <1>0, <2>1, PressedRight DEF FxHeard
  <2> QED
    BY <2>1, <2>2
<1>5. CASE \E on \in BOOLEAN : Pulses(on)
  <2>1. pc' = "pulse"
    BY <1>5 DEF Pulses
  <2> QED
    BY <2>1
<1>6. CASE Writes
  <2>1. pc' = "after" /\ UNCHANGED S /\ S.kind # "fx"
    BY <1>6 DEF Writes, Staged, plan, S
  <2> QED
    BY <2>1
<1>7. CASE Ingests
  <2>1. /\ mixer.out # <<>> /\ mixer' = [mixer EXCEPT !.out = Tail(@)]
        /\ state' = Ingested(state, Head(mixer.out))
        /\ since' = since \cup {"any", Head(mixer.out).kind}
        /\ UNCHANGED <<pc, S, button>>
    BY <1>7 DEF Ingests, plan, S, work
  <2> DEFINE h == Head(mixer.out)
  <2>2. /\ mixer'.fx = mixer.fx
        /\ Fresh(mixer'.out, "fx") \subseteq Fresh(mixer.out, "fx")
        /\ h \in Messages
        /\ h.kind = "fx" /\ ~h.old => h \in Fresh(mixer.out, "fx")
    BY <1>0, <2>1, Taken
  <2>3. CASE h.kind = "fx"
    <3>1. state'.fx.on = h.on /\ state'.fx.old = h.old
      BY <2>1, <2>3 DEF Ingested, TypeOK, DeviceStates
    <3> QED
      BY <1>0, <2>1, <2>2, <2>3, <3>1 DEF FxHeard
  <2>4. CASE h.kind # "fx"
    <3>1. state'.fx = state.fx
      BY <2>1, <2>2, <2>4 DEF Ingested, Stamped, TypeOK, DeviceStates, Messages
    <3>2. "fx" \in since' => "fx" \in since
      BY <2>1, <2>4
    <3> QED
      BY <1>0, <2>1, <2>2, <3>1, <3>2 DEF FxHeard
  <2> QED
    BY <2>3, <2>4
<1>8. CASE Drops
  BY <1>8, CalmStep DEF Drops
<1>9. CASE Touches
  <2>1. pc' = "idle"
    BY <1>9, CalmStep DEF Touches, If
  <2> QED
    BY <2>1
<1>10. CASE UNCHANGED <<mixer, state, since, pc, plan, button>>
  BY <1>0, <1>10 DEF FxHeard, S, plan
<1>11. CASE pc' \notin {"fx", "set", "after"}
  BY <1>11
<1> QED
  BY <1>1, <1>2, <1>3, <1>4, <1>5, <1>6, <1>7, <1>8, <1>9, <1>10, <1>11
     DEF Next, Run, Page1Run, Page2Run, OtherRun, Listener, Begins, Switches,
     PlaysRaw, Selects, Aborts, Unmeasured, AimsSend, AimsMute, LabelSeen,
     WrongLabel, NoLabel, Provokes, AlreadyFresh, Candidate, StillStreaming,
     Settled, Unsettled, NotInBank, AimsPage2, Confirms, Misaimed, Unconfirmed,
     Skips, Raises, ReadsEnable, StepEnds, Probes, ShowsOutputs, ShowsInputs,
     SweepBegins, SweepAims, SweepReads, SweepObserves, SweepAborts, StepsDone,
     Finally, Registers, LooksAgain, Copies, Wakes, NextStep, Waits, heard,
     work


-----------------------------------------------------------------------------
(* The rest position.                                                      *)

\* The two commands that put bank and row back.
LEMMA PutBack ==
  ASSUME NEW x \in Mixers
  PROVE  /\ ToBank(x, 0) \in Mixers /\ ToBank(x, 0).bank = 0
         /\ ToBank(x, 0).row = x.row
         /\ "row" \in ToBank(x, 0).hand <=> "row" \in x.hand
         /\ \A r \in Rows :
              /\ ToRow(x, r) \in Mixers /\ ToRow(x, r).row = r
              /\ ToRow(x, r).bank = x.bank
              /\ "bank" \in ToRow(x, r).hand <=> "bank" \in x.hand
<1>1. 0 \in Hw
  BY AimAssumption DEF Hw
<1>2. /\ ToBank(x, 0) \in Mixers
      /\ \A r \in Rows : ToRow(x, r) \in Mixers
  BY <1>1, AllFit
<1> QED
  BY <1>1, <1>2, Commands

\* What is left of the bank when nothing but the row is commanded.
LEMMA BankKept ==
  ASSUME NEW x \in Mixers, NEW r \in Rows
  PROVE  LET same(y) == y.bank = x.bank /\ ("bank" \in y.hand <=> "bank" \in x.hand)
         IN  /\ same(ToRow(x, r))
             /\ same(Mirror(x, r)) /\ same(Asked(x)) /\ same(MirrorFx(x))
             /\ same(Mirror(Asked(x), r)) /\ same(MirrorFx(Asked(x)))
             /\ same(Press(x)) /\ same(PressFx(x))
             /\ \A s \in Submixes : same(ToSubmix(x, s))
             /\ \A l \in Layouts : same(MovesLayout(x, l))
             /\ \A s \in Submixes : same(MovesSubmix(x, s))
             /\ \A q \in Rows : same(MovesRow(x, q))
<1> DEFINE same(y) ==
             y.bank = x.bank /\ ("bank" \in y.hand <=> "bank" \in x.hand)
<1>1. same(ToRow(x, r)) /\ same(Mirror(x, r)) /\ same(Asked(x))
      /\ same(MirrorFx(x)) /\ \A s \in Submixes : same(ToSubmix(x, s))
  BY Commands, Reads
<1>2. same(Mirror(Asked(x), r)) /\ same(MirrorFx(Asked(x)))
  <2>1. Asked(x) \in Mixers
    BY AllFit
  <2> QED
    BY <2>1, Reads
<1>3. same(Press(x)) /\ same(PressFx(x))
  BY PressFlips
<1>4. ASSUME NEW y \in Mixers, y.bank = x.bank, y.hand = x.hand
      PROVE  same(Changed(x, y))
  <2>1. Changed(x, y) = y \/ Changed(x, y) = [y EXCEPT !.out = @ \o Dump(y)]
    BY DEF Changed
  <2> QED
    BY <1>4, <2>1 DEF Mixers
<1>5. /\ \A l \in Layouts : same(MovesLayout(x, l))
      /\ \A s \in Submixes : same(MovesSubmix(x, s))
      /\ \A q \in Rows : same(MovesRow(x, q))
  <2>1. /\ \A l \in Layouts : LET y == [x EXCEPT !.layout = l]
                              IN y \in Mixers /\ y.bank = x.bank /\ y.hand = x.hand
        /\ \A s \in Submixes : LET y == [x EXCEPT !.submix = s]
                               IN y \in Mixers /\ y.bank = x.bank /\ y.hand = x.hand
        /\ \A q \in Rows : LET y == [x EXCEPT !.row = q]
                           IN y \in Mixers /\ y.bank = x.bank /\ y.hand = x.hand
    BY DEF Mixers
  <2> QED
    BY <1>4, <2>1 DEF MovesLayout, MovesSubmix, MovesRow
<1> QED
  BY <1>1, <1>2, <1>3, <1>5


LEMMA DirtyKept ==
  ASSUME TypeOK, WaitMissesNothing, Staged, Pending, DirtyUntilAfter, Next
  PROVE  DirtyUntilAfter'
<1> DEFINE D == {"write", "read", "enable", "set", "pulse", "after"}
<1>1. (pc = "idle" => macro = <<>> /\ bankDirty = FALSE)'
  <2>1. CASE Finally
    BY <2>1 DEF Finally
  <2>2. CASE UNCHANGED <<pc, macro, bankDirty>>
    BY <2>2 DEF DirtyUntilAfter
  <2>3. CASE pc' # "idle"
    BY <2>3
  <2> QED
    BY <2>1, <2>2, <2>3
       DEF Next, Run, Page1Run, Page2Run, OtherRun, Listener, Begins, Switches,
       PlaysRaw, Selects, Aborts, Unmeasured, AimsSend, AimsMute, LabelSeen,
       WrongLabel, NoLabel, Provokes, AlreadyFresh, Candidate, StillStreaming,
       Settled, Unsettled, NotInBank, AimsPage2, Confirms, Misaimed,
       Unconfirmed, Skips, Raises, ReadsEnable, ReadsFx, ButtonRead,
       ButtonUnknown, Sets, Pulses, Writes, StepEnds, Probes, ShowsOutputs,
       ShowsInputs, SweepBegins, SweepAims, SweepReads, SweepObserves,
       SweepAborts, StepsDone, Registers, LooksAgain, Ingests, Copies, Wakes,
       Drops, Touches, NextStep, Waits, plan, work
<1>2. ASSUME calm', bankDirty'
      PROVE  (pc \in D /\ S.kind \in Page2)'
  <2>0. calm
    BY <1>2, CalmBefore
  <2>1. CASE Confirms
    BY <2>1 DEF Confirms, S, plan
  <2>2. CASE ButtonUnknown
    BY <1>2, <2>2, NotUnknown
  <2>3. CASE StepEnds
    <3>1. bankDirty /\ S.kind \notin Page2
      BY <1>2, <2>3 DEF StepEnds
    <3> QED
      BY <2>0, <3>1 DEF DirtyUntilAfter
  <2>4. CASE Finally
    BY <1>2, <2>4 DEF Finally
  <2>5. CASE /\ UNCHANGED <<macro, step, bankDirty>> /\ pc' \in D \cup {pc}
    BY <1>2, <2>0, <2>5 DEF DirtyUntilAfter, S
  <2>6. CASE pc \notin D /\ UNCHANGED bankDirty
    BY <1>2, <2>0, <2>6 DEF DirtyUntilAfter
  <2> QED
    BY <2>1, <2>2, <2>3, <2>4, <2>5, <2>6
       DEF Next, Run, Page1Run, Page2Run, OtherRun, Listener, Begins, Switches,
       PlaysRaw, Selects, Aborts, Unmeasured, AimsSend, AimsMute, LabelSeen,
       WrongLabel, NoLabel, Provokes, AlreadyFresh, Candidate, StillStreaming,
       Settled, Unsettled, NotInBank, AimsPage2, Misaimed, Unconfirmed, Skips,
       Raises, ReadsEnable, ReadsFx, ButtonRead, Sets, Pulses, Writes, Probes,
       ShowsOutputs, ShowsInputs, SweepBegins, SweepAims, SweepReads,
       SweepObserves, SweepAborts, StepsDone, Registers, LooksAgain, Ingests,
       Copies, Wakes, Drops, Touches, NextStep, Waits, plan, work, At,
       Satisfied, TimesOut
<1> QED
  BY <1>1, <1>2 DEF DirtyUntilAfter

LEMMA BankHomeKept ==
  ASSUME TypeOK, Staged, DirtyUntilAfter, BankHome, Next
  PROVE  BankHome'
<1> SUFFICES ASSUME calm'
             PROVE  (\/ mixer.bank = 0 \/ "bank" \in mixer.hand \/ bankDirty
                     \/ Plays({"sweep"}) \/ pc = "track")'
  BY DEF BankHome
<1>0. /\ calm /\ mixer \in Mixers
      /\ 0 \in Hw /\ 1 \in Rows /\ 2 \in Rows /\ 3 \in Rows
  BY CalmBefore, AimAssumption DEF TypeOK, Hw, Rows
<1>p. pc \notin Between => step \in DOMAIN macro
  BY DEF TypeOK
<1>r. step \in DOMAIN macro => S.row \in Rows
  BY MacroFits DEF TypeOK
<1>g. ASSUME UNCHANGED <<macro, bankDirty>>, pc' = "track" \/ pc # "track",
             mixer'.bank = mixer.bank,
             "bank" \in mixer.hand => "bank" \in mixer'.hand
      PROVE  BankHome'
  BY <1>0, <1>g DEF BankHome, Plays
<1>1. CASE AimsSend \/ AimsMute
  <2>1. S.row \in Rows
    BY <1>r, <1>1 DEF AimsSend, AimsMute, At
  <2> DEFINE x == ToRow(ToBank(mixer, 0), S.row)
  <2>2. CASE AimsSend
    <3>1. S.sub \in Submixes /\ mixer' = ToSubmix(x, S.sub)
      BY <2>2, CalmStep DEF AimsSend, Sent, If
    <3>2. x \in Mixers /\ x.bank = 0
      BY <1>0, <2>1, PutBack
    <3> QED
      BY <2>1, <3>1, <3>2, BankKept
  <2>3. CASE AimsMute
    <3>1. mixer' = x
      BY <2>3, CalmStep DEF AimsMute, Sent, If
    <3> QED
      BY <1>0, <2>1, <3>1, PutBack
  <2> QED
    BY <1>1, <2>2, <2>3
<1>2. CASE Misaimed \/ Unconfirmed
  <2>1. PICK k : Restores(k)
    BY <1>2 DEF Misaimed, Unconfirmed
  <2>2. mixer' = ToRow(ToBank(mixer, 0), 1)
    BY <2>1, CalmStep DEF Restores, Sent, If
  <2> QED
    BY <1>0, <2>2, PutBack
<1>3. CASE SweepReads \/ SweepAborts
  <2>1. pc = "track" /\ S.kind = "sweep" /\ UNCHANGED macro
    BY <1>3 DEF SweepReads, SweepAborts, Satisfied, TimesOut, plan
  <2>2. Plays({"sweep"})'
    BY <1>p, <2>1 DEF Plays, S, Between
  <2> QED
    BY <2>2
<1>4. CASE StepEnds
  <2>1. mixer' = IF S.kind \in Page2 THEN ToBank(mixer, 0) ELSE mixer
    BY <1>4, CalmStep DEF StepEnds, Sent, If
  <2>2. CASE S.kind \in Page2
    BY <1>0, <2>1, <2>2, PutBack
  <2>3. CASE S.kind \notin Page2
    <3>1. /\ UNCHANGED <<mixer, macro>> /\ pc = "after"
          /\ bankDirty => bankDirty'
      BY <1>4, <2>1, <2>3 DEF StepEnds, NextStep
    <3> QED
      BY <1>0, <3>1 DEF BankHome, Plays
  <2> QED
    BY <2>2, <2>3
<1>5. CASE Finally
  <2> DEFINE x == IF bankDirty \/ Plays({"sweep"})
                    THEN ToBank(mixer, 0) ELSE mixer
  <2>1. ~Plays({"sweep"}) /\ ~bankDirty => mixer.bank = 0 \/ "bank" \in mixer.hand
    BY <1>0, <1>5 DEF BankHome, Finally
  <2>2. mixer' = IF RowDirty THEN ToRow(x, 1) ELSE x
    BY <1>5, CalmStep DEF Finally, Sent, If
  <2>3. x \in Mixers /\ (x.bank = 0 \/ "bank" \in x.hand)
    BY <1>0, <2>1, PutBack
  <2> HIDE DEF x
  <2> QED
    BY <1>0, <2>2, <2>3, PutBack
<1>6. CASE Confirms \/ Raises
  BY <1>6, CalmStep DEF Confirms, Raises
<1>7. CASE AimsPage2 \/ SweepAims
  BY <1>7 DEF AimsPage2, SweepAims, Waits
<1>8. CASE \E m \in Macros : Begins(m)
  <2>1. mixer.bank = 0 \/ "bank" \in mixer.hand
    BY <1>0, <1>8 DEF Begins, DirtyUntilAfter, BankHome, Plays
  <2> QED
    BY <1>8, <2>1 DEF Begins
<1>9. CASE Touches
  <2>1. /\ pc = "idle" /\ UNCHANGED <<pc, macro, bankDirty>>
        /\ \/ \E r \in Rows : mixer' = ByHand(MovesRow(mixer, r), "row")
           \/ \E b \in Hw : mixer' = ByHand(MovesBank(mixer, b), "bank")
           \/ \E s \in Submixes : mixer' = MovesSubmix(mixer, s)
           \/ \E l \in Layouts : mixer' = MovesLayout(mixer, l)
    BY <1>9, CalmStep DEF Touches, If, plan, work
  <2>2. ASSUME NEW x \in Mixers, NEW w
        PROVE  ByHand(x, w).bank = x.bank /\ ByHand(x, w).hand = x.hand \cup {w}
    BY DEF ByHand, Mixers
  <2>3. /\ \A r \in Rows : MovesRow(mixer, r) \in Mixers
        /\ \A b \in Hw : MovesBank(mixer, b) \in Mixers
    BY <1>0, MovesFit
  <2>4. \/ "bank" \in mixer'.hand
        \/ /\ mixer'.bank = mixer.bank
           /\ "bank" \in mixer.hand => "bank" \in mixer'.hand
    BY <1>0, <2>1, <2>2, <2>3, BankKept
  <2> QED
    BY <1>g, <2>1, <2>4 DEF BankHome
<1>10. CASE \/ Provokes \/ Probes \/ ShowsOutputs \/ ShowsInputs \/ SweepBegins
            \/ Selects \/ \E l \in Layouts : Switches(l)
  <2>1. /\ UNCHANGED <<macro, bankDirty>> /\ pc # "track"
        /\ \/ S.row \in Rows /\ mixer' = ToRow(ToRow(mixer, OtherRow), S.row)
           \/ mixer' = ToRow(ToRow(mixer, 2), 1)
           \/ \E r \in Rows : mixer' = ToRow(mixer, r)
           \/ \E s \in Submixes : mixer' = ToSubmix(mixer, s)
           \/ \E l \in Layouts : mixer' = MovesLayout(mixer, l)
    BY <1>0, <1>p, <1>r, <1>10, CalmStep
       DEF Provokes, Probes, ShowsOutputs, ShowsInputs, SweepBegins, Selects,
       Switches, Sent, If, At, NextStep, plan, work, Between, Satisfied, TimesOut
  <2>2. OtherRow \in Rows
    BY <1>0 DEF OtherRow
  <2>3. ToRow(mixer, 2) \in Mixers /\ ToRow(mixer, OtherRow) \in Mixers
    BY <1>0, <2>2, AllFit
  <2>4. mixer'.bank = mixer.bank
        /\ ("bank" \in mixer.hand => "bank" \in mixer'.hand)
    BY <1>0, <2>1, <2>2, <2>3, BankKept
  <2> QED
    BY <1>g, <2>1, <2>4 DEF BankHome
<1>11. CASE ReadsEnable \/ ReadsFx \/ Sets \/ \E on \in BOOLEAN : Pulses(on)
  <2>1. /\ UNCHANGED <<macro, bankDirty>> /\ pc # "track"
        /\ \/ S.row \in Rows /\ mixer' = Mirror(Asked(mixer), S.row)
           \/ mixer' \in {MirrorFx(Asked(mixer)), mixer, Press(mixer), PressFx(mixer)}
    BY <1>p, <1>r, <1>11, CalmStep
       DEF ReadsEnable, ReadsFx, Sets, Pulses, Pressed, Sent, If, At, plan, work,
       Between
  <2>2. mixer'.bank = mixer.bank
        /\ ("bank" \in mixer.hand => "bank" \in mixer'.hand)
    BY <1>0, <2>1, BankKept
  <2> QED
    BY <1>g, <2>1, <2>2 DEF BankHome
<1>12. CASE Ingests \/ Drops
  <2>1. /\ mixer.out # <<>> /\ mixer' = [mixer EXCEPT !.out = Tail(@)]
        /\ UNCHANGED <<macro, bankDirty, pc>>
    BY <1>12 DEF Ingests, Drops, plan, work
  <2>2. mixer'.bank = mixer.bank /\ mixer'.hand = mixer.hand
    BY <1>0, <2>1, Taken
  <2> QED
    BY <1>g, <2>1, <2>2 DEF BankHome
<1>13. CASE /\ UNCHANGED <<mixer, macro, bankDirty>>
            /\ pc # "track" \/ pc' = "track"
  BY <1>g, <1>13 DEF BankHome
<1> QED
  BY <1>1, <1>2, <1>3, <1>4, <1>5, <1>6, <1>7, <1>8, <1>9, <1>10, <1>11, <1>12,
     <1>13
     DEF Next, Run, Page1Run, Page2Run, OtherRun, Listener, PlaysRaw, Aborts,
     Unmeasured, LabelSeen, WrongLabel, NoLabel, AlreadyFresh, Candidate,
     StillStreaming, Settled, Unsettled, NotInBank, Skips, ButtonRead,
     ButtonUnknown, Writes, SweepObserves, StepsDone, Registers, LooksAgain,
     Copies, Wakes, NextStep, Waits, heard, plan, work, At, Satisfied, TimesOut


\* What is left of the row when the row is not commanded.
LEMMA RowKept ==
  ASSUME NEW x \in Mixers
  PROVE  LET same(y) == y.row = x.row /\ ("row" \in y.hand <=> "row" \in x.hand)
         IN  /\ \A b \in Hw : same(ToBank(x, b))
             /\ same(Asked(x)) /\ same(MirrorFx(x)) /\ same(MirrorFx(Asked(x)))
             /\ same(Press(x)) /\ same(PressFx(x))
             /\ \A s \in Submixes : same(ToSubmix(x, s))
             /\ \A l \in Layouts : same(MovesLayout(x, l))
             /\ \A s \in Submixes : same(MovesSubmix(x, s))
             /\ \A b \in Hw : same(MovesBank(x, b))
<1> DEFINE same(y) == y.row = x.row /\ ("row" \in y.hand <=> "row" \in x.hand)
<1>1. /\ \A b \in Hw : same(ToBank(x, b))
      /\ same(Asked(x)) /\ same(MirrorFx(x))
      /\ \A s \in Submixes : same(ToSubmix(x, s))
  BY Commands, Reads
<1>2. same(MirrorFx(Asked(x)))
  <2>1. Asked(x) \in Mixers
    BY AllFit
  <2> QED
    BY <2>1, Reads
<1>3. same(Press(x)) /\ same(PressFx(x))
  BY PressFlips
<1>4. ASSUME NEW y \in Mixers, y.row = x.row, y.hand = x.hand
      PROVE  same(Changed(x, y))
  <2>1. Changed(x, y) = y \/ Changed(x, y) = [y EXCEPT !.out = @ \o Dump(y)]
    BY DEF Changed
  <2> QED
    BY <1>4, <2>1 DEF Mixers
<1>5. /\ \A l \in Layouts : same(MovesLayout(x, l))
      /\ \A s \in Submixes : same(MovesSubmix(x, s))
      /\ \A b \in Hw : same(MovesBank(x, b))
  <2>1. /\ \A l \in Layouts : LET y == [x EXCEPT !.layout = l]
                              IN y \in Mixers /\ y.row = x.row /\ y.hand = x.hand
        /\ \A s \in Submixes : LET y == [x EXCEPT !.submix = s]
                               IN y \in Mixers /\ y.row = x.row /\ y.hand = x.hand
        /\ \A b \in Hw : LET y == [x EXCEPT !.bank = b]
                         IN y \in Mixers /\ y.row = x.row /\ y.hand = x.hand
    BY DEF Mixers
  <2> QED
    BY <1>4, <2>1 DEF MovesLayout, MovesSubmix, MovesBank
<1> QED
  BY <1>1, <1>2, <1>3, <1>5

\* A step that selects another row is seen at the end.
LEMMA RowSeen ==
  ASSUME step \in DOMAIN macro, S.kind \in {"send", "mute", "sweep"} \cup Page2
  PROVE  S.row = 1 \/ RowDirty
BY DEF RowDirty, Plays, S

LEMMA RowHomeKept ==
  ASSUME TypeOK, Staged, DirtyUntilAfter, RowHome, Next
  PROVE  RowHome'
<1> SUFFICES ASSUME calm'
             PROVE  (\/ mixer.row = 1 \/ "row" \in mixer.hand \/ RowDirty
                     \/ pc = "any")'
  BY DEF RowHome
<1>0. /\ calm /\ mixer \in Mixers
      /\ 0 \in Hw /\ 1 \in Rows /\ 2 \in Rows /\ 3 \in Rows
  BY CalmBefore, AimAssumption DEF TypeOK, Hw, Rows
<1>p. pc \notin Between => step \in DOMAIN macro
  BY DEF TypeOK
<1>r. step \in DOMAIN macro => S.row \in Rows
  BY MacroFits DEF TypeOK
<1>g. ASSUME UNCHANGED macro, pc # "any", mixer'.row = mixer.row,
             "row" \in mixer.hand => "row" \in mixer'.hand
      PROVE  RowHome'
  BY <1>0, <1>g DEF RowHome, RowDirty, Plays
<1>s. ASSUME UNCHANGED macro, step \in DOMAIN macro,
             S.kind \in {"send", "mute", "sweep"} \cup Page2,
             mixer'.row = S.row
      PROVE  RowHome'
  BY <1>s, RowSeen DEF RowHome, RowDirty, Plays
<1>1. CASE AimsSend
  <2> DEFINE x == ToRow(ToBank(mixer, 0), S.row)
  <2>1. /\ S.row \in Rows /\ S.sub \in Submixes /\ UNCHANGED macro
        /\ mixer' = ToSubmix(x, S.sub)
        /\ step \in DOMAIN macro /\ S.kind = "send"
    BY <1>r, <1>1, CalmStep DEF AimsSend, Sent, If, At, plan
  <2>2. x \in Mixers /\ x.row = S.row
    BY <1>0, <2>1, PutBack
  <2> HIDE DEF x
  <2>3. mixer'.row = S.row
    BY <2>1, <2>2, Commands
  <2> QED
    BY <1>s, <2>1, <2>3 DEF RowHome
<1>2. CASE AimsMute \/ Provokes \/ SweepBegins
  <2>1. OtherRow \in Rows
    BY <1>0 DEF OtherRow
  <2>2. /\ S.row \in Rows /\ UNCHANGED macro /\ step \in DOMAIN macro
        /\ S.kind \in {"send", "mute", "sweep"}
        /\ mixer' \in {ToRow(ToBank(mixer, 0), S.row),
                       ToRow(ToRow(mixer, OtherRow), S.row),
                       ToRow(mixer, S.row)}
    BY <1>r, <1>p, <1>2, CalmStep
       DEF AimsMute, Provokes, SweepBegins, Sent, If, At, plan, Staged, Between
  <2>3. ToRow(mixer, OtherRow) \in Mixers /\ ToBank(mixer, 0) \in Mixers
    BY <1>0, <2>1, PutBack
  <2>4. mixer'.row = S.row
    BY <1>0, <2>2, <2>3, Commands
  <2> QED
    BY <1>s, <2>2, <2>4 DEF RowHome
<1>3. CASE AimsPage2
  <2> DEFINE x == ToBank(ToRow(Asked(mixer), S.row), Start[S.row][S.ch])
  <2>1. S.row \in Rows /\ Start[S.row][S.ch] \in Hw
    BY <1>r, <1>3, AimAssumption DEF AimsPage2, At
  <2>2. /\ UNCHANGED macro /\ step \in DOMAIN macro /\ S.kind \in Page2
        /\ mixer' = Mirror(x, S.row)
    BY <1>3, CalmStep DEF AimsPage2, Sent, If, At, plan
  <2>3. x \in Mixers
    BY <1>0, <2>1, AllFit
  <2> HIDE DEF x
  <2>4. mixer'.row = S.row
    BY <2>1, <2>2, <2>3, Reads
  <2> QED
    BY <1>s, <2>2, <2>4 DEF RowHome
<1>4. CASE ReadsEnable \/ SweepAims
  <2>1. S.row \in Rows /\ step \in DOMAIN macro /\ UNCHANGED macro
        /\ S.kind \in {"sweep"} \cup Page2
    BY <1>r, <1>p, <1>4 DEF ReadsEnable, SweepAims, Between, Staged, Page2, plan
  <2>2. Offset \in Hw
    BY AimAssumption DEF Offset, Hw, TypeOK
  <2>3. mixer' \in {Mirror(Asked(mixer), S.row),
                    Mirror(ToBank(Asked(mixer), Offset), S.row)}
    BY <1>4, CalmStep DEF ReadsEnable, SweepAims, Sent, If
  <2>4. Asked(mixer) \in Mixers /\ ToBank(Asked(mixer), Offset) \in Mixers
    BY <1>0, <2>2, AllFit
  <2>5. mixer'.row = S.row
    BY <2>1, <2>3, <2>4, Reads
  <2> QED
    BY <1>s, <2>1, <2>5 DEF RowHome
<1>5. CASE Misaimed \/ Unconfirmed
  <2>1. PICK k : Restores(k)
    BY <1>5 DEF Misaimed, Unconfirmed
  <2>2. mixer' = ToRow(ToBank(mixer, 0), 1)
    BY <2>1, CalmStep DEF Restores, Sent, If
  <2> QED
    BY <1>0, <2>2, PutBack
<1>6. CASE Probes \/ ShowsInputs
  <2>1. mixer' \in {ToRow(ToRow(mixer, 2), 1), ToRow(mixer, 1)}
    BY <1>6, CalmStep DEF Probes, ShowsInputs, Sent, If
  <2>2. ToRow(mixer, 2) \in Mixers
    BY <1>0, PutBack
  <2>3. mixer'.row = 1
    BY <1>0, <2>1, <2>2, Commands
  <2> QED
    BY <2>3
<1>7. CASE ShowsOutputs
  BY <1>7 DEF ShowsOutputs, Waits
<1>8. CASE StepEnds \/ Selects \/ (\E l \in Layouts : Switches(l)) \/ ReadsFx
           \/ Sets \/ \E on \in BOOLEAN : Pulses(on)
  <2>1. /\ UNCHANGED macro /\ pc # "any"
        /\ \/ mixer' \in {mixer, ToBank(mixer, 0), MirrorFx(Asked(mixer)),
                          Press(mixer), PressFx(mixer)}
           \/ \E s \in Submixes : mixer' = ToSubmix(mixer, s)
           \/ \E l \in Layouts : mixer' = MovesLayout(mixer, l)
    <3>1. CASE StepEnds \/ ReadsFx
      BY <3>1, CalmStep DEF StepEnds, ReadsFx, Sent, If, At, plan, NextStep
    <3>2. CASE Sets \/ \E on \in BOOLEAN : Pulses(on)
      BY <3>2, CalmStep DEF Sets, Pulses, Pressed, Sent, If, plan
    <3>3. CASE Selects \/ \E l \in Layouts : Switches(l)
      BY <3>3 DEF Selects, Switches, At, NextStep
    <3> QED
      BY <1>8, <3>1, <3>2, <3>3
  <2>2. /\ mixer'.row = mixer.row
        /\ "row" \in mixer.hand => "row" \in mixer'.hand
    BY <1>0, <2>1, RowKept
  <2> QED
    BY <1>g, <2>1, <2>2 DEF RowHome
<1>9. CASE Finally
  <2> DEFINE x == IF bankDirty \/ Plays({"sweep"})
                    THEN ToBank(mixer, 0) ELSE mixer
  <2>1. ~RowDirty => mixer.row = 1 \/ "row" \in mixer.hand
    BY <1>0, <1>9 DEF RowHome, Finally
  <2>2. mixer' = IF RowDirty THEN ToRow(x, 1) ELSE x
    BY <1>9, CalmStep DEF Finally, Sent, If
  <2>3. /\ x \in Mixers /\ x.row = mixer.row
        /\ "row" \in x.hand <=> "row" \in mixer.hand
    BY <1>0, PutBack
  <2> HIDE DEF x
  <2> QED
    BY <1>0, <2>1, <2>2, <2>3, PutBack
<1>10. CASE \E m \in Macros : Begins(m)
  <2>1. mixer.row = 1 \/ "row" \in mixer.hand
    BY <1>0, <1>10 DEF Begins, DirtyUntilAfter, RowHome, RowDirty, Plays
  <2> QED
    BY <1>10, <2>1 DEF Begins
<1>11. CASE Touches
  <2>1. /\ pc = "idle" /\ UNCHANGED <<pc, macro>>
        /\ \/ \E r \in Rows : mixer' = ByHand(MovesRow(mixer, r), "row")
           \/ \E b \in Hw : mixer' = ByHand(MovesBank(mixer, b), "bank")
           \/ \E s \in Submixes : mixer' = MovesSubmix(mixer, s)
           \/ \E l \in Layouts : mixer' = MovesLayout(mixer, l)
    BY <1>11, CalmStep DEF Touches, If, plan
  <2>2. ASSUME NEW x \in Mixers, NEW w
        PROVE  ByHand(x, w).row = x.row /\ ByHand(x, w).hand = x.hand \cup {w}
    BY DEF ByHand, Mixers
  <2>3. /\ \A r \in Rows : MovesRow(mixer, r) \in Mixers
        /\ \A b \in Hw : MovesBank(mixer, b) \in Mixers
    BY <1>0, MovesFit
  <2>4. \/ "row" \in mixer'.hand
        \/ /\ mixer'.row = mixer.row
           /\ "row" \in mixer.hand => "row" \in mixer'.hand
    BY <1>0, <2>1, <2>2, <2>3, RowKept
  <2> QED
    BY <1>g, <2>1, <2>4 DEF RowHome
<1>12. CASE Ingests \/ Drops
  <2>1. /\ mixer.out # <<>> /\ mixer' = [mixer EXCEPT !.out = Tail(@)]
        /\ UNCHANGED <<macro, pc>>
    BY <1>12 DEF Ingests, Drops, plan
  <2>2. mixer'.row = mixer.row /\ mixer'.hand = mixer.hand
    BY <1>0, <2>1, Taken
  <2> QED
    BY <1>0, <2>1, <2>2 DEF RowHome, RowDirty, Plays
<1>13. CASE UNCHANGED <<mixer, macro>> /\ (pc # "any" \/ pc' = "any")
  BY <1>0, <1>13 DEF RowHome, RowDirty, Plays
<1> QED
  BY <1>1, <1>2, <1>3, <1>4, <1>5, <1>6, <1>7, <1>8, <1>9, <1>10, <1>11, <1>12,
     <1>13
     DEF Next, Run, Page1Run, Page2Run, OtherRun, Listener, PlaysRaw, Aborts,
     Unmeasured, LabelSeen, WrongLabel, NoLabel, AlreadyFresh, Candidate,
     StillStreaming, Settled, Unsettled, NotInBank, Confirms, Skips, Raises,
     ButtonRead, ButtonUnknown, Writes, SweepReads, SweepObserves, SweepAborts,
     StepsDone, Registers, LooksAgain, Copies, Wakes, NextStep, Waits, heard,
     plan, work, At, Satisfied, TimesOut


-----------------------------------------------------------------------------
(* The theorems.                                                           *)

AimInv ==
  /\ Staged /\ Woken /\ Pending
  /\ Aimed
  /\ EnableHeard /\ FxHeard
  /\ BankHome /\ RowHome /\ DirtyUntilAfter

LEMMA InvAtFirst ==
  ASSUME Init
  PROVE  AimInv
<1>1. pc = "idle" /\ macro = <<>> /\ bankDirty = FALSE
      /\ mixer.bank = 0 /\ mixer.row = 1
  BY DEF Init
<1> QED
  BY <1>1 DEF AimInv, Staged, Woken, Pending, Aimed, EnableHeard, FxHeard,
     BankHome, RowHome, DirtyUntilAfter, Answers

LEMMA InvStutters ==
  ASSUME AimInv, UNCHANGED vars
  PROVE  AimInv'
<1>1. UNCHANGED <<mixer, state, since, wait, pc, macro, step, button, bankDirty,
                  mishaps>>
  BY DEF vars, heard, plan, work
<1>2. Staged' /\ Woken' /\ Pending' /\ Aimed'
  BY <1>1 DEF AimInv, Staged, Woken, Pending, Aimed, S, calm
<1>3. EnableHeard' /\ FxHeard'
  BY <1>1 DEF AimInv, EnableHeard, FxHeard, S, calm
<1>4. BankHome' /\ RowHome' /\ DirtyUntilAfter'
  BY <1>1 DEF AimInv, BankHome, RowHome, DirtyUntilAfter, S, calm, RowDirty, Plays
<1> QED
  BY <1>2, <1>3, <1>4 DEF AimInv

LEMMA Invariant == Spec => []AimInv
<1>1. Init => AimInv
  BY InvAtFirst
<1>2. ASSUME TypeOK, WaitMissesNothing, AimInv, [Next]_vars
      PROVE  AimInv'
  <2>1. CASE Next
    <3>1. Staged' /\ Woken' /\ Pending' /\ Aimed'
      BY <1>2, <2>1, StagedKept, WokenKept, PendingKept, AimedKept DEF AimInv
    <3>2. EnableHeard' /\ FxHeard'
      BY <1>2, <2>1, EnableHeardKept, FxHeardKept DEF AimInv
    <3>3. BankHome' /\ RowHome' /\ DirtyUntilAfter'
      BY <1>2, <2>1, BankHomeKept, RowHomeKept, DirtyKept DEF AimInv
    <3> QED
      BY <3>1, <3>2, <3>3 DEF AimInv
  <2>2. CASE UNCHANGED vars
    BY <1>2, <2>2, InvStutters
  <2> QED
    BY <1>2, <2>1, <2>2
<1> QED
  BY <1>1, <1>2, Typing, NothingMissed, PTL DEF Spec

\* A write through page 2 lands on the channel and the row its step names, though
\* commands and answers are lost or late for their wait (_confirm_page2_aim).
THEOREM ConfirmedLands == Spec => []ConfirmedWritesLand
<1>1. TypeOK /\ AimInv => ConfirmedWritesLand
  <2> SUFFICES ASSUME TypeOK, AimInv, mishaps \subseteq {"lost", "early", "raised"},
                      Acting, S.kind \in Page2
               PROVE  OnTarget
    BY DEF ConfirmedWritesLand
  <2>1. /\ mishaps \cap {"late", "moved"} = {}
        /\ pc \in {"write", "set", "pulse"}
    BY DEF Acting
  <2>2. mixer.row = S.row /\ Covers(Shown(mixer, 1), S.ch)
    BY <2>1 DEF AimInv, Aimed
  <2>3. S.kind # "send"
    BY DEF Page2
  <2> QED
    BY <2>2, <2>3 DEF OnTarget
<1> QED
  BY <1>1, Typing, Invariant, PTL

\* A button that can only be flipped ends in the state its step asks for
\* (_read_button_state, _set_button_state), and an operation on one knows its
\* state between two values (_EdgeToggleClient).
THEOREM ButtonsSet == Spec => []ButtonSet
<1>1. AimInv => ButtonSet
  BY DEF AimInv, EnableHeard, FxHeard, ButtonSet
<1> QED
  BY <1>1, Invariant, PTL

\* Between two runs the bank is at its start and the first row selected, unless a
\* person moved them, and no raw step of a macro finds the bank moved ("Restores
\* are GUARANTEED via finally").
THEOREM RestPosition == Spec => []RestsAtHome
<1>1. TypeOK /\ AimInv => RestsAtHome
  <2> SUFFICES ASSUME TypeOK, AimInv, calm
               PROVE  /\ pc = "idle" \/ At({"raw"}) =>
                           mixer.bank = 0 \/ "bank" \in mixer.hand
                      /\ pc = "idle" => mixer.row = 1 \/ "row" \in mixer.hand
    BY DEF RestsAtHome
  <2>1. CASE pc = "idle"
    <3>1. macro = <<>> /\ ~bankDirty
      BY <2>1 DEF AimInv, DirtyUntilAfter
    <3>2. ~Plays({"sweep"}) /\ ~RowDirty
      BY <3>1 DEF Plays, RowDirty
    <3> QED
      BY <2>1, <3>1, <3>2 DEF AimInv, BankHome, RowHome, At
  <2>2. CASE At({"raw"})
    <3>1. pc = "steps" /\ step \in DOMAIN macro /\ S.kind = "raw"
      BY <2>2 DEF At
    <3>2. ~bankDirty
      BY <3>1 DEF AimInv, DirtyUntilAfter
    <3>3. macro \in Macros
      BY <3>1, MacroFits DEF TypeOK
    <3>4. ~Plays({"sweep"})
      BY <3>1, <3>3, AimAssumption DEF Plays, S
    <3> QED
      BY <3>1, <3>2, <3>4 DEF AimInv, BankHome
  <2> QED
    BY <2>1, <2>2
<1> QED
  BY <1>1, Typing, Invariant, PTL


-----------------------------------------------------------------------------
(* The sweep.                                                              *)

\* Page 2 answers in the order it was asked: no answer that is old comes after one
\* that is not.
InOrder(out) ==
  \A i, j \in DOMAIN out :
    /\ i < j
    /\ out[i].kind = "track" /\ out[j].kind = "track"
    /\ ~out[i].old
    => ~out[j].old

NoneOld(out) == \A i \in DOMAIN out : out[i].kind = "track" => ~out[i].old

Ordered == {x \in Mixers : InOrder(x.out)}

LEMMA OrderedConcat ==
  ASSUME NEW p \in Seq(Messages), NEW q \in Seq(Messages),
         InOrder(p), NoneOld(q)
  PROVE  InOrder(p \o q)
<1>1. /\ Len(p) \in Nat /\ Len(q) \in Nat
      /\ DOMAIN p = 1..Len(p) /\ DOMAIN q = 1..Len(q)
      /\ DOMAIN (p \o q) = 1..(Len(p) + Len(q))
      /\ \A i \in 1..(Len(p) + Len(q)) :
           (p \o q)[i] = IF i <= Len(p) THEN p[i] ELSE q[i - Len(p)]
  BY LenProperties, ConcatProperties
<1> SUFFICES ASSUME NEW i \in DOMAIN (p \o q), NEW j \in DOMAIN (p \o q), i < j,
                    (p \o q)[i].kind = "track", (p \o q)[j].kind = "track",
                    ~(p \o q)[i].old
             PROVE  ~(p \o q)[j].old
  BY DEF InOrder
<1>2. CASE j <= Len(p)
  <2>1. /\ i \in DOMAIN p /\ j \in DOMAIN p
        /\ (p \o q)[i] = p[i] /\ (p \o q)[j] = p[j]
    BY <1>1, <1>2
  <2> QED
    BY <2>1 DEF InOrder
<1>3. CASE ~(j <= Len(p))
  <2>1. j - Len(p) \in DOMAIN q /\ (p \o q)[j] = q[j - Len(p)]
    BY <1>1, <1>3
  <2> QED
    BY <2>1 DEF NoneOld
<1> QED
  BY <1>2, <1>3

LEMMA OrderedTail ==
  ASSUME NEW p \in Seq(Messages), p # <<>>, InOrder(p)
  PROVE  /\ InOrder(Tail(p))
         /\ NoneOld(p) => NoneOld(Tail(p))
         /\ Head(p).kind = "track" /\ ~Head(p).old => NoneOld(Tail(p))
<1>1. /\ Len(p) \in Nat /\ Len(p) # 0
      /\ DOMAIN p = 1..Len(p) /\ DOMAIN Tail(p) = 1..(Len(p) - 1)
      /\ \A i \in 1..(Len(p) - 1) : Tail(p)[i] = p[i + 1]
      /\ Head(p) = p[1]
  BY LenProperties, HeadTailProperties, EmptySeq
<1>2. ASSUME NEW i \in DOMAIN Tail(p)
      PROVE  /\ i + 1 \in DOMAIN p /\ Tail(p)[i] = p[i + 1]
             /\ 1 \in DOMAIN p /\ 1 < i + 1
  BY <1>1
<1>3. InOrder(Tail(p))
  <2> SUFFICES ASSUME NEW i \in DOMAIN Tail(p), NEW j \in DOMAIN Tail(p), i < j,
                      Tail(p)[i].kind = "track", Tail(p)[j].kind = "track",
                      ~Tail(p)[i].old
               PROVE  ~Tail(p)[j].old
    BY DEF InOrder
  <2>1. i + 1 < j + 1
    BY <1>1
  <2> QED
    BY <1>2, <2>1 DEF InOrder
<1>4. NoneOld(p) => NoneOld(Tail(p))
  BY <1>2 DEF NoneOld
<1>5. Head(p).kind = "track" /\ ~Head(p).old => NoneOld(Tail(p))
  BY <1>1, <1>2 DEF NoneOld, InOrder
<1> QED
  BY <1>3, <1>4, <1>5

LEMMA OrderedMoves ==
  ASSUME NEW x \in Ordered
  PROVE  /\ \A r \in Rows : MovesRow(x, r) \in Ordered
         /\ \A b \in Hw : MovesBank(x, b) \in Ordered
         /\ \A s \in Submixes : MovesSubmix(x, s) \in Ordered
         /\ \A l \in Layouts : MovesLayout(x, l) \in Ordered
         /\ \A h \in SUBSET {"row", "bank"} : [x EXCEPT !.hand = h] \in Ordered
<1>0. x \in Mixers /\ InOrder(x.out)
  BY DEF Ordered
<1>1. ASSUME NEW y \in Mixers, y.out = x.out
      PROVE  Changed(x, y) \in Ordered
  <2>1. Changed(x, y) \in Mixers
    BY <1>0, ChangedFits
  <2>2. CASE x = y
    BY <1>0, <2>1, <2>2 DEF Changed, Ordered
  <2>3. CASE x # y
    <3>1. Changed(x, y).out = y.out \o Dump(y)
      BY <2>3 DEF Changed, Mixers
    <3>2. NoneOld(Dump(y))
      BY DEF NoneOld, Dump
    <3>3. y.out \in Seq(Messages) /\ Dump(y) \in Seq(Messages)
      BY DumpFits, MixerFits
    <3>4. InOrder(y.out \o Dump(y))
      BY <1>0, <1>1, <3>2, <3>3, OrderedConcat
    <3> QED
      BY <2>1, <3>1, <3>4 DEF Ordered
  <2> QED
    BY <2>2, <2>3
<1>2. /\ \A r \in Rows : [x EXCEPT !.row = r] \in Mixers
                         /\ [x EXCEPT !.row = r].out = x.out
      /\ \A b \in Hw : [x EXCEPT !.bank = b] \in Mixers
                       /\ [x EXCEPT !.bank = b].out = x.out
      /\ \A s \in Submixes : [x EXCEPT !.submix = s] \in Mixers
                             /\ [x EXCEPT !.submix = s].out = x.out
      /\ \A l \in Layouts : [x EXCEPT !.layout = l] \in Mixers
                            /\ [x EXCEPT !.layout = l].out = x.out
  BY <1>0 DEF Mixers
<1>3. \A h \in SUBSET {"row", "bank"} : [x EXCEPT !.hand = h] \in Mixers
                                       /\ [x EXCEPT !.hand = h].out = x.out
  BY <1>0 DEF Mixers
<1> QED
  BY <1>0, <1>1, <1>2, <1>3 DEF MovesRow, MovesBank, MovesSubmix, MovesLayout,
     Ordered

LEMMA OrderedCommands ==
  /\ \A x \in Ordered, r \in Rows : ToRow(x, r) \in Ordered
  /\ \A x \in Ordered, b \in Hw : ToBank(x, b) \in Ordered
  /\ \A x \in Ordered, s \in Submixes : ToSubmix(x, s) \in Ordered
<1>1. ASSUME NEW y \in Ordered
      PROVE  /\ [y EXCEPT !.hand = @ \ {"row"}] \in Ordered
             /\ [y EXCEPT !.hand = @ \ {"bank"}] \in Ordered
  <2>1. y.hand \in SUBSET {"row", "bank"}
    BY MixerFits DEF Ordered
  <2> QED
    BY <2>1, OrderedMoves
<1> QED
  BY <1>1, OrderedMoves DEF ToRow, ToBank, ToSubmix

LEMMA OrderedReads ==
  /\ \A x \in Ordered, r \in Rows : Mirror(x, r) \in Ordered
  /\ \A x \in Ordered : Asked(x) \in Ordered
  /\ \A x \in Ordered : MirrorFx(x) \in Ordered
  /\ \A x \in Ordered : Press(x) \in Ordered /\ PressFx(x) \in Ordered
<1>1. ASSUME NEW x \in Ordered, NEW r \in Rows
      PROVE  Mirror(x, r) \in Ordered
  <2> DEFINE z == ToRow(x, r)
             t == <<Track(z), Enable(z)>>
  <2>1. z \in Mixers /\ InOrder(z.out) /\ Mirror(x, r) \in Mixers
    BY OrderedCommands, MirrorFits DEF Ordered
  <2>2. t \in Seq(Messages) /\ z.out \in Seq(Messages)
    <3>1. Shown(z, 1) \in SUBSET Hw /\ Enabled(z) \in BOOLEAN
          /\ z.out \in Seq(Messages)
      BY <2>1, MixerFits DEF Enabled
    <3>2. Track(z) \in Messages /\ Enable(z) \in Messages
      BY <3>1, MessageFits DEF Track, Enable
    <3> QED
      BY <3>1, <3>2
  <2>3. Mirror(x, r).out = z.out \o t
    BY <2>1 DEF Mirror, Mixers, Track, Enable
  <2>4. NoneOld(t)
    BY DEF NoneOld, Track, Enable
  <2> HIDE DEF z, t
  <2> QED
    BY <2>1, <2>2, <2>3, <2>4, OrderedConcat DEF Ordered
<1>2. ASSUME NEW x \in Ordered
      PROVE  Asked(x) \in Ordered
  <2>1. x \in Mixers /\ Asked(x) \in Mixers
    BY AskedFits DEF Ordered
  <2>2. Fresh(Asked(x).out, "track") = {}
    BY <2>1, FreshAsked DEF Answers
  <2>3. InOrder(Asked(x).out)
    BY <2>2 DEF InOrder, Fresh
  <2> QED
    BY <2>1, <2>3 DEF Ordered
<1>3. ASSUME NEW x \in Ordered
      PROVE  MirrorFx(x) \in Ordered
  <2>1. x \in Mixers /\ MirrorFx(x) \in Mixers /\ InOrder(x.out)
    BY ButtonsFit DEF Ordered
  <2>2. Fx(x) \in Messages /\ x.out \in Seq(Messages)
    BY <2>1, MixerFits, MessageFits DEF Fx
  <2>3. MirrorFx(x).out = Append(x.out, Fx(x))
    BY <2>1 DEF MirrorFx, Mixers, Fx
  <2>4. Append(x.out, Fx(x)) = x.out \o <<Fx(x)>>
    BY <2>2, AppendIsConcat
  <2>5. NoneOld(<<Fx(x)>>) /\ <<Fx(x)>> \in Seq(Messages)
    BY <2>2 DEF NoneOld, Fx
  <2> QED
    BY <2>1, <2>2, <2>3, <2>4, <2>5, OrderedConcat DEF Ordered
<1>4. ASSUME NEW x \in Ordered
      PROVE  Press(x) \in Ordered /\ PressFx(x) \in Ordered
  BY ButtonsFit, PressFlips DEF Ordered
<1> QED
  BY <1>1, <1>2, <1>3, <1>4


\* A bank starts with the strip of its channel.
LEMMA BankShown ==
  ASSUME NEW x \in Mixers
  PROVE  x.bank \in Shown(x, 1)
<1> DEFINE all == Strips[x.layout]
           first == CHOOSE i \in DOMAIN all : x.bank \in all[i]
<1>1. x.layout \in Layouts /\ x.bank \in Hw
  BY MixerFits
<1>2. \E i \in DOMAIN all : x.bank \in all[i]
  BY <1>1, AimAssumption
<1>3. first \in DOMAIN all /\ x.bank \in all[first]
  BY <1>2
<1>4. all \in Seq(SUBSET Hw)
  BY <1>1, AimAssumption
<1>5. first \in Nat
  BY <1>3, <1>4, LenProperties
<1>6. Shown(x, 1) = IF first + 1 - 1 \in DOMAIN all THEN all[first + 1 - 1] ELSE {}
  BY DEF Shown
<1> HIDE DEF first, all
<1>7. first + 1 - 1 = first
  BY <1>5
<1> QED
  BY <1>3, <1>6, <1>7

LEMMA OrderKept ==
  ASSUME TypeOK, mixer \in Ordered, Next
  PROVE  mixer' \in Ordered
<1>0. mixer \in Ordered /\ 1 \in Rows /\ 2 \in Rows /\ 3 \in Rows /\ 0 \in Hw
  BY AimAssumption DEF TypeOK, Rows, Hw
<1>s. step \in DOMAIN macro => S.row \in Rows
  BY MacroFits DEF TypeOK
<1>t. mixer.out # <<>> => [mixer EXCEPT !.out = Tail(@)] \in Ordered
  <2>1. mixer \in Mixers /\ mixer.out \in Seq(Messages) /\ InOrder(mixer.out)
    BY <1>0, MixerFits DEF Ordered
  <2>2. mixer.out # <<>> => Tail(mixer.out) \in Seq(Messages)
                            /\ InOrder(Tail(mixer.out))
    BY <2>1, HeadTailProperties, OrderedTail
  <2>3. LET y == [mixer EXCEPT !.out = Tail(@)]
        IN  y.out = Tail(mixer.out)
            /\ (Tail(mixer.out) \in Seq(Messages) => y \in Mixers)
    BY <2>1 DEF Mixers
  <2> QED
    BY <2>2, <2>3 DEF Ordered
<1>p. pc \notin Between => step \in DOMAIN macro
  BY DEF TypeOK
<1>1. ASSUME NEW l \in Layouts, Switches(l)
      PROVE  mixer' \in Ordered
  BY <1>0, <1>1, OrderedMoves DEF Switches
<1>2. CASE Selects
  BY <1>0, <1>2, OrderedCommands DEF Selects
<1>3. CASE AimsSend
  BY <1>0, <1>s, <1>3, OrderedCommands, OrderedReads DEF AimsSend, At, Sent
<1>4. CASE AimsMute
  BY <1>0, <1>s, <1>4, OrderedCommands, OrderedReads DEF AimsMute, At, Sent
<1>5. CASE Provokes
  <2>1. S.row \in Rows /\ OtherRow \in Rows
    BY <1>0, <1>s, <1>p, <1>5 DEF Provokes, Between, OtherRow
  <2> QED
    BY <1>0, <2>1, <1>5, OrderedCommands, OrderedReads DEF Provokes, Sent
<1>6. CASE AimsPage2
  <2>1. S.row \in Rows /\ Start[S.row][S.ch] \in Hw
    BY AimAssumption, <1>s, <1>6 DEF AimsPage2, At
  <2> QED
    BY <1>0, <2>1, <1>6, OrderedCommands, OrderedReads DEF AimsPage2, Sent
<1>7. CASE Misaimed \/ Unconfirmed
  BY <1>0, <1>7, OrderedCommands, OrderedReads DEF Misaimed, Unconfirmed, Restores, Sent
<1>8. CASE ReadsEnable
  <2>1. S.row \in Rows
    BY <1>s, <1>p, <1>8 DEF ReadsEnable, Between
  <2> QED
    BY <1>0, <2>1, <1>8, OrderedCommands, OrderedReads DEF ReadsEnable, Sent
<1>9. CASE ReadsFx
  BY <1>0, <1>9, OrderedCommands, OrderedReads DEF ReadsFx, Sent
<1>10. CASE Sets
  BY <1>0, <1>10, OrderedCommands, OrderedReads DEF Sets, Pressed, Sent
<1>11. ASSUME NEW on \in BOOLEAN, Pulses(on)
       PROVE  mixer' \in Ordered
  BY <1>0, <1>11, OrderedCommands, OrderedReads DEF Pulses, Pressed, Sent
<1>12. CASE StepEnds
  BY <1>0, <1>12, OrderedCommands, OrderedReads DEF StepEnds, Sent
<1>13. CASE Probes \/ ShowsOutputs \/ ShowsInputs
  BY <1>0, <1>13, OrderedCommands, OrderedReads DEF Probes, ShowsOutputs, ShowsInputs, Sent
<1>14. CASE SweepBegins
  BY <1>0, <1>s, <1>14, OrderedCommands, OrderedReads DEF SweepBegins, At, Sent
<1>15. CASE SweepAims
  <2>1. S.row \in Rows
    BY <1>s, <1>p, <1>15 DEF SweepAims, Between
  <2>2. Offset \in Hw
    BY AimAssumption DEF Offset, Hw, TypeOK
  <2> QED
    BY <1>0, <2>1, <2>2, <1>15, OrderedCommands, OrderedReads DEF SweepAims, Sent
<1>16. CASE Finally
  BY <1>0, <1>16, OrderedCommands, OrderedReads DEF Finally, Sent
<1>17. CASE Ingests \/ Drops
  BY <1>t, <1>17 DEF Ingests, Drops
<1>18. CASE Touches
  <2>1. ASSUME NEW x \in Ordered, NEW w \in {"row", "bank"}
        PROVE  ByHand(x, w) \in Ordered
    <3>1. x.hand \cup {w} \in SUBSET {"row", "bank"}
      BY MixerFits DEF Ordered
    <3> QED
      BY <3>1, OrderedMoves DEF ByHand
  <2> QED
    BY <1>0, <1>18, <2>1, OrderedMoves DEF Touches
<1>19. CASE UNCHANGED mixer
  BY <1>0, <1>19
<1> QED
  BY <1>1, <1>2, <1>3, <1>4, <1>5, <1>6, <1>7, <1>8, <1>9, <1>10, <1>11, <1>12,
     <1>13, <1>14, <1>15, <1>16, <1>17, <1>18, <1>19
     DEF Next, Run, Page1Run, Page2Run, OtherRun, Listener, Begins, PlaysRaw,
     Aborts, Unmeasured, LabelSeen, WrongLabel, NoLabel, AlreadyFresh,
     Candidate, StillStreaming, Settled, Unsettled, NotInBank, Confirms,
     ButtonRead, ButtonUnknown, SweepReads, SweepObserves, SweepAborts,
     Registers, LooksAgain, Skips, Raises, Writes, StepsDone, Copies, Wakes


\* What was asked for an offset of a sweep is what the mixer shows, and what was
\* heard of it is the last answer.
SweepTold ==
  calm /\ pc \in {"track", "observe"} /\ S.kind = "sweep" =>
    /\ mixer.bank = Offset
    /\ \A m \in Fresh(mixer.out, "track") : m.ch = Shown(mixer, 1)
    /\ "track" \in since /\ ~state.track.old =>
         state.track.ch = Shown(mixer, 1) /\ NoneOld(mixer.out)
    /\ pc = "observe" => "track" \in since /\ ~state.track.old

LEMMA SweepToldKept ==
  ASSUME TypeOK, Staged, Woken, mixer \in Ordered, SweepTold, Next
  PROVE  SweepTold'
<1> SUFFICES ASSUME calm', (pc \in {"track", "observe"} /\ S.kind = "sweep")'
             PROVE  (/\ mixer.bank = Offset
                     /\ \A m \in Fresh(mixer.out, "track") : m.ch = Shown(mixer, 1)
                     /\ "track" \in since /\ ~state.track.old =>
                          state.track.ch = Shown(mixer, 1) /\ NoneOld(mixer.out)
                     /\ pc = "observe" => "track" \in since /\ ~state.track.old)'
  BY DEF SweepTold
<1>0. /\ calm /\ mixer \in Mixers /\ InOrder(mixer.out)
      /\ step \in DOMAIN macro => S.row \in Rows
  BY CalmBefore, MacroFits DEF TypeOK, Ordered
<1>p. pc \notin Between => step \in DOMAIN macro
  BY DEF TypeOK
<1>1. CASE SweepAims
  <2> DEFINE x == ToBank(Asked(mixer), Offset)
  <2>1. S.row \in Rows
    BY <1>0, <1>p, <1>1 DEF SweepAims, Between
  <2>2. Offset \in Hw
    BY AimAssumption DEF Offset, Hw, TypeOK
  <2>3. /\ mixer' = Mirror(x, S.row) /\ pc' = "track"
        /\ "track" \notin since' /\ UNCHANGED Offset
    BY <1>1, CalmStep DEF SweepAims, Sent, If, Waits, Notes, work, Offset
  <2>4. Fresh(mixer'.out, "track") = {Track(mixer')}
    BY <1>0, <2>1, <2>2, <2>3, Questions
  <2>5. x \in Mixers /\ x.bank = Offset
    BY <1>0, <2>2, AllFit, Commands
  <2> HIDE DEF x
  <2>6. mixer'.bank = Offset
    BY <2>1, <2>3, <2>5, Reads
  <2> QED
    BY <2>3, <2>4, <2>6 DEF Track
<1>2. CASE SweepReads
  <2>1. /\ Satisfied("track") /\ S.kind = "sweep" /\ ~state.track.old
        /\ UNCHANGED <<mixer, state, since, S, Offset>>
    BY <1>2, CalmStep DEF SweepReads, If, heard, plan, work, S, Offset
  <2>2. pc = "track" /\ "track" \in since
    BY <2>1, HeardAnswer DEF Answers
  <2> QED
    BY <1>0, <2>1, <2>2 DEF SweepTold
<1>3. CASE Ingests
  <2>1. /\ mixer.out # <<>> /\ mixer' = [mixer EXCEPT !.out = Tail(@)]
        /\ state' = Ingested(state, Head(mixer.out))
        /\ since' = since \cup {"any", Head(mixer.out).kind}
        /\ UNCHANGED <<pc, S, Offset>>
    BY <1>3 DEF Ingests, plan, work, S, Offset
  <2> DEFINE h == Head(mixer.out)
  <2>2. /\ mixer'.bank = mixer.bank /\ Shown(mixer', 1) = Shown(mixer, 1)
        /\ Fresh(mixer'.out, "track") \subseteq Fresh(mixer.out, "track")
        /\ h \in Messages
        /\ h.kind = "track" /\ ~h.old => h \in Fresh(mixer.out, "track")
    BY <1>0, <2>1, Taken
  <2>3. /\ mixer'.out = Tail(mixer.out)
        /\ NoneOld(mixer.out) => NoneOld(Tail(mixer.out))
        /\ h.kind = "track" /\ ~h.old => NoneOld(Tail(mixer.out))
    BY <1>0, <2>1, MixerFits, OrderedTail DEF Mixers
  <2>4. CASE h.kind = "track"
    <3>1. state'.track.ch = h.ch /\ state'.track.old = h.old
      BY <2>1, <2>4 DEF Ingested, TypeOK, DeviceStates
    <3>2. NoneOld(mixer.out) => ~h.old
      BY <1>0, <2>1, <2>4, MixerFits, HeadTailProperties, LenProperties, EmptySeq
         DEF NoneOld
    <3> QED
      BY <1>0, <2>1, <2>2, <2>3, <2>4, <3>1, <3>2 DEF SweepTold
  <2>5. CASE h.kind # "track"
    <3>1. state'.track = state.track
      BY <2>1, <2>2, <2>5 DEF Ingested, Stamped, TypeOK, DeviceStates, Messages
    <3>2. "track" \in since' <=> "track" \in since
      BY <2>1, <2>5
    <3> QED
      BY <1>0, <2>1, <2>2, <2>3, <3>1, <3>2 DEF SweepTold
  <2> QED
    BY <2>4, <2>5
<1>4. CASE Drops
  BY <1>4, CalmStep DEF Drops
<1>5. CASE Touches
  BY <1>5, CalmStep DEF Touches, If
<1>6. CASE AimsPage2
  BY <1>6 DEF AimsPage2, At, Page2, plan, S
<1>7. CASE UNCHANGED <<mixer, state, since, pc, plan, ticks>>
  BY <1>0, <1>7 DEF SweepTold, S, plan, Offset
<1>8. CASE pc' \notin {"track", "observe"}
  BY <1>8
<1> QED
  BY <1>1, <1>2, <1>3, <1>4, <1>5, <1>6, <1>7, <1>8
     DEF Next, Run, Page1Run, Page2Run, OtherRun, Listener, Begins, Switches,
     PlaysRaw, Selects, Aborts, Unmeasured, AimsSend, AimsMute, LabelSeen,
     WrongLabel, NoLabel, Provokes, AlreadyFresh, Candidate, StillStreaming,
     Settled, Unsettled, NotInBank, Confirms, Misaimed, Unconfirmed, Skips,
     Raises, ReadsEnable, ReadsFx, ButtonRead, ButtonUnknown, Sets, Pulses,
     Writes, StepEnds, Probes, ShowsOutputs, ShowsInputs, SweepBegins,
     SweepObserves, SweepAborts, StepsDone, Finally, Registers, LooksAgain,
     Copies, Wakes, NextStep, Waits, heard, work

\* What a sweep learns of an offset is a channel that is there, however the dumps
\* of one offset run into those of the next (_run_sweep_row).
THEOREM SweepLearns == Spec => []SweepLearnsTruth
<1> DEFINE Inv == mixer \in Ordered /\ SweepTold
<1>1. ASSUME Init
      PROVE  Inv
  <2>1. mixer \in Mixers /\ mixer.out = <<>> /\ pc = "idle"
    <3>1. TypeOK
      BY <1>1, TypesAtFirst DEF TypeInv
    <3>2. mixer.out = <<>> /\ pc = "idle"
      BY <1>1 DEF Init
    <3> QED
      BY <3>1, <3>2 DEF TypeOK
  <2>2. InOrder(mixer.out)
    BY <2>1 DEF InOrder
  <2> QED
    BY <2>1, <2>2 DEF Ordered, SweepTold
<1>2. ASSUME TypeOK, AimInv, Inv, [Next]_vars
      PROVE  Inv'
  <2>1. CASE Next
    BY <1>2, <2>1, OrderKept, SweepToldKept DEF AimInv
  <2>2. CASE UNCHANGED vars
    BY <1>2, <2>2 DEF vars, heard, plan, work, SweepTold, S, calm, Offset
  <2> QED
    BY <1>2, <2>1, <2>2
<1>3. ASSUME TypeOK, AimInv, Inv
      PROVE  SweepLearnsTruth
  <2> SUFFICES ASSUME calm, pc = "observe"
               PROVE  Offset \in state.track.ch
    BY DEF SweepLearnsTruth
  <2>1. mixer.bank = Offset /\ state.track.ch = Shown(mixer, 1)
    BY <1>3 DEF AimInv, Staged, SweepTold
  <2>2. mixer.bank \in Shown(mixer, 1)
    BY <1>3, BankShown DEF TypeOK
  <2> QED
    BY <2>1, <2>2
<1> QED
  BY <1>1, <1>2, <1>3, Typing, Invariant, PTL DEF Spec
=============================================================================
