------------------------- MODULE ClassicStripProofs -------------------------
(***************************************************************************)
(* Theorems about page 1 of ClassicAim.  The argument: nothing lost, the   *)
(* last dump under way says what the mixer is, and once it is in, so does  *)
(* the bank that a strip is looked up in.                                  *)
(***************************************************************************)
EXTENDS ClassicAimProofs, FiniteSetTheorems

-----------------------------------------------------------------------------
(* Dumps under way.                                                        *)

Page1 == {"values", "names"}

Comes(out, kind) == \E i \in DOMAIN out : out[i].kind = kind

Later(out, kind, i) == \E j \in DOMAIN out : i < j /\ out[j].kind = kind

\* A dump is its values and then its names.
Paired(out) ==
  \A i \in DOMAIN out :
    /\ out[i].kind = "values" => i + 1 \in DOMAIN out /\ out[i + 1].kind = "names"
    /\ out[i].kind = "names" => i = 1 \/ out[i - 1].kind = "values"

\* The last one is of the mixer as it is.
LastTrue(x) ==
  \A i \in DOMAIN x.out :
    /\ x.out[i].kind = "values" /\ ~Later(x.out, "values", i)
         => x.out[i].sub = x.submix /\ x.out[i].row = x.row
    /\ x.out[i].kind = "names" /\ ~Later(x.out, "names", i)
         => x.out[i].view = View(x)

Bank(d) == d.strips[Place(d.label, d.row)]

SomeSeen(d) == \E p \in Places : d.strips[p].seen

\* With none of them under way, the listener has it, if it has any.
HeardTrue(x, d) ==
  /\ ~Comes(x.out, "values") /\ d.label # None => d.label = x.submix /\ d.row = x.row
  /\ ~Comes(x.out, "names") /\ d.label # None => Bank(d).view = View(x)
  /\ ~Comes(x.out, "names") /\ SomeSeen(d) => Bank(d).seen
  /\ d.label = None =>
       /\ \A p \in Places : d.strips[p] = [view |-> None, seen |-> FALSE]
       /\ 1 \in DOMAIN x.out => x.out[1].kind # "names"

Told(d) == {x \in Mixers : Paired(x.out) /\ LastTrue(x) /\ HeardTrue(x, d)}

LEMMA Concatenated ==
  ASSUME NEW s \in Seq(Messages), NEW t \in Seq(Messages)
  PROVE  /\ Len(s) \in Nat /\ DOMAIN s = 1..Len(s)
         /\ DOMAIN (s \o t) = 1..(Len(s) + Len(t))
         /\ \A i \in 1..(Len(s) + Len(t)) :
              (s \o t)[i] = IF i <= Len(s) THEN s[i] ELSE t[i - Len(s)]
BY LenProperties, ConcatProperties

LEMMA TwoMore ==
  ASSUME NEW s \in Seq(Messages), NEW t \in Seq(Messages), Len(t) = 2
  PROVE  LET n == Len(s)
         IN  /\ n \in Nat /\ DOMAIN s = 1..n
             /\ DOMAIN (s \o t) = 1..(n + 2)
             /\ \A i \in 1..n : (s \o t)[i] = s[i]
             /\ (s \o t)[n + 1] = t[1] /\ (s \o t)[n + 2] = t[2]
<1> DEFINE n == Len(s)
<1>1. /\ Len(s) \in Nat /\ DOMAIN s = 1..Len(s)
      /\ DOMAIN (s \o t) = 1..(Len(s) + Len(t))
      /\ \A i \in 1..(Len(s) + Len(t)) :
           (s \o t)[i] = IF i <= Len(s) THEN s[i] ELSE t[i - Len(s)]
  BY Concatenated
<1>2. n \in Nat /\ DOMAIN s = 1..n
  BY <1>1
<1>3. /\ DOMAIN (s \o t) = 1..(n + 2)
      /\ \A i \in 1..(n + 2) : (s \o t)[i] = IF i <= n THEN s[i] ELSE t[i - n]
  BY <1>1
<1> HIDE DEF n
<1>4. /\ \A i \in 1..n : i \in 1..(n + 2) /\ i <= n
      /\ n + 1 \in 1..(n + 2) /\ n + 2 \in 1..(n + 2)
      /\ (n + 1) - n = 1 /\ (n + 2) - n = 2 /\ ~(n + 1 <= n) /\ ~(n + 2 <= n)
  BY <1>2
<1>5. \A i \in 1..n : (s \o t)[i] = s[i]
  BY <1>3, <1>4
<1>6. (s \o t)[n + 1] = t[1] /\ (s \o t)[n + 2] = t[2]
  BY <1>3, <1>4
<1> QED
  BY <1>2, <1>3, <1>5, <1>6 DEF n

\* A dump of a change puts the mixer as it is at the end.
LEMMA ToldChanged ==
  ASSUME NEW d, NEW x \in Told(d), NEW y \in Mixers, y.out = x.out
  PROVE  Changed(x, y) \in Told(d)
<1> DEFINE z == Changed(x, y)
           n == Len(x.out)
<1>0. x \in Mixers /\ Paired(x.out) /\ LastTrue(x) /\ HeardTrue(x, d)
  BY DEF Told
<1>1. CASE x = y
  BY <1>1 DEF Changed
<1>2. CASE x # y
  <2>1. z \in Mixers /\ View(z) = View(y) /\ z.submix = y.submix /\ z.row = y.row
        /\ z.out = x.out \o Dump(y)
    BY <1>0, <1>2, ChangedFits DEF Changed, Mixers, View
  <2>2. /\ Dump(y) \in Seq(Messages) /\ Len(Dump(y)) = 2
        /\ Dump(y)[1].kind = "values" /\ Dump(y)[2].kind = "names"
        /\ Dump(y)[1].sub = y.submix /\ Dump(y)[1].row = y.row
        /\ Dump(y)[2].view = View(y)
    BY DumpFits DEF Dump
  <2>3. x.out \in Seq(Messages)
    BY <1>0, MixerFits
  <2>4. /\ n \in Nat /\ DOMAIN x.out = 1..n
        /\ DOMAIN z.out = 1..(n + 2)
        /\ \A i \in 1..n : z.out[i] = x.out[i]
        /\ z.out[n + 1] = Dump(y)[1] /\ z.out[n + 2] = Dump(y)[2]
    BY <2>1, <2>2, <2>3, TwoMore
  <2> HIDE DEF n, z
  <2>5. Paired(z.out)
    <3> SUFFICES ASSUME NEW i \in DOMAIN z.out
                 PROVE  /\ z.out[i].kind = "values"
                             => i + 1 \in DOMAIN z.out /\ z.out[i + 1].kind = "names"
                        /\ z.out[i].kind = "names" => i = 1 \/ z.out[i - 1].kind = "values"
      BY DEF Paired
    <3>1. CASE i \in 1..n
      <4>1. /\ i + 1 \in 1..n => z.out[i + 1] = x.out[i + 1] /\ i + 1 \in 1..(n + 2)
            /\ i - 1 \in 1..n => z.out[i - 1] = x.out[i - 1]
            /\ z.out[i] = x.out[i]
        <5>1. \A j \in 1..n : j \in 1..(n + 2)
          BY <2>4
        <5> QED
          BY <2>4, <3>1, <5>1
      <4>2. i # 1 => i - 1 \in 1..n
        BY <2>4, <3>1
      <4>3. i \in DOMAIN x.out
        BY <2>4, <3>1
      <4>4. z.out[i].kind = "values"
              => i + 1 \in DOMAIN z.out /\ z.out[i + 1].kind = "names"
        BY <1>0, <2>4, <4>1, <4>3 DEF Paired
      <4>5. z.out[i].kind = "names" => i = 1 \/ z.out[i - 1].kind = "values"
        BY <1>0, <2>4, <4>1, <4>2, <4>3 DEF Paired
      <4> QED
        BY <4>4, <4>5
    <3>2. CASE i = n + 1
      <4>1. i + 1 = n + 2
        BY <2>4, <3>2
      <4> QED
        BY <2>2, <2>4, <3>2, <4>1
    <3>3. CASE i = n + 2
      <4>1. i - 1 = n + 1
        BY <2>4, <3>3
      <4> QED
        BY <2>2, <2>4, <3>3, <4>1
    <3> QED
      BY <2>4, <3>1, <3>2, <3>3
  <2>6. LastTrue(z)
    <3> SUFFICES ASSUME NEW i \in DOMAIN z.out
                 PROVE  /\ z.out[i].kind = "values" /\ ~Later(z.out, "values", i)
                             => z.out[i].sub = z.submix /\ z.out[i].row = z.row
                        /\ z.out[i].kind = "names" /\ ~Later(z.out, "names", i)
                             => z.out[i].view = View(z)
      BY DEF LastTrue
    <3>1. i < n + 1 => Later(z.out, "values", i)
      BY <2>2, <2>4 DEF Later
    <3>2. i < n + 2 => Later(z.out, "names", i)
      BY <2>2, <2>4 DEF Later
    <3>3. i < n + 1 \/ i = n + 1 \/ i = n + 2
      BY <2>4
    <3>4. i < n + 1 => i < n + 2
      BY <2>4
    <3>5. i = n + 1 => i < n + 2
      BY <2>4
    <3> QED
      BY <2>1, <2>2, <2>4, <3>1, <3>2, <3>3, <3>4, <3>5
  <2>7. HeardTrue(z, d)
    <3>1. Comes(z.out, "values") /\ Comes(z.out, "names")
      <4>1. n + 1 \in DOMAIN z.out /\ n + 2 \in DOMAIN z.out
        BY <2>4
      <4> QED
        BY <2>2, <2>4, <4>1 DEF Comes
    <3>2. d.label = None => /\ \A p \in Places : d.strips[p] = [view |-> None, seen |-> FALSE]
                            /\ 1 \in DOMAIN z.out => z.out[1].kind # "names"
      <4> SUFFICES ASSUME d.label = None
                   PROVE  /\ \A p \in Places : d.strips[p] = [view |-> None, seen |-> FALSE]
                          /\ 1 \in DOMAIN z.out => z.out[1].kind # "names"
        OBVIOUS
      <4>0. \A p \in Places : d.strips[p] = [view |-> None, seen |-> FALSE]
        BY <1>0 DEF HeardTrue
      <4>1. CASE n = 0
        <5>1. n + 1 = 1
          BY <4>1
        <5> QED
          BY <2>2, <2>4, <4>0, <5>1
      <4>2. CASE n # 0
        <5>1. 1 \in 1..n
          BY <2>4, <4>2
        <5> QED
          BY <1>0, <2>4, <4>0, <5>1 DEF HeardTrue
      <4> QED
        BY <4>1, <4>2
    <3> QED
      BY <3>1, <3>2 DEF HeardTrue
  <2> QED
    BY <2>1, <2>5, <2>6, <2>7 DEF Told, z
<1> QED
  BY <1>1, <1>2

\* What is no dump of page 1 changes nothing of this.
LEMMA ToldExtended ==
  ASSUME NEW d, NEW x \in Told(d), NEW z \in Mixers,
         View(z) = View(x), z.submix = x.submix, z.row = x.row,
         \A i \in DOMAIN x.out :
           /\ i \in DOMAIN z.out
           /\ z.out[i] = x.out[i]
                \/ (z.out[i].kind \notin Page1 /\ x.out[i].kind \notin Page1),
         \A i \in DOMAIN z.out \ DOMAIN x.out : z.out[i].kind \notin Page1
  PROVE  z \in Told(d)
<1>0. x \in Mixers /\ Paired(x.out) /\ LastTrue(x) /\ HeardTrue(x, d)
  BY DEF Told
<1>1. ASSUME NEW i \in DOMAIN z.out, z.out[i].kind \in Page1
      PROVE  i \in DOMAIN x.out /\ z.out[i] = x.out[i]
  BY <1>1
<1>2. ASSUME NEW i \in DOMAIN x.out, x.out[i].kind \in Page1
      PROVE  i \in DOMAIN z.out /\ z.out[i] = x.out[i]
  BY <1>2
<1>3. ASSUME NEW k \in Page1
      PROVE  /\ Comes(x.out, k) <=> Comes(z.out, k)
             /\ \A i \in DOMAIN x.out : Later(x.out, k, i) => Later(z.out, k, i)
  BY <1>1, <1>2, <1>3 DEF Comes, Later
<1>d. 1 \in DOMAIN z.out /\ z.out[1].kind = "names" => 1 \in DOMAIN x.out
  BY <1>1 DEF Page1
<1>4. Paired(z.out)
  <2> SUFFICES ASSUME NEW i \in DOMAIN z.out
               PROVE  /\ z.out[i].kind = "values"
                           => i + 1 \in DOMAIN z.out /\ z.out[i + 1].kind = "names"
                      /\ z.out[i].kind = "names" => i = 1 \/ z.out[i - 1].kind = "values"
    BY DEF Paired
  <2>1. CASE z.out[i].kind = "values"
    <3>1. /\ i \in DOMAIN x.out /\ x.out[i].kind = "values"
      BY <1>1, <2>1 DEF Page1
    <3>2. i + 1 \in DOMAIN x.out /\ x.out[i + 1].kind = "names"
      BY <1>0, <3>1 DEF Paired
    <3> QED
      BY <1>2, <2>1, <3>2 DEF Page1
  <2>2. CASE z.out[i].kind = "names"
    <3>1. /\ i \in DOMAIN x.out /\ x.out[i].kind = "names"
      BY <1>1, <2>2 DEF Page1
    <3>2. i = 1 \/ x.out[i - 1].kind = "values"
      BY <1>0, <3>1 DEF Paired
    <3>3. i # 1 => i - 1 \in DOMAIN x.out
      <4>1. x.out \in Seq(Messages)
        BY <1>0, MixerFits
      <4> QED
        BY <3>1, <4>1, LenProperties
    <3> QED
      BY <1>2, <2>2, <3>2, <3>3 DEF Page1
  <2> QED
    BY <2>1, <2>2
<1>5. LastTrue(z)
  <2>1. /\ "values" \in Page1 /\ "names" \in Page1
    BY DEF Page1
  <2> QED
    BY <1>0, <1>1, <1>3, <2>1 DEF LastTrue
<1>6. HeardTrue(z, d)
  <2>1. /\ "values" \in Page1 /\ "names" \in Page1
    BY DEF Page1
  <2> QED
    BY <1>0, <1>1, <1>3, <1>d, <2>1 DEF HeardTrue
<1> QED
  BY <1>4, <1>5, <1>6 DEF Told

LEMMA ToldMoves ==
  ASSUME NEW d, NEW x \in Told(d)
  PROVE  /\ \A r \in Rows : MovesRow(x, r) \in Told(d)
         /\ \A b \in Hw : MovesBank(x, b) \in Told(d)
         /\ \A s \in Submixes : MovesSubmix(x, s) \in Told(d)
         /\ \A l \in Layouts : MovesLayout(x, l) \in Told(d)
         /\ \A h \in SUBSET {"row", "bank"} : [x EXCEPT !.hand = h] \in Told(d)
<1>0. x \in Mixers
  BY DEF Told
<1>1. /\ \A r \in Rows : [x EXCEPT !.row = r] \in Mixers
                         /\ [x EXCEPT !.row = r].out = x.out
      /\ \A b \in Hw : [x EXCEPT !.bank = b] \in Mixers
                       /\ [x EXCEPT !.bank = b].out = x.out
      /\ \A s \in Submixes : [x EXCEPT !.submix = s] \in Mixers
                             /\ [x EXCEPT !.submix = s].out = x.out
      /\ \A l \in Layouts : [x EXCEPT !.layout = l] \in Mixers
                            /\ [x EXCEPT !.layout = l].out = x.out
  BY <1>0 DEF Mixers
<1>2. ASSUME NEW h \in SUBSET {"row", "bank"}
      PROVE  [x EXCEPT !.hand = h] \in Told(d)
  <2> DEFINE z == [x EXCEPT !.hand = h]
  <2>1. /\ z \in Mixers /\ View(z) = View(x) /\ z.submix = x.submix
        /\ z.row = x.row /\ z.out = x.out
    BY <1>0 DEF Mixers, View
  <2> HIDE DEF z
  <2> QED
    BY <2>1, ToldExtended DEF z
<1> QED
  BY <1>1, <1>2, ToldChanged DEF MovesRow, MovesBank, MovesSubmix, MovesLayout

LEMMA ToldCommands ==
  ASSUME NEW d
  PROVE  /\ \A x \in Told(d), r \in Rows : ToRow(x, r) \in Told(d)
         /\ \A x \in Told(d), b \in Hw : ToBank(x, b) \in Told(d)
         /\ \A x \in Told(d), s \in Submixes : ToSubmix(x, s) \in Told(d)
<1>1. ASSUME NEW y \in Told(d)
      PROVE  /\ [y EXCEPT !.hand = @ \ {"row"}] \in Told(d)
             /\ [y EXCEPT !.hand = @ \ {"bank"}] \in Told(d)
  <2>1. y.hand \in SUBSET {"row", "bank"}
    BY MixerFits DEF Told
  <2> QED
    BY <2>1, ToldMoves
<1> QED
  BY <1>1, ToldMoves DEF ToRow, ToBank, ToSubmix

LEMMA ToldAsked ==
  ASSUME NEW d, NEW x \in Told(d)
  PROVE  Asked(x) \in Told(d)
<1> DEFINE z == Asked(x)
<1>1. x \in Mixers /\ z \in Mixers /\ x.out \in Seq(Messages)
  BY AskedFits, MixerFits DEF Told
<1>2. /\ View(z) = View(x) /\ z.submix = x.submix /\ z.row = x.row
      /\ z.out = [i \in DOMAIN x.out |->
                    IF x.out[i].kind \in {"track", "enable", "fx"}
                      THEN [x.out[i] EXCEPT !.old = TRUE] ELSE x.out[i]]
  BY <1>1 DEF Asked, Mixers, View
<1>3. ASSUME NEW i \in DOMAIN x.out
      PROVE  z.out[i] = x.out[i]
               \/ (z.out[i].kind \notin Page1 /\ x.out[i].kind \notin Page1)
  <2>1. x.out[i] \in Messages
    BY <1>1, ElementOfSeq, LenProperties
  <2>2. CASE x.out[i].kind \in {"track", "enable", "fx"}
    <3>1. [x.out[i] EXCEPT !.old = TRUE].kind = x.out[i].kind
      BY <2>1 DEF Messages
    <3> QED
      BY <1>2, <2>2, <3>1 DEF Page1
  <2> QED
    BY <1>2, <2>2
<1> HIDE DEF z
<1> QED
  BY <1>1, <1>2, <1>3, ToldExtended DEF z

LEMMA ToldReads ==
  ASSUME NEW d, NEW x \in Told(d)
  PROVE  /\ \A r \in Rows : Mirror(x, r) \in Told(d)
         /\ MirrorFx(x) \in Told(d)
         /\ Press(x) \in Told(d) /\ PressFx(x) \in Told(d)
<1>0. x \in Mixers /\ x.out \in Seq(Messages) /\ x.fx \in BOOLEAN
  BY MixerFits DEF Told
<1>1. ASSUME NEW r \in Rows
      PROVE  Mirror(x, r) \in Told(d)
  <2> DEFINE y == ToRow(x, r)
             z == Mirror(x, r)
             t == <<Track(y), Enable(y)>>
  <2>1. y \in Told(d) /\ y \in Mixers /\ z \in Mixers
    BY <1>0, ToldCommands, CommandsFit, MirrorFits
  <2>2. t \in Seq(Messages) /\ y.out \in Seq(Messages)
    <3>1. Shown(y, 1) \in SUBSET Hw /\ Enabled(y) \in BOOLEAN
          /\ y.out \in Seq(Messages)
      BY <2>1, MixerFits DEF Enabled
    <3>2. Track(y) \in Messages /\ Enable(y) \in Messages
      BY <3>1, MessageFits DEF Track, Enable
    <3> QED
      BY <3>1, <3>2
  <2>3. /\ View(z) = View(y) /\ z.submix = y.submix /\ z.row = y.row
        /\ z.out = y.out \o t
    BY <2>1 DEF Mirror, Mixers, View, Track, Enable
  <2>4. /\ Len(t) = 2 /\ t[1].kind \notin Page1 /\ t[2].kind \notin Page1
    BY DEF Page1, Track, Enable
  <2> HIDE DEF y, z, t
  <2> DEFINE n == Len(y.out)
  <2>5. /\ n \in Nat /\ DOMAIN y.out = 1..n /\ DOMAIN z.out = 1..(n + 2)
        /\ \A i \in 1..n : z.out[i] = y.out[i]
        /\ z.out[n + 1] = t[1] /\ z.out[n + 2] = t[2]
    BY <2>2, <2>3, <2>4, TwoMore
  <2> HIDE DEF n
  <2>6. \A i \in DOMAIN z.out \ DOMAIN y.out : i = n + 1 \/ i = n + 2
    BY <2>5
  <2>7. \A i \in DOMAIN y.out : i \in DOMAIN z.out
    BY <2>5
  <2>8. z \in Told(d)
    BY <2>1, <2>3, <2>4, <2>5, <2>6, <2>7, ToldExtended
  <2> QED
    BY <2>8 DEF z
<1>2. MirrorFx(x) \in Told(d)
  <2> DEFINE z == MirrorFx(x)
  <2>1. z \in Mixers
    BY <1>0, ButtonsFit
  <2>2. Fx(x) \in Messages
    BY <1>0, MessageFits DEF Fx
  <2>3. /\ View(z) = View(x) /\ z.submix = x.submix /\ z.row = x.row
        /\ z.out = Append(x.out, Fx(x))
    BY <1>0 DEF MirrorFx, Mixers, View, Fx
  <2>4. Fx(x).kind \notin Page1
    BY DEF Page1, Fx
  <2> HIDE DEF z
  <2>5. /\ Len(x.out) \in Nat /\ DOMAIN x.out = 1..Len(x.out)
        /\ DOMAIN z.out = 1..(Len(x.out) + 1)
        /\ \A i \in 1..Len(x.out) : z.out[i] = x.out[i]
        /\ z.out[Len(x.out) + 1] = Fx(x)
    BY <1>0, <2>2, <2>3, AppendProperties, LenProperties
  <2>6. /\ \A i \in DOMAIN z.out \ DOMAIN x.out : i = Len(x.out) + 1
        /\ \A i \in DOMAIN x.out : i \in DOMAIN z.out
    BY <2>5
  <2>7. z \in Told(d)
    BY <2>1, <2>3, <2>4, <2>5, <2>6, ToldExtended
  <2> QED
    BY <2>7 DEF z
<1>3. Press(x) \in Told(d)
  <2> DEFINE z == Press(x)
  <2>1. z \in Mixers /\ View(z) = View(x) /\ z.submix = x.submix
        /\ z.row = x.row /\ z.out = x.out
    BY <1>0, ButtonsFit DEF Press, Mixers, View
  <2> HIDE DEF z
  <2>2. z \in Told(d)
    BY <2>1, ToldExtended
  <2> QED
    BY <2>2 DEF z
<1>4. PressFx(x) \in Told(d)
  <2> DEFINE z == PressFx(x)
  <2>1. z \in Mixers /\ View(z) = View(x) /\ z.submix = x.submix
        /\ z.row = x.row /\ z.out = x.out
    BY <1>0, ButtonsFit DEF PressFx, Mixers, View
  <2> HIDE DEF z
  <2>2. z \in Told(d)
    BY <2>1, ToldExtended
  <2> QED
    BY <2>2 DEF z
<1> QED
  BY <1>1, <1>2, <1>3, <1>4

LEMMA ToldFloored ==
  ASSUME NEW d \in DeviceStates, NEW x \in Told(d)
  PROVE  x \in Told(Floored(d))
<1> DEFINE e == Floored(d)
<1>1. /\ d.strips \in [Places -> [view : Views \cup {None}, seen : BOOLEAN]]
      /\ Place(d.label, d.row) \in Places
  BY PlaceFits DEF DeviceStates
<1>2. /\ e.label = d.label /\ e.row = d.row
      /\ \A p \in Places : e.strips[p] = [d.strips[p] EXCEPT !.seen = FALSE]
  BY DEF Floored, DeviceStates
<1> HIDE DEF e
<1>3. ASSUME NEW p \in Places
      PROVE  e.strips[p].view = d.strips[p].view /\ ~e.strips[p].seen
  <2>1. d.strips[p] \in [view : Views \cup {None}, seen : BOOLEAN]
    BY <1>1
  <2>2. e.strips[p] = [d.strips[p] EXCEPT !.seen = FALSE]
    BY <1>2
  <2> QED
    BY <2>1, <2>2
<1>4. \A p \in Places : d.strips[p] = [view |-> None, seen |-> FALSE]
                          => e.strips[p] = [view |-> None, seen |-> FALSE]
  BY <1>1, <1>2
<1>5. Bank(e).view = Bank(d).view
  BY <1>1, <1>2, <1>3 DEF Bank
<1>6. HeardTrue(x, e)
  BY <1>2, <1>3, <1>4, <1>5 DEF Told, HeardTrue, SomeSeen
<1> QED
  BY <1>6 DEF Told, e

\* What comes next is in, and what comes after it is the next.
LEMMA ToldTaken ==
  ASSUME NEW d \in DeviceStates, NEW x \in Told(d), x.out # <<>>
  PROVE  [x EXCEPT !.out = Tail(@)] \in Told(Ingested(d, Head(x.out)))
<1> DEFINE h == Head(x.out)
           e == Ingested(d, h)
           z == [x EXCEPT !.out = Tail(@)]
<1>0. x \in Mixers /\ Paired(x.out) /\ LastTrue(x) /\ HeardTrue(x, d)
  BY DEF Told
<1>1. x.out \in Seq(Messages)
  BY <1>0, MixerFits
<1>2. /\ DOMAIN x.out = 1..Len(x.out) /\ Len(x.out) \in Nat /\ Len(x.out) # 0
      /\ DOMAIN Tail(x.out) = 1..(Len(x.out) - 1)
      /\ \A i \in 1..(Len(x.out) - 1) : Tail(x.out)[i] = x.out[i + 1]
      /\ h = x.out[1]
  BY <1>1, LenProperties, HeadTailProperties, EmptySeq
<1>3. /\ z \in Mixers /\ z.out = Tail(x.out) /\ h \in Messages
      /\ View(z) = View(x) /\ z.submix = x.submix /\ z.row = x.row
  <2>1. Tail(x.out) \in Seq(Messages) /\ h \in Messages
    BY <1>1, HeadTailProperties
  <2> QED
    BY <1>0, <2>1 DEF Mixers, View
<1>4. /\ 1 \in DOMAIN x.out
      /\ \A i \in DOMAIN z.out : i + 1 \in DOMAIN x.out /\ z.out[i] = x.out[i + 1]
                                 /\ (i # 1 => i - 1 \in DOMAIN z.out) /\ i \in Nat \ {0}
      /\ \A i \in DOMAIN x.out : i # 1 => i - 1 \in DOMAIN z.out /\ z.out[i - 1] = x.out[i]
      /\ \A i \in DOMAIN x.out : i \in Nat \ {0}
  <2>1. \A i \in 1..(Len(x.out) - 1) : i + 1 \in 1..Len(x.out) /\ i \in Nat \ {0}
          /\ (i # 1 => i - 1 \in 1..(Len(x.out) - 1))
    BY <1>2
  <2>2. \A i \in 1..Len(x.out) : i \in Nat \ {0}
          /\ (i # 1 => i - 1 \in 1..(Len(x.out) - 1) /\ (i - 1) + 1 = i)
    BY <1>2
  <2>3. 1 \in 1..Len(x.out)
    BY <1>2
  <2> QED
    BY <1>2, <1>3, <2>1, <2>2, <2>3
<1> HIDE DEF z, h
<1>5. Paired(z.out)
  <2> SUFFICES ASSUME NEW i \in DOMAIN z.out
               PROVE  /\ z.out[i].kind = "values"
                           => i + 1 \in DOMAIN z.out /\ z.out[i + 1].kind = "names"
                      /\ z.out[i].kind = "names" => i = 1 \/ z.out[i - 1].kind = "values"
    BY DEF Paired
  <2>1. /\ i + 1 \in DOMAIN x.out /\ z.out[i] = x.out[i + 1] /\ i \in Nat \ {0}
        /\ i # 1 => i - 1 \in DOMAIN z.out
    BY <1>4
  <2>2. (i + 1) + 1 # 1 /\ ((i + 1) + 1) - 1 = i + 1 /\ i + 1 # 1 /\ (i + 1) - 1 = i
        /\ (i - 1) + 1 = i
    BY <2>1
  <2>3. ASSUME z.out[i].kind = "values"
        PROVE  i + 1 \in DOMAIN z.out /\ z.out[i + 1].kind = "names"
    <3>1. (i + 1) + 1 \in DOMAIN x.out /\ x.out[(i + 1) + 1].kind = "names"
      BY <1>0, <2>1, <2>3 DEF Paired
    <3> QED
      BY <1>4, <2>2, <3>1
  <2>4. ASSUME z.out[i].kind = "names", i # 1
        PROVE  z.out[i - 1].kind = "values"
    <3>1. x.out[(i + 1) - 1].kind = "values"
      BY <1>0, <2>1, <2>2, <2>4 DEF Paired
    <3>2. z.out[i - 1] = x.out[(i - 1) + 1]
      BY <1>4, <2>1, <2>4
    <3> QED
      BY <2>2, <3>1, <3>2
  <2> QED
    BY <2>3, <2>4
<1>6. ASSUME NEW k
      PROVE  /\ \A i \in DOMAIN z.out : Later(x.out, k, i + 1) => Later(z.out, k, i)
             /\ Later(x.out, k, 1) => Comes(z.out, k)
             /\ Comes(x.out, k) /\ h.kind # k => Comes(z.out, k)
  <2>1. ASSUME NEW i \in DOMAIN z.out, Later(x.out, k, i + 1)
        PROVE  Later(z.out, k, i)
    <3>1. PICK j \in DOMAIN x.out : i + 1 < j /\ x.out[j].kind = k
      BY <2>1 DEF Later
    <3>2. i \in Nat /\ j \in Nat /\ j # 1
      BY <1>4, <3>1
    <3>3. j - 1 \in DOMAIN z.out /\ z.out[j - 1] = x.out[j] /\ i < j - 1
      BY <1>4, <3>1, <3>2
    <3> QED
      BY <3>1, <3>3 DEF Later
  <2>2. ASSUME NEW j \in DOMAIN x.out, j # 1
        PROVE  Comes(z.out, x.out[j].kind)
    <3>1. j - 1 \in DOMAIN z.out /\ z.out[j - 1] = x.out[j]
      BY <1>4, <2>2
    <3> QED
      BY <3>1 DEF Comes
  <2>3. Later(x.out, k, 1) => Comes(z.out, k)
    BY <1>4, <2>2 DEF Later
  <2>4. Comes(x.out, k) /\ h.kind # k => Comes(z.out, k)
    BY <1>2, <2>2 DEF Comes
  <2> QED
    BY <2>1, <2>3, <2>4
<1>7. LastTrue(z)
  <2> SUFFICES ASSUME NEW i \in DOMAIN z.out
               PROVE  /\ z.out[i].kind = "values" /\ ~Later(z.out, "values", i)
                           => z.out[i].sub = z.submix /\ z.out[i].row = z.row
                      /\ z.out[i].kind = "names" /\ ~Later(z.out, "names", i)
                           => z.out[i].view = View(z)
    BY DEF LastTrue
  <2>1. i + 1 \in DOMAIN x.out /\ z.out[i] = x.out[i + 1]
    BY <1>4
  <2>2. /\ ~Later(z.out, "values", i) => ~Later(x.out, "values", i + 1)
        /\ ~Later(z.out, "names", i) => ~Later(x.out, "names", i + 1)
    BY <1>6
  <2> QED
    BY <1>0, <1>3, <2>1, <2>2 DEF LastTrue
<1>8. /\ d.label \in Submixes \cup {None} /\ d.row \in Rows
      /\ d.strips \in [Places -> [view : Views \cup {None}, seen : BOOLEAN]]
      /\ Place(d.label, d.row) \in Places
  BY PlaceFits DEF DeviceStates
<1>9. HeardTrue(z, e)
  <2>1. CASE h.kind = "values"
    <3>1. /\ h.sub \in Submixes /\ h.row \in Rows
      BY <1>3, <2>1 DEF Messages
    <3>2. e.label = h.sub /\ e.row = h.row /\ e.label # None
      <4>1. None \notin Submixes
        BY AimAssumption
      <4> QED
        BY <2>1, <3>1, <4>1 DEF Ingested, Stamped, DeviceStates
    <3>3. ~Later(x.out, "values", 1) => h.sub = x.submix /\ h.row = x.row
      BY <1>0, <1>2, <1>4, <2>1 DEF LastTrue
    <3>4. 1 + 1 \in DOMAIN x.out /\ x.out[1 + 1].kind = "names"
      BY <1>0, <1>2, <1>4, <2>1 DEF Paired
    <3>5. Comes(z.out, "names")
      <4>1. (1 + 1) - 1 \in DOMAIN z.out /\ z.out[(1 + 1) - 1] = x.out[1 + 1]
        BY <1>4, <3>4
      <4> QED
        BY <3>4, <4>1 DEF Comes
    <3> QED
      BY <1>3, <1>6, <3>2, <3>3, <3>5 DEF HeardTrue
  <2>2. CASE h.kind = "names"
    <3>1. h.view \in Views
      BY <1>3, <2>2 DEF Messages
    <3>2. /\ e.label = d.label /\ e.row = d.row
          /\ Bank(e) = [view |-> h.view, seen |-> TRUE]
      BY <1>8, <2>2 DEF Ingested, DeviceStates, Bank
    <3>3. d.label # None
      BY <1>0, <1>2, <1>4, <2>2 DEF HeardTrue
    <3>4. ~Later(x.out, "names", 1) => h.view = View(x)
      BY <1>0, <1>2, <1>4, <2>2 DEF LastTrue
    <3>5. ~Comes(z.out, "values") => ~Comes(x.out, "values")
      BY <1>6, <2>2
    <3> QED
      BY <1>0, <1>3, <1>6, <3>2, <3>3, <3>4, <3>5 DEF HeardTrue
  <2>3. CASE h.kind \notin Page1
    <3>1. e.label = d.label /\ e.row = d.row /\ e.strips = d.strips
      BY <1>3, <2>3 DEF Page1, Ingested, Messages, DeviceStates
    <3>2. /\ ~Comes(z.out, "values") => ~Comes(x.out, "values")
          /\ ~Comes(z.out, "names") => ~Comes(x.out, "names")
      BY <1>6, <2>3 DEF Page1
    <3>3. 1 \in DOMAIN z.out => z.out[1].kind # "names"
      <4> SUFFICES ASSUME 1 \in DOMAIN z.out
                   PROVE  z.out[1].kind # "names"
        OBVIOUS
      <4>1. 1 + 1 \in DOMAIN x.out /\ z.out[1] = x.out[1 + 1]
        BY <1>4
      <4>2. x.out[1 + 1].kind = "names" => x.out[(1 + 1) - 1].kind = "values"
        BY <1>0, <4>1 DEF Paired
      <4>3. (1 + 1) - 1 = 1 /\ h.kind # "values"
        BY <2>3 DEF Page1
      <4> QED
        BY <1>2, <4>1, <4>2, <4>3
    <3>4. Bank(e) = Bank(d) /\ SomeSeen(e) = SomeSeen(d)
      BY <3>1 DEF Bank, SomeSeen
    <3> QED
      BY <1>0, <1>3, <3>1, <3>2, <3>3, <3>4 DEF HeardTrue
  <2> QED
    BY <2>1, <2>2, <2>3 DEF Page1
<1>10. z \in Told(e)
  BY <1>3, <1>5, <1>7, <1>9 DEF Told
<1> QED
  BY <1>10 DEF z, h

LEMMA ToldKept ==
  ASSUME TypeOK, mixer \in Told(state), Next, calm'
  PROVE  mixer' \in Told(state')
<1>0. mixer \in Told(state) /\ 1 \in Rows /\ 2 \in Rows /\ 3 \in Rows /\ 0 \in Hw
  BY AimAssumption DEF TypeOK, Rows, Hw
<1>s. step \in DOMAIN macro => S.row \in Rows
  BY MacroFits DEF TypeOK
<1>p. pc \notin Between => step \in DOMAIN macro
  BY DEF TypeOK
<1>1. ASSUME NEW l \in Layouts, Switches(l)
      PROVE  mixer' \in Told(state) /\ UNCHANGED state
  BY <1>0, <1>1, ToldMoves DEF Switches, heard
<1>2. CASE Selects
  BY <1>0, <1>2, ToldCommands DEF Selects, heard
<1>3. CASE AimsSend
  <2>1. state' = Floored(state) /\ mixer' \in Told(state)
    BY <1>0, <1>s, <1>3, ToldCommands DEF AimsSend, At, Sent
  <2> QED
    BY <2>1, ToldFloored DEF TypeOK
<1>4. CASE AimsMute
  <2>1. state' = Floored(state) /\ mixer' \in Told(state)
    BY <1>0, <1>s, <1>4, ToldCommands DEF AimsMute, At, Sent
  <2> QED
    BY <2>1, ToldFloored DEF TypeOK
<1>5. CASE Provokes
  <2>1. S.row \in Rows /\ OtherRow \in Rows
    BY <1>0, <1>s, <1>p, <1>5 DEF Provokes, Between, OtherRow
  <2> QED
    BY <1>0, <2>1, <1>5, ToldCommands DEF Provokes, Sent, heard
<1>6. CASE AimsPage2
  <2>1. S.row \in Rows /\ Start[S.row][S.ch] \in Hw
    BY AimAssumption, <1>s, <1>6 DEF AimsPage2, At
  <2> QED
    BY <1>0, <2>1, <1>6, ToldCommands, ToldReads, ToldAsked DEF AimsPage2, Sent
<1>7. CASE Misaimed \/ Unconfirmed
  BY <1>0, <1>7, ToldCommands DEF Misaimed, Unconfirmed, Restores, Sent, heard
<1>8. CASE ReadsEnable
  <2>1. S.row \in Rows
    BY <1>s, <1>p, <1>8 DEF ReadsEnable, Between
  <2> QED
    BY <1>0, <2>1, <1>8, ToldReads, ToldAsked DEF ReadsEnable, Sent
<1>9. CASE ReadsFx
  BY <1>0, <1>9, ToldReads, ToldAsked DEF ReadsFx, Sent
<1>10. CASE Sets
  BY <1>0, <1>10, ToldReads DEF Sets, Pressed, Sent, heard
<1>11. ASSUME NEW on \in BOOLEAN, Pulses(on)
       PROVE  mixer' \in Told(state) /\ UNCHANGED state
  BY <1>0, <1>11, ToldReads DEF Pulses, Pressed, Sent, heard
<1>12. CASE StepEnds
  BY <1>0, <1>12, ToldCommands DEF StepEnds, Sent, heard
<1>13. CASE Probes \/ ShowsOutputs \/ ShowsInputs
  BY <1>0, <1>13, ToldCommands DEF Probes, ShowsOutputs, ShowsInputs, Sent, heard
<1>14. CASE SweepBegins
  BY <1>0, <1>s, <1>14, ToldCommands DEF SweepBegins, At, Sent, heard
<1>15. CASE SweepAims
  <2>1. S.row \in Rows
    BY <1>s, <1>p, <1>15 DEF SweepAims, Between
  <2>2. Offset \in Hw
    BY AimAssumption DEF Offset, Hw, TypeOK
  <2> QED
    BY <1>0, <2>1, <2>2, <1>15, ToldCommands, ToldReads, ToldAsked DEF SweepAims, Sent
<1>16. CASE Finally
  BY <1>0, <1>16, ToldCommands DEF Finally, Sent, heard
<1>17. CASE Ingests
  BY <1>0, <1>17, ToldTaken DEF Ingests, TypeOK
<1>18. CASE Drops
  BY <1>18, CalmStep DEF Drops
<1>19. CASE Touches
  <2>1. ASSUME NEW x \in Told(state), NEW w \in {"row", "bank"}
        PROVE  ByHand(x, w) \in Told(state)
    <3>1. x.hand \cup {w} \in SUBSET {"row", "bank"}
      BY MixerFits DEF Told
    <3> QED
      BY <3>1, ToldMoves DEF ByHand
  <2> QED
    BY <1>0, <1>19, <2>1, ToldMoves DEF Touches, heard
<1>20. CASE UNCHANGED <<mixer, state>>
  BY <1>0, <1>20
<1> QED
  BY <1>1, <1>2, <1>3, <1>4, <1>5, <1>6, <1>7, <1>8, <1>9, <1>10, <1>11, <1>12,
     <1>13, <1>14, <1>15, <1>16, <1>17, <1>18, <1>19, <1>20
     DEF Next, Run, Page1Run, Page2Run, OtherRun, Listener, Begins, PlaysRaw,
     Aborts, Unmeasured, LabelSeen, WrongLabel, NoLabel, AlreadyFresh,
     Candidate, StillStreaming, Settled, Unsettled, NotInBank, Confirms,
     ButtonRead, ButtonUnknown, SweepReads, SweepObserves, SweepAborts,
     Registers, LooksAgain, Skips, Raises, Writes, StepsDone, Copies, Wakes,
     heard

-----------------------------------------------------------------------------
(* The strips of a bank.                                                   *)

LEMMA SomeIsLowest ==
  ASSUME NEW strips \in SUBSET Nat, strips # {}
  PROVE  Lowest(strips) # {}
<1> DEFINE R == OpToRel(<, Nat)
<1>1. IsWellFoundedOn(R, Nat)
  BY NatLessThanWellFounded
<1>2. \A i, j \in Nat : i < j => <<i, j>> \in R
  BY DEF OpToRel
<1> HIDE DEF R
<1>3. PICK s \in strips : \A t \in strips : <<t, s>> \notin R
  BY <1>1, WFMin
<1>4. ASSUME NEW t \in strips
      PROVE  s <= t
  <2>1. s \in Nat /\ t \in Nat /\ ~(t < s)
    BY <1>2, <1>3
  <2> QED
    BY <2>1
<1> QED
  BY <1>3, <1>4 DEF Lowest

\* There are no more strips than channels, as each is of one at least.
LEMMA FewStrips ==
  ASSUME NEW l \in Layouts
  PROVE  /\ Strips[l] \in Seq(SUBSET Hw)
         /\ Len(Strips[l]) \in Nat /\ DOMAIN Strips[l] = 1..Len(Strips[l])
         /\ Len(Strips[l]) <= Channels
<1> DEFINE all == Strips[l]
           n   == Len(all)
           f   == [i \in 1..n |-> CHOOSE h \in all[i] : TRUE]
<1>0. Channels \in Nat \ {0} /\ all \in Seq(SUBSET Hw)
  BY AimAssumption
<1>1. n \in Nat /\ DOMAIN all = 1..n /\ \A i \in 1..n : all[i] \in SUBSET Hw
  BY <1>0, LenProperties, ElementOfSeq
<1>2. \A i \in 1..n : f[i] \in all[i] /\ f[i] \in Hw
  <2>1. \A i \in 1..n : all[i] # {}
    BY <1>1, AimAssumption
  <2> QED
    BY <1>1, <2>1
<1>3. f \in [1..n -> Hw]
  BY <1>2
<1>4. ASSUME NEW i \in 1..n, NEW j \in 1..n, i < j
      PROVE  f[i] # f[j]
  <2>1. \A g \in all[i], h \in all[j] : g < h
    BY <1>1, <1>4, AimAssumption
  <2> HIDE DEF f
  <2>2. f[i] < f[j] /\ f[i] \in Hw /\ f[j] \in Hw
    BY <1>2, <2>1
  <2> QED
    BY <1>0, <2>2 DEF Hw
<1> HIDE DEF f
<1>5. ASSUME NEW i \in 1..n, NEW j \in 1..n, f[i] = f[j]
      PROVE  i = j
  <2>1. i < j \/ j < i \/ i = j
    BY <1>1
  <2> QED
    BY <1>4, <1>5, <2>1
<1>6. f \in Injection(1..n, Hw)
  BY <1>3, <1>5 DEF Injection, IsInjective
<1>7. /\ IsFiniteSet(Hw) /\ Cardinality(Hw) = Channels
      /\ Cardinality(1..n) = n
  <2>1. /\ IsFiniteSet(0..(Channels - 1))
        /\ Cardinality(0..(Channels - 1)) = IF 0 > Channels - 1 THEN 0 ELSE Channels - 1 - 0 + 1
    BY <1>0, FS_Interval
  <2>2. Cardinality(1..n) = IF 1 > n THEN 0 ELSE n - 1 + 1
    <3> HIDE DEF n
    <3> QED
      BY <1>1, FS_Interval
  <2> QED
    BY <1>0, <1>1, <2>1, <2>2 DEF Hw
<1>8. Cardinality(1..n) <= Cardinality(Hw)
  BY <1>6, <1>7, FS_Injection
<1> QED
  BY <1>0, <1>1, <1>7, <1>8

\* The first bank starts with the first strip, so it shows all of them.
LEMMA HomeShowsAll ==
  ASSUME NEW x \in Mixers, x.bank = 0, NEW wanted, wanted \cap Hw # {}
  PROVE  \E s \in 1..Channels : Covers(Shown(x, s), wanted)
<1> DEFINE all   == Strips[x.layout]
           first == CHOOSE i \in DOMAIN all : x.bank \in all[i]
<1>1. x.layout \in Layouts /\ Channels \in Nat \ {0} /\ 0 \in Hw
  BY MixerFits, AimAssumption DEF Hw
<1>2. /\ Len(all) \in Nat /\ DOMAIN all = 1..Len(all) /\ Len(all) <= Channels
      /\ \A i \in DOMAIN all : all[i] \in SUBSET Hw
  BY <1>1, FewStrips, ElementOfSeq
<1>3. ASSUME NEW i \in DOMAIN all, 0 \in all[i]
      PROVE  i = 1
  <2> SUFFICES ASSUME 1 < i
               PROVE  FALSE
    BY <1>2
  <2>1. 1 \in DOMAIN all
    BY <1>2
  <2>2. PICK g \in all[1] : TRUE
    BY <1>1, <2>1, AimAssumption
  <2>3. g < 0
    BY <1>1, <1>3, <2>1, <2>2, AimAssumption
  <2>4. g \in Hw
    BY <1>2, <2>1, <2>2
  <2> QED
    BY <1>1, <2>3, <2>4 DEF Hw
<1>4. \E i \in DOMAIN all : 0 \in all[i]
  BY <1>1, AimAssumption
<1>5. first \in DOMAIN all /\ 0 \in all[first]
  BY <1>4
<1>6. first = 1
  BY <1>3, <1>5
<1>7. PICK h \in Hw : h \in wanted
  OBVIOUS
<1>8. PICK s \in DOMAIN all : h \in all[s]
  BY <1>1, AimAssumption
<1>9. s \in 1..Channels /\ 1 + s - 1 = s
  BY <1>1, <1>2, <1>8
<1>10. Shown(x, s) = IF first + s - 1 \in DOMAIN all THEN all[first + s - 1] ELSE {}
  BY DEF Shown
<1> HIDE DEF first, all
<1>11. Shown(x, s) = all[s]
  BY <1>6, <1>8, <1>9, <1>10
<1> QED
  BY <1>7, <1>8, <1>9, <1>11 DEF Covers

-----------------------------------------------------------------------------
(* What is looked up in the bank.                                          *)

\* The strip that is looked for has a name.
LEMMA Named ==
  ASSUME TypeOK, pc \notin Between, S.kind \in {"send", "mute"}
  PROVE  S.ch # {} /\ S.row \in Rows
<1>1. step \in DOMAIN macro /\ macro \in Macros \cup {<<>>}
  BY DEF TypeOK
<1>2. macro \in Macros /\ S.row \in Rows
  BY <1>1, MacroFits
<1> QED
  BY <1>1, <1>2, AimAssumption DEF S

\* A match covers the name, in a bank that was seen.
LEMMA MatchCovers ==
  ASSUME state \in DeviceStates, S.ch # {}, NEW p \in Places, NEW s \in MatchIn(p)
  PROVE  /\ state.strips[p].seen /\ s \in 1..Channels
         /\ Covers(Shown(state.strips[p].view, s), S.ch)
         /\ Shown(state.strips[p].view, s) \in SUBSET Hw
<1> DEFINE bank  == state.strips[p]
           fresh == IF bank.seen /\ bank.view # None THEN 1..Channels ELSE {}
           exact == {t \in fresh : Shown(bank.view, t) = S.ch}
           cover == {t \in fresh : Covers(Shown(bank.view, t), S.ch)}
<1>1. MatchIn(p) = IF exact # {} THEN Lowest(exact) ELSE Lowest(cover)
  BY DEF MatchIn
<1>2. s \in exact \/ s \in cover
  BY <1>1 DEF Lowest
<1>3. /\ bank.seen /\ bank.view # None /\ s \in 1..Channels
      /\ Shown(bank.view, s) = S.ch \/ Covers(Shown(bank.view, s), S.ch)
  BY <1>2
<1>4. bank \in [view : Views \cup {None}, seen : BOOLEAN]
  BY DEF DeviceStates
<1>5. bank.view.layout \in Layouts
  BY <1>3, <1>4 DEF Views
<1> QED
  BY <1>3, <1>5, ShownFits DEF Covers

\* What a bank that was seen shows, is matched.
LEMMA MatchFinds ==
  ASSUME NEW p \in Places, state.strips[p].seen, state.strips[p].view # None,
         NEW s \in 1..Channels, Covers(Shown(state.strips[p].view, s), S.ch)
  PROVE  MatchIn(p) # {}
<1> DEFINE bank  == state.strips[p]
           fresh == IF bank.seen /\ bank.view # None THEN 1..Channels ELSE {}
           exact == {t \in fresh : Shown(bank.view, t) = S.ch}
           cover == {t \in fresh : Covers(Shown(bank.view, t), S.ch)}
<1>1. MatchIn(p) = IF exact # {} THEN Lowest(exact) ELSE Lowest(cover)
  BY DEF MatchIn
<1>2. s \in cover /\ exact \in SUBSET Nat /\ cover \in SUBSET Nat
  BY AimAssumption
<1> HIDE DEF exact, cover
<1> QED
  BY <1>1, <1>2, SomeIsLowest

LEMMA FoundCovers ==
  ASSUME TypeOK, pc \notin Between, S.kind \in {"send", "mute"}, NEW s \in Found
  PROVE  \E p \in Places : s \in MatchIn(p)
<1>1. S.row \in Rows /\ state.label \in Submixes \cup {None}
  BY Named DEF TypeOK, DeviceStates
<1>2. Place(state.label, S.row) \in Places
  BY <1>1, PlaceFits
<1> QED
  BY <1>2 DEF Found

\* With nothing under way, the bank of the row is the one the mixer shows.
Looked ==
  /\ mixer.out = <<>> /\ SomeSeen(state)
  /\ mixer \in Told(state)
  /\ mixer.row = S.row /\ mixer.bank = 0

LEMMA BankLooked ==
  ASSUME TypeOK, Looked
  PROVE  /\ state.label = mixer.submix /\ state.row = S.row
         /\ Place(state.label, S.row) \in Places
         /\ state.strips[Place(state.label, S.row)].seen
         /\ state.strips[Place(state.label, S.row)].view = View(mixer)
         /\ View(mixer) # None
         /\ \A s : Shown(View(mixer), s) = Shown(mixer, s)
<1>1. /\ mixer \in Mixers /\ HeardTrue(mixer, state) /\ state \in DeviceStates
      /\ mixer.out = <<>> /\ SomeSeen(state) /\ mixer.row = S.row
  BY DEF TypeOK, Looked, Told
<1>2. ~Comes(mixer.out, "values") /\ ~Comes(mixer.out, "names")
  BY <1>1 DEF Comes
<1>3. state.label # None
  BY <1>1 DEF HeardTrue, SomeSeen
<1>4. /\ state.label = mixer.submix /\ state.row = mixer.row
      /\ Bank(state).seen /\ Bank(state).view = View(mixer)
  BY <1>1, <1>2, <1>3 DEF HeardTrue
<1>5. Place(state.label, state.row) \in Places
  BY <1>1, PlaceFits DEF DeviceStates
<1>6. View(mixer).layout = mixer.layout /\ View(mixer).bank = mixer.bank
  BY DEF View
<1>7. \A s : Shown(View(mixer), s) = Shown(mixer, s)
  BY <1>6, ShownSame
<1>8. View(mixer) # None
  BY <1>1, MixerFits, AimAssumption
<1> QED
  BY <1>1, <1>4, <1>5, <1>7, <1>8 DEF Bank

LEMMA FoundLooked ==
  ASSUME TypeOK, pc \notin Between, S.kind \in {"send", "mute"}, Looked,
         S.kind = "send" => mixer.submix = S.sub
  PROVE  /\ \A s \in Found : Covers(Shown(mixer, s), S.ch)
         /\ Found = {} /\ (S.kind = "send" => S.row # 3) =>
              \A s \in 1..Channels : ~Covers(Shown(mixer, s), S.ch)
<1> DEFINE here == Place(state.label, S.row)
<1>1. /\ state.label = mixer.submix /\ here \in Places
      /\ state.strips[here].seen /\ state.strips[here].view = View(mixer)
      /\ View(mixer) # None
      /\ \A s : Shown(View(mixer), s) = Shown(mixer, s)
  BY BankLooked
<1>2. S.ch # {} /\ S.row \in Rows /\ state \in DeviceStates
      /\ mixer \in Mixers /\ mixer.bank = 0
  BY Named DEF TypeOK, Looked
<1> HIDE DEF here
<1>3. \A s \in MatchIn(here) : Covers(Shown(mixer, s), S.ch)
  BY <1>1, <1>2, MatchCovers
<1>4. MatchIn(here) = {} => \A s \in 1..Channels : ~Covers(Shown(mixer, s), S.ch)
  BY <1>1, MatchFinds
<1>5. CASE S.kind = "send"
  <2>1. Place(S.sub, S.row) = here /\ state.label = S.sub
    BY <1>1, <1>5 DEF here
  <2> QED
    BY <1>3, <1>4, <1>5, <2>1 DEF Found
<1>6. CASE S.kind = "mute"
  <2>1. MatchIn(here) # {} => Found = MatchIn(here)
    BY <1>6 DEF Found, here
  <2>2. ASSUME MatchIn(here) = {}
        PROVE  Found = {}
    <3>1. S.ch \cap Hw = {}
      BY <1>2, <1>4, <2>2, HomeShowsAll
    <3>2. ASSUME NEW p \in Places, NEW s \in MatchIn(p)
          PROVE  FALSE
      BY <1>2, <3>1, <3>2, MatchCovers DEF Covers
    <3>3. UNION {MatchIn(p) : p \in {q \in Places : q[2] = S.row}} = {}
      BY <3>2
    <3> QED
      BY <1>6, <2>2, <3>3 DEF Found, here
  <2> QED
    BY <1>3, <1>4, <2>1, <2>2
<1> QED
  BY <1>5, <1>6

-----------------------------------------------------------------------------
(* The invariant of page 1.                                                *)

\* A label is known as soon as values have come.
LabelKnown == "values" \in since => state.label # None

\* From the commands of a step of page 1 on, the mixer is where they put it, ...
StripAimed ==
  calm =>
    /\ pc = "label" => S.kind = "send"
    /\ \/ pc \in {"label", "provoke", "match", "settle"}
       \/ pc = "write" /\ S.kind \in {"send", "mute"}
       => /\ mixer.row = S.row /\ mixer.bank = 0
          /\ S.kind = "send" => mixer.submix = S.sub

\* ... its strips are about to be heard or have been heard since, ...
NamesCome ==
  calm /\ pc \in {"match", "settle"} => Comes(mixer.out, "names") \/ SomeSeen(state)

\* ... and the one that is written to is the one that was meant.
StripTrue ==
  calm /\ pc = "write" /\ S.kind \in {"send", "mute"} =>
    Covers(Shown(mixer, strip), S.ch)

\* On page 2 the bank is where the table says that the channel is.
TrackAimed ==
  calm /\ pc = "track" /\ S.kind \in Page2 =>
    /\ S.row \in Rows /\ S.ch \in DOMAIN Start[S.row]
    /\ mixer.bank = Start[S.row][S.ch]

StripInv ==
  /\ calm => mixer \in Told(state)
  /\ LabelKnown
  /\ StripAimed
  /\ NamesCome
  /\ StripTrue
  /\ TrackAimed
  /\ RefusesOnlyAbsent

\* The submix is no page's matter.
LEMMA SubmixStays ==
  ASSUME NEW x \in Mixers
  PROVE  /\ \A r \in Rows : ToRow(x, r).submix = x.submix
         /\ \A b \in Hw : ToBank(x, b).submix = x.submix
         /\ \A s \in Submixes : ToSubmix(x, s).submix = s
<1>1. ASSUME NEW y \in Mixers
      PROVE  Changed(x, y) \in Mixers /\ Changed(x, y).submix = y.submix
  BY ChangedFits DEF Changed, Mixers
<1>2. ASSUME NEW y \in Mixers, NEW h
      PROVE  [y EXCEPT !.hand = h].submix = y.submix
  BY DEF Mixers
<1>3. ASSUME NEW r \in Rows
      PROVE  ToRow(x, r).submix = x.submix
  <2>1. [x EXCEPT !.row = r] \in Mixers /\ [x EXCEPT !.row = r].submix = x.submix
    BY DEF Mixers
  <2>2. MovesRow(x, r) \in Mixers /\ MovesRow(x, r).submix = x.submix
    BY <1>1, <2>1 DEF MovesRow
  <2> QED
    BY <1>2, <2>2 DEF ToRow
<1>4. ASSUME NEW b \in Hw
      PROVE  ToBank(x, b).submix = x.submix
  <2>1. [x EXCEPT !.bank = b] \in Mixers /\ [x EXCEPT !.bank = b].submix = x.submix
    BY DEF Mixers
  <2>2. MovesBank(x, b) \in Mixers /\ MovesBank(x, b).submix = x.submix
    BY <1>1, <2>1 DEF MovesBank
  <2> QED
    BY <1>2, <2>2 DEF ToBank
<1>5. ASSUME NEW s \in Submixes
      PROVE  ToSubmix(x, s).submix = s
  <2>1. [x EXCEPT !.submix = s] \in Mixers /\ [x EXCEPT !.submix = s].submix = s
    BY DEF Mixers
  <2> QED
    BY <1>1, <2>1 DEF ToSubmix, MovesSubmix
<1> QED
  BY <1>3, <1>4, <1>5

LEMMA LabelKept ==
  ASSUME TypeOK, LabelKnown, Next
  PROVE  LabelKnown'
<1>1. CASE Ingests
  <2> DEFINE h == Head(mixer.out)
  <2>1. /\ h \in Messages /\ state \in DeviceStates
        /\ state' = Ingested(state, h) /\ since' = since \cup {"any", h.kind}
    BY <1>1, MixerFits, HeadTailProperties DEF Ingests, TypeOK
  <2> HIDE DEF h
  <2>2. CASE h.kind = "values"
    <3>1. h.sub \in Submixes /\ None \notin Submixes
      BY <2>1, <2>2, AimAssumption DEF Messages
    <3>2. state'.label = h.sub
      BY <2>1, <2>2 DEF Ingested, Stamped, DeviceStates
    <3> QED
      BY <3>1, <3>2 DEF LabelKnown
  <2>3. CASE h.kind # "values"
    <3>1. state'.label = state.label
      BY <2>1, <2>3 DEF Ingested, Messages, DeviceStates
    <3> QED
      BY <2>1, <2>3, <3>1 DEF LabelKnown
  <2> QED
    BY <2>2, <2>3
<1>2. CASE AimsSend \/ AimsMute
  <2>1. state' = Floored(state) /\ since' \subseteq since
    BY <1>2 DEF AimsSend, AimsMute, Notes
  <2>2. state'.label = state.label
    BY <2>1 DEF Floored, TypeOK, DeviceStates
  <2> QED
    BY <2>1, <2>2 DEF LabelKnown
<1>3. CASE UNCHANGED state /\ (UNCHANGED since \/ \E k : Notes(k))
  BY <1>3 DEF Notes, LabelKnown
<1> QED
  BY <1>1, <1>2, <1>3
     DEF Next, Run, Page1Run, Page2Run, OtherRun, Listener, heard, Begins,
     PlaysRaw, Aborts, Unmeasured, LabelSeen, WrongLabel, NoLabel, AlreadyFresh,
     Candidate, StillStreaming, Settled, Unsettled, NotInBank, Confirms,
     ButtonRead, ButtonUnknown, SweepReads, SweepObserves, SweepAborts,
     Registers, LooksAgain, Skips, Raises, Writes, StepsDone, Copies, Wakes,
     Switches, Selects, Provokes, AimsPage2, Misaimed, Unconfirmed, ReadsEnable,
     ReadsFx, Sets, Pulses, StepEnds, Probes, ShowsOutputs, ShowsInputs,
     SweepBegins, SweepAims, Finally, Drops, Touches

\* The mixer after the commands of a step of page 1.
LEMMA Page1Commands ==
  ASSUME NEW x \in Mixers, NEW r \in Rows
  PROVE  LET b == ToBank(x, 0)
             y == ToRow(b, r)
         IN  /\ b \in Mixers /\ y \in Mixers /\ y.row = r /\ y.bank = 0
             /\ \A s \in Submixes : LET z == ToSubmix(y, s)
                                    IN  z.row = r /\ z.bank = 0 /\ z.submix = s
<1> DEFINE b == ToBank(x, 0)
           y == ToRow(b, r)
<1>1. b \in Mixers /\ b.bank = 0
  <2>1. 0 \in Hw
    BY AimAssumption DEF Hw
  <2> QED
    BY <2>1, CommandsFit, Commands
<1> HIDE DEF b
<1>2. y \in Mixers /\ y.row = r /\ y.bank = 0
  BY <1>1, CommandsFit, Commands
<1> HIDE DEF y
<1>3. \A s \in Submixes : LET z == ToSubmix(y, s)
                         IN  z.row = r /\ z.bank = 0 /\ z.submix = s
  BY <1>2, Commands, SubmixStays
<1> QED
  BY <1>1, <1>2, <1>3 DEF y, b

LEMMA StripAimedKept ==
  ASSUME TypeOK, Staged, StripAimed, Next
  PROVE  StripAimed'
<1> SUFFICES ASSUME calm'
             PROVE  (/\ pc = "label" => S.kind = "send"
                     /\ \/ pc \in {"label", "provoke", "match", "settle"}
                        \/ pc = "write" /\ S.kind \in {"send", "mute"}
                        => /\ mixer.row = S.row /\ mixer.bank = 0
                           /\ S.kind = "send" => mixer.submix = S.sub)'
  BY DEF StripAimed
<1>0. calm /\ mixer \in Mixers /\ (step \in DOMAIN macro => S.row \in Rows)
  BY CalmBefore, MacroFits DEF TypeOK
<1>p. pc \notin Between => step \in DOMAIN macro
  BY DEF TypeOK
<1>1. CASE AimsSend
  <2>1. /\ mixer' = ToSubmix(ToRow(ToBank(mixer, 0), S.row), S.sub)
        /\ S.kind = "send" /\ S.sub \in Submixes /\ S.row \in Rows
        /\ S' = S
    BY <1>0, <1>1, CalmStep DEF AimsSend, At, Sent, If, plan, S
  <2> QED
    BY <1>0, <2>1, Page1Commands
<1>2. CASE AimsMute
  <2>1. /\ mixer' = ToRow(ToBank(mixer, 0), S.row)
        /\ S.kind = "mute" /\ S.row \in Rows /\ S' = S /\ pc' = "provoke"
    BY <1>0, <1>2, CalmStep DEF AimsMute, At, Sent, If, plan, S
  <2> QED
    BY <1>0, <2>1, Page1Commands
<1>3. CASE Provokes
  <2> DEFINE other == ToRow(mixer, OtherRow)
  <2>1. /\ mixer' = ToRow(other, S.row) /\ pc = "provoke" /\ S' = S
        /\ pc' = "match"
    BY <1>3, CalmStep DEF Provokes, Sent, If, plan, S, Waits
  <2>2. S.row \in Rows /\ OtherRow \in Rows
    BY <1>0, <1>p, <2>1 DEF Between, OtherRow, Rows
  <2>3. other \in Mixers /\ other.bank = mixer.bank /\ other.submix = mixer.submix
    BY <1>0, <2>2, CommandsFit, Commands, SubmixStays
  <2> HIDE DEF other
  <2>4. mixer'.row = S.row /\ mixer'.bank = mixer.bank /\ mixer'.submix = mixer.submix
    BY <2>1, <2>2, <2>3, Commands, SubmixStays
  <2> QED
    BY <1>0, <2>1, <2>4 DEF StripAimed
<1>4. CASE Ingests
  <2>1. /\ mixer'.row = mixer.row /\ mixer'.bank = mixer.bank
        /\ mixer'.submix = mixer.submix /\ pc' = pc /\ S' = S
    BY <1>0, <1>4 DEF Ingests, Mixers, plan, S
  <2> QED
    BY <1>0, <2>1 DEF StripAimed
<1>5. CASE Drops
  BY <1>5, CalmStep DEF Drops
<1>6. CASE Touches
  BY <1>6, CalmStep DEF Touches, If
<1>7. CASE UNCHANGED <<mixer, pc, plan>>
  BY <1>0, <1>7 DEF StripAimed, plan, S
<1>8. CASE /\ UNCHANGED <<mixer, plan>>
           /\ pc \in {"label", "provoke", "match", "settle"}
           /\ pc' \in {"provoke", "match", "settle", "write"}
  BY <1>0, <1>8 DEF StripAimed, plan, S
<1>9. CASE /\ UNCHANGED plan /\ S.kind \notin {"send", "mute"}
           /\ pc' \notin {"label", "provoke", "match", "settle"}
  BY <1>9 DEF plan, S
<1>10. CASE pc' \notin {"label", "provoke", "match", "settle", "write"}
  BY <1>10
<1>11. CASE \E s \in 1..Channels : NoLabel(s)
  BY <1>11, CalmStep DEF NoLabel
<1>12. CASE Confirms
  BY <1>9, <1>12 DEF Confirms, Page2
<1> QED
  BY <1>1, <1>2, <1>3, <1>4, <1>5, <1>6, <1>7, <1>8, <1>10, <1>11, <1>12
     DEF Next, Run, Page1Run, Page2Run, OtherRun, Listener, Begins, Switches,
     PlaysRaw, Selects, Aborts, Unmeasured, LabelSeen,
     WrongLabel, AlreadyFresh, Candidate, StillStreaming,
     Settled, Unsettled, NotInBank, AimsPage2, Misaimed, Unconfirmed, Skips,
     Raises, ReadsEnable, ReadsFx, ButtonRead, ButtonUnknown, Sets, Pulses,
     Writes, StepEnds, Probes, ShowsOutputs, ShowsInputs, SweepBegins,
     SweepAims, SweepReads, SweepObserves, SweepAborts, StepsDone, Finally,
     Registers, LooksAgain, Copies, Wakes, NextStep, Waits, Satisfied, TimesOut

LEMMA TrackAimedKept ==
  ASSUME TypeOK, Staged, TrackAimed, Next
  PROVE  TrackAimed'
<1> SUFFICES ASSUME calm', (pc = "track" /\ S.kind \in Page2)'
             PROVE  (/\ S.row \in Rows /\ S.ch \in DOMAIN Start[S.row]
                     /\ mixer.bank = Start[S.row][S.ch])'
  BY DEF TrackAimed
<1>0. calm /\ mixer \in Mixers /\ (step \in DOMAIN macro => S.row \in Rows)
  BY CalmBefore, MacroFits DEF TypeOK
<1>1. CASE AimsPage2
  <2> DEFINE row  == ToRow(Asked(mixer), S.row)
             bank == ToBank(row, Start[S.row][S.ch])
  <2>1. /\ mixer' = Mirror(bank, S.row) /\ S.row \in Rows /\ S' = S
        /\ S.ch \in DOMAIN Start[S.row]
    BY <1>0, <1>1, CalmStep DEF AimsPage2, At, Sent, If, plan, S
  <2>2. Start[S.row][S.ch] \in Hw
    BY <2>1, AimAssumption
  <2>3. row \in Mixers
    BY <1>0, <2>1, AskedFits, CommandsFit
  <2> HIDE DEF row
  <2>4. bank \in Mixers /\ bank.bank = Start[S.row][S.ch]
    BY <2>2, <2>3, CommandsFit, Commands
  <2> HIDE DEF bank
  <2>5. mixer'.bank = Start[S.row][S.ch]
    BY <2>1, <2>4, Reads
  <2> QED
    BY <2>1, <2>5
<1>2. CASE SweepAims
  <2>1. S.kind = "sweep" /\ S' = S
    BY <1>2 DEF SweepAims, Staged, plan, S
  <2> QED
    BY <2>1 DEF Page2
<1>3. CASE Ingests
  <2>1. mixer'.bank = mixer.bank /\ pc' = pc /\ S' = S
    BY <1>0, <1>3 DEF Ingests, Mixers, plan, S
  <2> QED
    BY <1>0, <2>1 DEF TrackAimed
<1>4. CASE Drops
  BY <1>4, CalmStep DEF Drops
<1>5. CASE Touches
  BY <1>5, CalmStep DEF Touches, If
<1>6. CASE UNCHANGED <<mixer, pc, plan>>
  BY <1>0, <1>6 DEF TrackAimed, plan, S
<1>7. CASE pc' # "track"
  BY <1>7
<1> QED
  BY <1>1, <1>2, <1>3, <1>4, <1>5, <1>6, <1>7
     DEF Next, Run, Page1Run, Page2Run, OtherRun, Listener, Begins, Switches,
     PlaysRaw, Selects, Aborts, Unmeasured, AimsSend, AimsMute, LabelSeen,
     WrongLabel, NoLabel, Provokes, AlreadyFresh, Candidate, StillStreaming,
     Settled, Unsettled, NotInBank, Confirms, Misaimed, Unconfirmed,
     Skips, Raises, ReadsEnable, ReadsFx, ButtonRead, ButtonUnknown, Sets,
     Pulses, Writes, StepEnds, Probes, ShowsOutputs, ShowsInputs, SweepBegins,
     SweepReads, SweepObserves, SweepAborts, StepsDone, Finally,
     Registers, LooksAgain, Copies, Wakes, NextStep, Waits, Satisfied, TimesOut

LEMMA RowShown ==
  ASSUME NEW x \in Mixers, NEW r \in Rows, r # x.row
  PROVE  Comes(ToRow(x, r).out, "names")
<1> DEFINE y == [x EXCEPT !.row = r]
           z == Changed(x, y)
<1>1. y \in Mixers /\ y.row # x.row /\ y.out = x.out /\ x.out \in Seq(Messages)
  BY MixerFits DEF Mixers
<1>2. z.out = x.out \o Dump(y)
  BY <1>1 DEF Changed, Mixers
<1>3. Dump(y) \in Seq(Messages) /\ Len(Dump(y)) = 2 /\ Dump(y)[2].kind = "names"
  BY <1>1, DumpFits DEF Dump
<1>4. ToRow(x, r).out = z.out
  <2>1. z \in Mixers
    BY <1>1, ChangedFits
  <2> HIDE DEF z, y
  <2>2. [z EXCEPT !.hand = @ \ {"row"}].out = z.out
    BY <2>1 DEF Mixers
  <2> QED
    BY <2>2 DEF ToRow, MovesRow, z, y
<1> HIDE DEF y, z
<1> DEFINE n == Len(x.out)
<1>5. /\ n \in Nat /\ DOMAIN (x.out \o Dump(y)) = 1..(n + 2)
      /\ (x.out \o Dump(y))[n + 2] = Dump(y)[2]
  BY <1>1, <1>3, TwoMore
<1> HIDE DEF n
<1>6. n + 2 \in 1..(n + 2)
  BY <1>5
<1> QED
  BY <1>2, <1>3, <1>4, <1>5, <1>6 DEF Comes

LEMMA NamesComeKept ==
  ASSUME TypeOK, Staged, StripAimed, NamesCome, Next
  PROVE  NamesCome'
<1> SUFFICES ASSUME calm', pc' \in {"match", "settle"}
             PROVE  Comes(mixer'.out, "names") \/ SomeSeen(state')
  BY DEF NamesCome
<1>0. calm /\ mixer \in Mixers /\ state \in DeviceStates
      /\ (step \in DOMAIN macro => S.row \in Rows)
  BY CalmBefore, MacroFits DEF TypeOK
<1>p. pc \notin Between => step \in DOMAIN macro
  BY DEF TypeOK
<1>1. CASE Provokes
  <2> DEFINE other == ToRow(mixer, OtherRow)
  <2>1. /\ mixer' = ToRow(other, S.row) /\ pc = "provoke"
    BY <1>1, CalmStep DEF Provokes, Sent, If
  <2>2. S.row \in Rows /\ OtherRow \in Rows /\ OtherRow # S.row
    BY <1>0, <1>p, <2>1 DEF Between, OtherRow, Rows
  <2>3. other \in Mixers /\ other.row = OtherRow
    BY <1>0, <2>2, CommandsFit, Commands
  <2> HIDE DEF other
  <2> QED
    BY <2>1, <2>2, <2>3, RowShown
<1>2. CASE AlreadyFresh
  <2>1. pc = "provoke" /\ Found # {} /\ state' = state
    BY <1>2 DEF AlreadyFresh, heard
  <2>2. S.kind \in {"send", "mute"} /\ pc \notin Between
    BY <2>1 DEF Staged, Between
  <2>3. PICK p \in Places : MatchIn(p) # {}
    BY <2>1, <2>2, FoundCovers
  <2>4. state.strips[p].seen
    BY <1>0, <2>2, <2>3, Named, MatchCovers
  <2> QED
    BY <2>1, <2>4 DEF SomeSeen
<1>3. CASE Ingests
  <2> DEFINE h == Head(mixer.out)
  <2>1. /\ h \in Messages /\ state' = Ingested(state, h) /\ pc' = pc
        /\ mixer.out \in Seq(Messages) /\ mixer'.out = Tail(mixer.out)
        /\ mixer.out # <<>>
    BY <1>0, <1>3, MixerFits, HeadTailProperties DEF Ingests, Mixers
  <2>2. Comes(mixer.out, "names") /\ h.kind # "names" => Comes(mixer'.out, "names")
    <3> SUFFICES ASSUME NEW i \in DOMAIN mixer.out, mixer.out[i].kind = "names",
                        h.kind # "names"
                 PROVE  Comes(mixer'.out, "names")
      BY DEF Comes
    <3>1. /\ Len(mixer.out) \in Nat /\ DOMAIN mixer.out = 1..Len(mixer.out)
          /\ DOMAIN Tail(mixer.out) = 1..(Len(mixer.out) - 1)
          /\ \A j \in 1..(Len(mixer.out) - 1) : Tail(mixer.out)[j] = mixer.out[j + 1]
          /\ h = mixer.out[1]
      BY <2>1, LenProperties, HeadTailProperties, EmptySeq
    <3>2. i # 1
      BY <3>1
    <3>3. i - 1 \in 1..(Len(mixer.out) - 1) /\ (i - 1) + 1 = i
      BY <3>1, <3>2
    <3> QED
      BY <2>1, <3>1, <3>3 DEF Comes
  <2> HIDE DEF h
  <2>3. /\ state.strips \in [Places -> [view : Views \cup {None}, seen : BOOLEAN]]
        /\ Place(state.label, state.row) \in Places
    BY <1>0, PlaceFits DEF DeviceStates
  <2>4. h.kind = "names" => SomeSeen(state')
    <3> SUFFICES ASSUME h.kind = "names"
                 PROVE  SomeSeen(state')
      OBVIOUS
    <3>1. state'.strips[Place(state.label, state.row)] = [view |-> h.view, seen |-> TRUE]
      BY <1>0, <2>1, <2>3 DEF Ingested, DeviceStates
    <3> QED
      BY <2>3, <3>1 DEF SomeSeen
  <2>5. SomeSeen(state) => SomeSeen(state')
    <3>1. CASE h.kind = "values"
      <4>1. h.sub \in Submixes /\ h.row \in Rows
        BY <2>1, <3>1 DEF Messages
      <4>2. Place(h.sub, h.row) \in Places
        BY <4>1, PlaceFits
      <4>3. state'.strips = [state.strips EXCEPT ![Place(h.sub, h.row)].seen = TRUE]
        BY <1>0, <2>1, <3>1 DEF Ingested, Stamped, DeviceStates
      <4>4. state'.strips[Place(h.sub, h.row)].seen
        BY <2>3, <4>2, <4>3
      <4> QED
        BY <4>2, <4>4 DEF SomeSeen
    <3>2. CASE h.kind \notin Page1
      <4>1. state'.strips = state.strips
        BY <1>0, <2>1, <3>2 DEF Page1, Ingested, Messages, DeviceStates
      <4> QED
        BY <4>1 DEF SomeSeen
    <3> QED
      BY <2>4, <3>1, <3>2 DEF Page1
  <2> QED
    BY <1>0, <2>1, <2>2, <2>4, <2>5 DEF NamesCome
<1>4. CASE Drops
  BY <1>4, CalmStep DEF Drops
<1>5. CASE Touches
  BY <1>5, CalmStep DEF Touches, If
<1>6. CASE UNCHANGED <<mixer, state>> /\ pc \in {"match", "settle"}
  BY <1>0, <1>6 DEF NamesCome
<1>7. CASE UNCHANGED <<mixer, state, pc>>
  BY <1>0, <1>7 DEF NamesCome
<1>8. CASE pc' \notin {"match", "settle"}
  BY <1>8
<1> QED
  BY <1>1, <1>2, <1>3, <1>4, <1>5, <1>6, <1>7, <1>8
     DEF Next, Run, Page1Run, Page2Run, OtherRun, Listener, Begins, Switches,
     PlaysRaw, Selects, Aborts, Unmeasured, AimsSend, AimsMute, LabelSeen,
     WrongLabel, NoLabel, Candidate, StillStreaming,
     Settled, Unsettled, NotInBank, AimsPage2, Confirms, Misaimed, Unconfirmed,
     Skips, Raises, ReadsEnable, ReadsFx, ButtonRead, ButtonUnknown, Sets,
     Pulses, Writes, StepEnds, Probes, ShowsOutputs, ShowsInputs, SweepBegins,
     SweepAims, SweepReads, SweepObserves, SweepAborts, StepsDone, Finally,
     Registers, LooksAgain, Copies, Wakes, NextStep, Waits, Satisfied, TimesOut, heard

\* Out of time and in the calm, all there is to hear has been heard.
LEMMA LookedAtEnd ==
  ASSUME StripInv, calm, Quiet, pc \in {"match", "settle"}
  PROVE  /\ Looked
         /\ S.kind = "send" => mixer.submix = S.sub
<1>1. mixer.out = <<>> /\ ~Comes(mixer.out, "names")
  BY DEF Quiet, Comes
<1> QED
  BY <1>1 DEF StripInv, StripAimed, NamesCome, Looked

LEMMA StripTrueKept ==
  ASSUME TypeOK, Staged, StripInv, Next
  PROVE  StripTrue'
<1> SUFFICES ASSUME calm', (pc = "write" /\ S.kind \in {"send", "mute"})'
             PROVE  Covers(Shown(mixer, strip), S.ch)'
  BY DEF StripTrue
<1>0. calm /\ mixer \in Mixers /\ StripTrue
  BY CalmBefore DEF TypeOK, StripInv
<1>1. CASE Settled
  <2>1. /\ pc = "settle" /\ Quiet /\ mixer' = mixer /\ S' = S
        /\ strip' \in Found
    BY <1>1, CalmStep DEF Settled, TimesOut, If, plan, S
  <2>2. S.kind \in {"send", "mute"} /\ pc \notin Between
    BY <2>1 DEF Staged, Between
  <2>3. Looked /\ (S.kind = "send" => mixer.submix = S.sub)
    BY <1>0, <2>1, LookedAtEnd
  <2> QED
    BY <2>1, <2>2, <2>3, FoundLooked
<1>2. CASE \E s \in 1..Channels : NoLabel(s)
  BY <1>2, CalmStep DEF NoLabel
<1>3. CASE Confirms
  BY <1>3 DEF Confirms, Page2, plan, S
<1>4. CASE Ingests
  <2>1. /\ mixer'.layout = mixer.layout /\ mixer'.bank = mixer.bank
        /\ pc' = pc /\ S' = S /\ strip' = strip
    BY <1>0, <1>4 DEF Ingests, Mixers, plan, work, S
  <2>2. \A s : Shown(mixer', s) = Shown(mixer, s)
    BY <2>1, ShownSame
  <2> QED
    BY <1>0, <2>1, <2>2 DEF StripTrue
<1>5. CASE Drops
  BY <1>5, CalmStep DEF Drops
<1>6. CASE Touches
  BY <1>6, CalmStep DEF Touches, If
<1>7. CASE UNCHANGED <<mixer, pc, plan, strip>>
  BY <1>0, <1>7 DEF StripTrue, plan, S
<1>8. CASE pc' # "write"
  BY <1>8
<1> QED
  BY <1>1, <1>2, <1>3, <1>4, <1>5, <1>6, <1>7, <1>8
     DEF Next, Run, Page1Run, Page2Run, OtherRun, Listener, Begins, Switches,
     PlaysRaw, Selects, Aborts, Unmeasured, AimsSend, AimsMute, LabelSeen,
     WrongLabel, Provokes, AlreadyFresh, Candidate, StillStreaming,
     Unsettled, NotInBank, AimsPage2, Misaimed, Unconfirmed,
     Skips, Raises, ReadsEnable, ReadsFx, ButtonRead, ButtonUnknown, Sets,
     Pulses, Writes, StepEnds, Probes, ShowsOutputs, ShowsInputs, SweepBegins,
     SweepAims, SweepReads, SweepObserves, SweepAborts, StepsDone, Finally,
     Registers, LooksAgain, Copies, Wakes, NextStep, Waits, Satisfied, TimesOut, work

LEMMA RefusesKept ==
  ASSUME TypeOK, AimInv, WaitMissesNothing, StripInv, Next
  PROVE  RefusesOnlyAbsent'
<1> DEFINE Absent ==
      \/ /\ S.kind = "send"
         /\ S.sub \notin Submixes \/ S.row = 3
      \/ /\ S.kind \in {"send", "mute"}
         /\ \A s \in 1..Channels : ~Covers(Shown(mixer, s), S.ch)
      \/ /\ S.kind \in Page2
         /\ S.row = 2 \/ S.ch \notin DOMAIN Start[S.row]
<1> SUFFICES ASSUME calm', pc' = "refused"
             PROVE  Absent'
  BY DEF RefusesOnlyAbsent
<1>0. calm /\ mixer \in Mixers /\ Staged /\ (pc = "refused" => Absent)
      /\ HeardTrue(mixer, state)
  BY CalmBefore DEF TypeOK, StripInv, AimInv, RefusesOnlyAbsent, Told
<1>1. CASE Unmeasured
  BY <1>1 DEF Unmeasured, At, plan, S
<1>2. CASE WrongLabel
  <2>1. /\ pc = "label" /\ Quiet /\ "values" \in since /\ state.label # S.sub
    BY <1>2, CalmStep DEF WrongLabel, TimesOut, If
  <2>2. mixer.submix = S.sub
    BY <1>0, <2>1 DEF StripInv, StripAimed
  <2>3. state.label # None /\ ~Comes(mixer.out, "values")
    BY <2>1 DEF StripInv, LabelKnown, Quiet, Comes
  <2> QED
    BY <1>0, <2>1, <2>2, <2>3 DEF HeardTrue
<1>3. CASE NotInBank
  <2>1. /\ pc = "match" /\ wait = "asleep" /\ Quiet /\ mixer' = mixer /\ S' = S
    BY <1>3, CalmStep DEF NotInBank, TimesOut, If, plan, S
  <2>2. S.kind \in {"send", "mute"} /\ pc \notin Between
    BY <1>0, <2>1 DEF Staged, Between
  <2>3. Looked /\ (S.kind = "send" => mixer.submix = S.sub)
    BY <1>0, <2>1, LookedAtEnd
  <2>4. Found = {}
    BY <2>1 DEF WaitMissesNothing, Quiet, Holds
  <2> QED
    BY <2>1, <2>2, <2>3, <2>4, FoundLooked
<1>4. CASE Misaimed
  <2>1. /\ Satisfied("track") /\ S.kind \in Page2
        /\ ~Covers(state.track.ch, S.ch) /\ ~state.track.old
    BY <1>4, CalmStep DEF Misaimed, Restores, If
  <2>2. pc = "track" /\ "track" \in since
    BY <2>1, HeardAnswer DEF Answers, AimInv
  <2>3. state.track.ch = Shown(mixer, 1)
    BY <1>0, <2>1, <2>2 DEF AimInv, Aimed, calm
  <2>4. /\ S.row \in Rows /\ S.ch \in DOMAIN Start[S.row]
        /\ mixer.bank = Start[S.row][S.ch]
    BY <1>0, <2>1, <2>2 DEF StripInv, TrackAimed
  <2>5. mixer.bank \in S.ch /\ mixer.bank \in Shown(mixer, 1)
    BY <1>0, <2>4, AimAssumption, BankShown
  <2> QED
    BY <2>1, <2>3, <2>5 DEF Covers
<1>5. CASE Unconfirmed
  <2>1. pc = "track" /\ wait = "asleep" /\ Quiet
    BY <1>5, CalmStep DEF Unconfirmed, Restores, TimesOut, If
  <2> QED
    BY <1>0, <2>1, AnswerComes DEF AimInv, Answers
<1>6. CASE Ingests
  <2>1. /\ mixer'.layout = mixer.layout /\ mixer'.bank = mixer.bank
        /\ pc' = pc /\ S' = S
    BY <1>0, <1>6 DEF Ingests, Mixers, plan, S
  <2>2. \A s : Shown(mixer', s) = Shown(mixer, s)
    BY <2>1, ShownSame
  <2> QED
    BY <1>0, <2>1, <2>2
<1>7. CASE Drops
  BY <1>7, CalmStep DEF Drops
<1>8. CASE Touches
  BY <1>8, CalmStep DEF Touches, If
<1>9. CASE UNCHANGED <<mixer, pc, plan>>
  BY <1>0, <1>9 DEF plan, S
<1>10. CASE pc' # "refused"
  BY <1>10
<1> QED
  BY <1>1, <1>2, <1>3, <1>4, <1>5, <1>6, <1>7, <1>8, <1>9, <1>10
     DEF Next, Run, Page1Run, Page2Run, OtherRun, Listener, Begins, Switches,
     PlaysRaw, Selects, Aborts, AimsSend, AimsMute, LabelSeen,
     NoLabel, Provokes, AlreadyFresh, Candidate, StillStreaming,
     Settled, Unsettled, AimsPage2, Confirms,
     Skips, Raises, ReadsEnable, ReadsFx, ButtonRead, ButtonUnknown, Sets,
     Pulses, Writes, StepEnds, Probes, ShowsOutputs, ShowsInputs, SweepBegins,
     SweepAims, SweepReads, SweepObserves, SweepAborts, StepsDone, Finally,
     Registers, LooksAgain, Copies, Wakes, NextStep, Waits, Satisfied, TimesOut

LEMMA StripAtFirst ==
  ASSUME Init
  PROVE  StripInv
<1>1. mixer \in Mixers
  BY TypesAtFirst DEF TypeInv, TypeOK
<1>2. /\ mixer.out = <<>> /\ pc = "idle" /\ since = {} /\ state.label = None
      /\ \A p \in Places : state.strips[p] = [view |-> None, seen |-> FALSE]
  BY DEF Init
<1>3. DOMAIN mixer.out = {}
  BY <1>2
<1>4. HeardTrue(mixer, state)
  <2>1. ~SomeSeen(state)
    BY <1>2 DEF SomeSeen
  <2>2. 1 \notin DOMAIN mixer.out
    BY <1>3
  <2> QED
    BY <1>2, <2>1, <2>2 DEF HeardTrue
<1>5. mixer \in Told(state)
  BY <1>1, <1>3, <1>4 DEF Told, Paired, LastTrue
<1> QED
  BY <1>2, <1>5 DEF StripInv, LabelKnown, StripAimed, NamesCome, StripTrue,
     TrackAimed, RefusesOnlyAbsent

LEMMA StripStutters ==
  ASSUME StripInv, UNCHANGED vars
  PROVE  StripInv'
<1>1. UNCHANGED <<mixer, state, since, pc, macro, step, strip, mishaps>>
  BY DEF vars, heard, plan, work
<1>2. /\ (calm => mixer \in Told(state))'
      /\ LabelKnown' /\ StripAimed' /\ NamesCome' /\ StripTrue' /\ TrackAimed'
  BY <1>1 DEF StripInv, LabelKnown, StripAimed, NamesCome, StripTrue, TrackAimed,
     S, calm
<1>3. RefusesOnlyAbsent'
  BY <1>1 DEF StripInv, RefusesOnlyAbsent, S, calm
<1> QED
  BY <1>2, <1>3 DEF StripInv

LEMMA StripInvariant == Spec => []StripInv
<1>1. Init => StripInv
  BY StripAtFirst
<1>2. ASSUME TypeOK, AimInv, WaitMissesNothing, StripInv, [Next]_vars
      PROVE  StripInv'
  <2>1. CASE Next
    <3>1. calm' => mixer' \in Told(state')
      BY <1>2, <2>1, CalmBefore, ToldKept DEF StripInv
    <3>2. LabelKnown' /\ StripAimed' /\ NamesCome' /\ TrackAimed'
      BY <1>2, <2>1, LabelKept, StripAimedKept, NamesComeKept, TrackAimedKept
         DEF StripInv, AimInv
    <3>3. StripTrue' /\ RefusesOnlyAbsent'
      BY <1>2, <2>1, StripTrueKept, RefusesKept DEF AimInv
    <3> QED
      BY <3>1, <3>2, <3>3 DEF StripInv
  <2>2. CASE UNCHANGED vars
    BY <1>2, <2>2, StripStutters
  <2> QED
    BY <1>2, <2>1, <2>2
<1> QED
  BY <1>1, <1>2, Typing, Invariant, NothingMissed, PTL DEF Spec

\* Without a mishap every write is on the strip, the row and the submix its step
\* names, wherever a person has left the mixer and however late its dumps come: a
\* strip is looked up in what was heard since the commands (find_strip, wait_for).
THEOREM WritesLand == Spec => []WritesLandOnTarget
<1>1. ASSUME TypeOK, AimInv, StripInv
      PROVE  WritesLandOnTarget
  <2> SUFFICES ASSUME calm, Acting
               PROVE  OnTarget
    BY DEF WritesLandOnTarget
  <2>1. CASE S.kind \in Page2
    <3>1. pc \in {"write", "set", "pulse"} /\ S.kind # "send"
      BY <2>1 DEF Acting, Page2
    <3> QED
      BY <1>1, <2>1, <3>1 DEF AimInv, Aimed, calm, OnTarget
  <2>2. CASE S.kind \notin Page2
    <3>1. pc = "write" /\ S.kind \in {"send", "mute"}
      BY <1>1, <2>2 DEF Acting, AimInv, Staged, Page2
    <3> QED
      BY <1>1, <2>2, <3>1 DEF StripInv, StripAimed, StripTrue, OnTarget
  <2> QED
    BY <2>1, <2>2
<1> QED
  BY <1>1, Typing, Invariant, StripInvariant, PTL

\* Without a mishap nothing is refused that is there (_resolve_target's "channel
\* is NOT in the live bank", the confirmed label, _confirm_page2_aim).
THEOREM RefusesAbsent == Spec => []RefusesOnlyAbsent
<1>1. StripInv => RefusesOnlyAbsent
  BY DEF StripInv
<1> QED
  BY <1>1, StripInvariant, PTL
=============================================================================
