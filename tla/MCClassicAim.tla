---------------------------- MODULE MCClassicAim ----------------------------
(***************************************************************************)
(* An instance of ClassicAim for TLC: three channels a row, the first two  *)
(* linked or not.                                                          *)
(***************************************************************************)
EXTENDS ClassicAim, TLC

MCStrips == "mono" :> <<{0}, {1}, {2}>> @@ "linked" :> <<{0, 1}, {2}>>

\* Every name each channel goes by has been seen.
MCStart ==
  LET start == {0} :> 0 @@ {1} :> 1 @@ {0, 1} :> 0 @@ {2} :> 2
  IN  1 :> start @@ 2 :> <<>> @@ 3 :> start

Step(k, r, c, s, o) == [kind |-> k, row |-> r, ch |-> c, sub |-> s, on |-> o]

Send(r, c, s)   == Step("send", r, c, s, FALSE)
Mute(r, c)      == Step("mute", r, c, "A", FALSE)
Detail(r, c)    == Step("detail", r, c, "A", FALSE)
Enable(r, c, o) == Step("enable", r, c, "A", o)
Pulse(r, c)     == Step("pulse", r, c, "A", FALSE)
Fx(o)           == Step("fx", 1, {}, "A", o)
Other(k)        == Step(k, 1, {}, "A", FALSE)

MCMacros ==
  {<<Other("switch"), Send(1, {2}, "B"), Other("raw")>>,
   <<Send(2, {1}, "A"), Detail(3, {2})>>,
   <<Mute(3, {0, 1}), Send(3, {0}, "A")>>,
   <<Mute(1, {9}), Other("raw")>>,
   <<Enable(1, {1}, TRUE), Other("raw"), Enable(1, {1}, FALSE)>>,
   <<Pulse(1, {2}), Other("raw"), Fx(TRUE)>>,
   <<Step("select", 1, {}, "B", FALSE), Step("select", 1, {}, "?", FALSE)>>,
   <<Send(1, {0}, "?"), Detail(2, {0}), Detail(1, {9})>>,
   <<Other("probe")>>, <<Other("outputs")>>,
   <<Step("sweep", 1, {}, "A", FALSE), Step("sweep", 3, {}, "A", FALSE)>>}
=============================================================================
