---------------------------- MODULE MCChannelMap ----------------------------
(***************************************************************************)
(* An instance of ChannelMap for TLC: two channels a row, linked or not,   *)
(* with their names exchanged, or one of them without a name.              *)
(***************************************************************************)
EXTENDS ChannelMap, TLC

MCShows ==
  "mono" :> (0 :> {0} @@ 1 :> {1}) @@ "linked" :> (0 :> {0, 1} @@ 1 :> {0, 1})
    @@ "swapped" :> (0 :> {1} @@ 1 :> {0}) @@ "bare" :> (0 :> {} @@ 1 :> {1})

MCFed == {<<"inputs", 0>>}

NoSource == [r \in {"inputs", "outputs"} |-> Source("none")]

Pair == {<<"outputs", 0, {0, 1}>>, <<"outputs", 1, {0, 1}>>}

\* The walk stored the first output as 1.
MCExample ==
  [save |-> 0, table |-> FALSE, facts |-> {}, source |-> NoSource,
   walks |-> {{<<{0, 1}, 1>>}}, legacy |-> "none", phantom |-> FALSE]

Walked == [MCExample EXCEPT !.legacy = "there", !.phantom = TRUE]

\* The outputs have been measured.
Half ==
  [Walked EXCEPT !.table = TRUE, !.facts = Pair,
                 !.source["outputs"] = [kind |-> "sweep", read |-> Pair]]

MCFiles   == {None, Half}
MCUploads == {Walked}
MCSweeps  == {<<"inputs">>}
=============================================================================
