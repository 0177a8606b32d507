---------------------------- MODULE MCExampleMedia ----------------------------
(***************************************************************************)
(* ExampleMedia for TLC: audio that fills its last packet or not; H.264    *)
(* with either start code; H.266 with both in one file; units with zeros,  *)
(* ones and emulation prevention inside, one after the other delimiter     *)
(* without a slice; AV1 streams of fewer and more units than fit the list. *)
(***************************************************************************)
EXTENDS ExampleMedia

Audio == [kind : {"audio"}, len : 0 .. 7]

AUD == <<9, 16>>
Slices == {<<5, 0, 1, 7>>, <<1, 0, 0, 3, 1>>, <<6>>}
H264 == {[kind |-> "video", codes |-> [k \in 1 .. 5 |-> n],
          nals |-> <<AUD, s, AUD, t, u>>] : n \in {3, 4}, s, t, u \in Slices}
        \cup {[kind |-> "video", codes |-> <<n>>, nals |-> <<s>>] : n \in {3, 4}, s \in Slices}

AUD_NUT == <<0, 161, 8>>
VvcSlices == {<<0, 1, 0, 1>>, <<0, 9, 0, 0, 3, 1>>}
H266 == {[kind |-> "vvc", codes |-> c, nals |-> <<AUD_NUT, s, t, AUD_NUT, u>>] :
           c \in [1 .. 5 -> {3, 4}], s, t, u \in VvcSlices}

Td(n) == [type |-> 2, len |-> n, has_size |-> TRUE]
Obu(n) == [type |-> 6, len |-> n, has_size |-> TRUE]
Rest(n) == [type |-> 6, len |-> n, has_size |-> FALSE]
Av1 == [kind : {"av1"},
        tus : { <<<<Td(2), Obu(5)>>>>,
                <<<<Td(2), Obu(3), Obu(9)>>, <<Td(2), Rest(4)>>>>,
                <<<<Td(2)>>, <<Td(3), Obu(1)>>, <<Td(2), Obu(2)>>>> }]

MCMedia == Audio \cup H264 \cup H266 \cup Av1 \cup {[kind |-> "jpegxs"]}
=============================================================================
