---------------------------- MODULE MCCliImports ----------------------------
(* Model values and bounds for checking CliImports. *)
EXTENDS CliImports

alice == [name |-> "Alice", mailto |-> "alice@x"]
bert == [name |-> "Bert", mailto |-> "bert@x"]

MCAddress == {alice, bert}
MCWithin == {<<"Al", "Alice">>, <<"Al", "Alan">>}
MCLoaded == {<<>>, <<alice>>, <<bert, bert>>}

MCMessage == {[from |-> bert, to |-> <<alice>>, subject |-> TRUE,
               date |-> TRUE, media |-> "plain"],
              [from |-> bert, to |-> <<alice>>, subject |-> TRUE,
               date |-> FALSE, media |-> "plain"]}

Says(sender, sent) == [sender |-> sender, sent |-> sent]

\* Minutes into day 10 in UTC, and recordings of two hours.
At(hour, minute) == 10 * Day + hour * Hour + minute
Video(start) == [kind |-> "video", start |-> start, end |-> start + 2 * Hour]
ChatFile == [kind |-> "chat"]
File(known) == [kind |-> "file", known |-> known]

Zoom(entries, zone, chat) ==
    [entries |-> entries, zone |-> zone * Hour, chat |-> chat]

\* Meetings at noon in UTC, in the evening and over midnight in a western zone,
\* in the morning of an eastern one, over midnight in UTC; with files, with two
\* videos, and without any.
MCZoomDirectory ==
    {Zoom({Video(At(12, 0)), ChatFile, File(TRUE)}, -4,
          <<Says("Al", At(12, 5)), Says("Alan", At(12, 6)),
            Says("Al", At(13, 20))>>),
     Zoom({Video(At(1, 0)), ChatFile}, -4, <<Says("Bert", At(1, 45))>>),
     Zoom({Video(At(3, 30)), ChatFile}, -4,
          <<Says("Al", At(3, 45)), Says("Bert", At(4, 15))>>),
     Zoom({Video(At(3, 30)), ChatFile}, -4, <<Says("Bert", At(4, 15))>>),
     Zoom({Video(At(1, 0)), ChatFile}, 9, <<Says("Alice", At(1, 30))>>),
     Zoom({Video(At(-1, 0)), ChatFile}, 9, <<Says("Alice", At(-1, 30))>>),
     Zoom({Video(At(-1, 0)), ChatFile}, 0, <<Says("Alice", At(0, 30))>>),
     Zoom({Video(At(12, 0)), Video(At(14, 30)), ChatFile}, -4,
          <<Says("Alan", At(14, 45))>>),
     Zoom({ChatFile}, -4, <<Says("Alan", At(14, 45))>>),
     Zoom({File(FALSE), Video(At(12, 0))}, -4, <<>>),
     Zoom({File(TRUE), Video(At(12, 0))}, -4, <<>>)}

Meet(named, chat) == [named |-> named, start |-> At(12, 0), chat |-> chat]

MCMeetRecording == {Meet(FALSE, Absent), Meet(TRUE, Absent),
                    Meet(TRUE, <<Says("Alan", 2), Says("Bert", 3)>>)}

MCMachineZone == {-4 * Hour, -3 * Hour, 0, 9 * Hour}
=============================================================================
