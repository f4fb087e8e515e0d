--------------------------- MODULE MCInspections ----------------------------
(* Small printers for the model checking of Inspections. *)
EXTENDS Inspections

\* Two answers of one size and one of the size of a status, as in the code.
MCSettings == <<"command_mode", "auto_cut", "density">>
MCSize == [q \in {"status", "command_mode", "auto_cut", "density"} |->
               IF q \in {"status", "command_mode"} THEN 2 ELSE 1]

MCFields == <<"ssid", "ipv4">>
MCKind == [ssid |-> "text", ipv4 |-> "address"]

\* Four records, the last of which has a key that sorts second, as "record.10" does.
MCKeyOrder == <<1, 4, 2, 3>>
MCRecords ==
    [key : {"FIRMID", "FIRMVER"}, of : 1..2] \cup [key : {"MODEL"}, of : {1}]
        \cup [key : {"empty", "absent", "wrong"}]
MCExtra == {<<1, 2, 7>>, <<3, 1>>}

MCAttributes == {"marker-names", "marker-levels", "media-ready", "uuid"}
MCFocusGroups == <<{"marker-names", "marker-levels"}, {"media-ready", "media-col-ready"}>>
MCAttributeKind ==
    [uuid |-> "single"] @@ ("media-ready" :> "capability")
        @@ ("marker-names" :> "raw") @@ ("marker-levels" :> "raw")

\* No format, one that is listed twice, and more than are asked for.
MCFormatLists == {<<>>, <<"pdf", "pdf">>, <<"pdf", "pwg", "pdf">>}

\* Limits that messages with collections just fit and exceed, limits that some requests fit, and
\* limits that are refused.
MCCodecLimits ==
    {[message |-> 60, groups |-> 2, attributes |-> 2, values |-> 5, members |-> 2, decoded |-> 10,
      name |-> 1, value |-> 9, depth |-> 2],
     [message |-> 90, groups |-> 1, attributes |-> 5, values |-> 6, members |-> 1, decoded |-> 16,
      name |-> 1, value |-> 2, depth |-> 1],
     [message |-> 7, groups |-> 1, attributes |-> 1, values |-> 1, members |-> 1, decoded |-> 1,
      name |-> 1, value |-> 1, depth |-> 1],
     [message |-> 40, groups |-> 1, attributes |-> 2, values |-> 3, members |-> 1, decoded |-> 4,
      name |-> 2, value |-> 1, depth |-> 1]}
MCEntries ==
    {Entry("group", <<>>, <<>>), Entry("end", <<>>, <<>>), Entry("cut", <<>>, <<>>),
     Entry("keyword", <<1>>, <<5>>), Entry("keyword", <<>>, <<>>), Entry("keyword", <<1, 1>>, <<>>),
     Entry("integer", <<1>>, <<255, 255, 255, 254>>), Entry("integer", <<>>, <<1>>),
     Entry("resolution", <<1>>, <<0, 0, 1, 44, 255, 0, 0, 0, 3>>), Entry("range", <<>>, <<127, 255, 255, 255, 128, 0, 0, 0>>),
     Entry("boolean", <<>>, <<1>>), Entry("no-value", <<1>>, <<>>),
     Entry("collection", <<1>>, <<>>), Entry("collection", <<>>, <<>>),
     Entry("member", <<>>, <<2>>), Entry("member", <<>>, <<>>), Entry("end-collection", <<>>, <<>>)}
MCAttributeNames == {<<1, 0>>, <<2>>}

\* A service that moves, one whose name is spelled in two ways, and records that are no printers.
MCAnnouncements ==
    [type : {"ipp", "ipps"}, name : {<<"a", "lower">>}, host : {"h1", "h2"}, rp : {"absent"},
     complete : {TRUE}, fits : {TRUE}]
        \cup [type : {"ipp"}, name : {<<"a", "upper">>}, host : {"h1"}, rp : {"/print"},
              complete : {TRUE}, fits : BOOLEAN]
        \cup [type : {"ipp"}, name : {<<"b", "lower">>}, host : {"h1"}, rp : {"print", "empty"},
              complete : {TRUE}, fits : {TRUE}]
        \cup [type : {"ipps"}, name : {<<"b", "lower">>}, host : {"h1"}, rp : {"absent"},
              complete : {FALSE}, fits : {TRUE}]
=============================================================================
