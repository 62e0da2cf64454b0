--------------------------- MODULE MCReportCommand --------------------------
(***************************************************************************)
(* Instances of ReportCommand: record files of every kind the loader tells *)
(* apart, and command lines that write none, some or all of the files, one *)
(* path for two of them, or the record's own path.                         *)
(***************************************************************************)
EXTENDS ReportCommand, SampleRecords

Plain(claims) == Input("object", FALSE, "absent", FALSE, claims, TRUE)

Enveloped(claims) ==
    Input("object", TRUE, "object", TRUE, [claims EXCEPT !.format = "cmcp-runtime"], TRUE)

Unsigned == [Conformant EXCEPT !.signature = "absent"]

(* A string without a UTF-8 form has no canonical form either. *)
Unencodable ==
    [Plain([Unsigned EXCEPT !.canonical = FALSE]) EXCEPT !.encodable = FALSE]

SoftwareOnly == [Conformant EXCEPT !.platform = "software-only"]

(* An envelope whose version was taken away, and one without its claims.   *)
Stripped == [Enveloped(Unsigned) EXCEPT !.cmcp = FALSE, !.claims.format = "trace"]
Hollow == [Enveloped(NoClaims) EXCEPT !.trace = "other"]

Unreadable == [Plain(NoClaims) EXCEPT !.json = "refused"]
TooWide == [Plain(NoClaims) EXCEPT !.json = "too wide"]

MCInputs ==
    {Plain(Conformant), Enveloped(Conformant), Plain(SoftwareOnly), Unencodable,
     Stripped, Hollow, Unreadable, TooWide}

FewInputs == {Plain(Conformant), Plain(Unsigned)}

MCRecords == {f.claims : f \in MCInputs \cup FewInputs} \cup {NoClaims}

-----------------------------------------------------------------------------
Outputs(html, json, badge) == [html |-> html, json |-> json, badge |-> badge]

Call(caller, receipt, policies, out, failUnder) ==
    [caller |-> caller, nonce |-> "challenge", receipt |-> receipt, policies |-> policies,
     out |-> out, failUnder |-> failUnder]

MCCommands ==
    {Call("command line", "proves", "loads", Outputs({"a"}, {"b"}, {}), {2}),
     Call("command line", "absent", "absent", Outputs({}, {"record"}, {"b"}), {1}),
     Call("command line", "refused", "loads", Outputs({"a"}, {}, {}), {}),
     Call("command line", "other", "crashes", Outputs({"a"}, {}, {}), {}),
     Call("program", "other", "loads", Outputs({"a"}, {"a"}, {"b"}), {0})}

FullReport ==
    {Call("command line", "proves", "loads", Outputs({"a"}, {"b"}, {}), {})}

MCOptionSets == {OptionsOf(c) : c \in MCCommands}
=============================================================================
