---------------------------- MODULE MCCommandLine ----------------------------
(***************************************************************************)
(* Instances of CommandLine for TLC: every profile, named by the flag, the *)
(* metadata file or the model, with and without what it needs; and every   *)
(* input of up to three lines for one profile.                             *)
(***************************************************************************)
EXTENDS CommandLine

MCNumerals == ("0" :> 0) @@ ("8" :> 8) @@ ("70000" :> 70000)

Metadatas ==
  {Unreadable, NoMetadata}
    \cup {[profile |-> p, temperatures |-> p = "dohnuts", pointer |-> p # "dohnuts", decision |-> ""] :
            p \in {"dohnuts", "decider", "kev", "jad"}}

Json(array, requests) == [text |-> "json", array |-> array, requests |-> requests]
Text(text) == [text |-> text, array |-> FALSE, requests |-> <<>>]

Plain == [interop |-> TRUE, metadata |-> NoMetadata, type |-> "", marked |-> FALSE, loads |-> TRUE,
          mask |-> TRUE, opens |-> TRUE, lines |-> <<Json(FALSE, <<"a">>)>>]

\* The decision types of the official models there are, and how they are read.
Official(type) == [Plain EXCEPT !.type = type, !.marked = type \in {"kev", "laya"}]

ModelWorlds ==
  {[Plain EXCEPT !.metadata = m] : m \in Metadatas}
    \cup {[Official(type) EXCEPT !.metadata = m] : type \in {"tev1", "kev", "laya"}, m \in Metadatas}
    \cup {[Official("kev") EXCEPT !.metadata.decision = "kev"], [Official("tev1") EXCEPT !.interop = FALSE],
          [Plain EXCEPT !.loads = FALSE], [Plain EXCEPT !.mask = FALSE], [Plain EXCEPT !.opens = FALSE]}

Optional(args) == {<<>>, args}

ModelLines ==
  {named \o file \o head \o <<"--model", "m">> \o mode :
     named \in {<<>>} \cup {<<"--profile", p>> : p \in Profiles \cup {"unknown"}},
     file \in Optional(<<"--metadata", "f">>), head \in Optional(<<"--head", "h">>),
     mode \in {<<>>, <<"--shared-prefix">>, <<"--server">>}}

OddLines ==
  {<<>>, <<"--list-devices">>, <<"--model">>, <<"--port", "none">>, <<"--flash-attn=maybe">>, <<"--help">>,
   <<"--model", "--server">>,
   <<"--model", "m", "--profile", "jad", "--server", "--port", "70000">>,
   <<"--model", "m", "--profile", "jad", "--server", "--max-questions", "0">>,
   <<"--model", "m", "--profile", "jad", "--input", "r", "--raw", "--ctx", "8">>}

Contents ==
  {Text("empty"), Text("not json"), Text("not json, cut"), Json(TRUE, <<>>), Json(FALSE, <<"a">>),
   Json(TRUE, <<"b">>), Json(TRUE, <<"a", "b">>), Json(TRUE, <<"a", "bad">>)}

Streams == {[Plain EXCEPT !.lines = lines] : lines \in BoundedSeq(Contents, 3)}
ReadLines == {<<"--model", "m", "--profile", "decider", "--input", "r">>}

Run(lines, worlds) == [argv : lines, world : worlds]

MCProcesses == Run(ModelLines \cup OddLines, ModelWorlds) \cup Run(ReadLines, Streams)

ASSUME TypesNamed
=============================================================================
