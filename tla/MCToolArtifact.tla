---------------------------- MODULE MCToolArtifact ----------------------------
(***************************************************************************)
(* Instances of ToolArtifact for TLC.  The second analysis names a task as  *)
(* the suffix would name the second query.                                 *)
(***************************************************************************)
EXTENDS ToolArtifact

Query(rows) == [tool |-> QueryTool, rows |-> rows, tasks |-> <<>>]

QueryTask(suffixes, ok) == [id |-> [name |-> "query", suffixes |-> suffixes], ok |-> ok]

Analysis(tasks) == [tool |-> AnalyzeTool, rows |-> {}, tasks |-> tasks]

MCContents ==
  {Query({}), Query({"r"}), Analysis(<<QueryTask(<<2>>, TRUE), QueryTask(<<>>, FALSE)>>)}

MCIdempotent == {QueryTool}
===============================================================================
