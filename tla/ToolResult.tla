-------------------------------- MODULE ToolResult --------------------------------
(***************************************************************************)
(* What becomes of the value a tool's execute() returns: the part of       *)
(* ViteMCP.ts that tells the shapes apart (isStructuredResult,             *)
(* normalizeToolResult) and the one that reports a UserError.              *)
(*                                                                         *)
(* A value is told by what its keys suggest: "text" is a string or a       *)
(* scalar, "block" an object whose `type` is that of a content block,      *)
(* "blocks" one with a `content` array (or an input_required result),      *)
(* "wrapper" one with a structuredContent and nothing but isError and      *)
(* _meta beside it, "plain" any other object.                              *)
(***************************************************************************)
CONSTANT None

Text == [looks |-> "text", inner |-> None]
Plain == [looks |-> "plain", inner |-> None]
Block == [looks |-> "block", inner |-> None]
Blocks == [looks |-> "blocks", inner |-> None]

\* { structuredContent: payload }
Wrapper(payload) == [looks |-> "wrapper", inner |-> payload]

\* Objects as they come from elsewhere; a wrapper then holds a plain one.
Foreign == {Plain, Block, Blocks, Wrapper(Plain)}

\* structured: the structuredContent of the CallToolResult.
CallToolResult ==
    [error: BOOLEAN, structured: Foreign \cup {Wrapper(f) : f \in Foreign} \cup {None}]

\* execute() threw.
Failed == [error |-> TRUE, structured |-> None]

NormalizeToolResult(value, hasOutputSchema) ==
    [error |-> FALSE,
     structured |->
        CASE value.looks \in {"text", "blocks"} -> None
          [] value.looks = "wrapper" -> value.inner
          [] value.looks = "block" -> IF hasOutputSchema THEN value ELSE None
          [] value.looks = "plain" -> value]
================================================================================
