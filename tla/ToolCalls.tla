----------------------------- MODULE ToolCalls ------------------------------
(***************************************************************************)
(* Which requests the proxy looks into and which tool calls it finds       *)
(* there: isAIEndpoint, extractToolCalls and the three parsers of          *)
(* internal/proxy/intercept.go.                                            *)
(*                                                                         *)
(* A path or a host is given as a string, and the tests for substrings as  *)
(* sets of those that pass.  Of a body the model keeps what the parsers    *)
(* tell apart:                                                             *)
(*   calls     the tool_calls at its top level                             *)
(*   messages  a sequence: each has the names in its tool_calls, and a     *)
(*             content that is plain text or a sequence of blocks          *)
(*   contents  a sequence of sequences of parts                            *)
(* where a block or a part has a type and, for a call, a name.  A body     *)
(* that is not JSON is NotJSON.                                            *)
(***************************************************************************)
EXTENDS Sequences, SequencesExt

\* The paths that contain "/v1/chat/completions", "/chat/completions", "/messages".
V1ChatPaths == {"/v1/chat/completions"}
ChatPaths == V1ChatPaths \cup {"/chat/completions"}
MessagePaths == {"/v1/messages"}
Google == "generativelanguage.googleapis.com"

NotJSON == [json |-> FALSE]

IsAIEndpoint(targets, host, path) ==
  host \in ToSet(targets) \/ path \in V1ChatPaths \cup MessagePaths

\* Mutant of ParseOpenAIToolCalls: of the messages only the last is looked at.
ParseOpenAILastMessage(body) ==
  IF ~body.json THEN <<>>
  ELSE body.calls \o body.messages[Len(body.messages)].calls

\* The parsers go through all there is, in order.
ParseOpenAIToolCalls(body) ==
  IF ~body.json THEN <<>>
  ELSE body.calls \o FlattenSeq([i \in 1..Len(body.messages) |-> body.messages[i].calls])

Named(blocks, type) ==
  FlattenSeq([i \in 1..Len(blocks) |->
                IF blocks[i].type = type THEN <<blocks[i].name>> ELSE <<>>])

\* Content is declared as a list of blocks: one message whose content is plain text
\* makes json.Unmarshal return an error, and the calls it did find are dropped.
ParseAnthropicToolCalls(body) ==
  IF ~body.json \/ \E i \in 1..Len(body.messages) : body.messages[i].plain
  THEN <<>>
  ELSE FlattenSeq([i \in 1..Len(body.messages) |-> Named(body.messages[i].blocks, "tool_use")])

ParseGeminiToolCalls(body) ==
  IF ~body.json THEN <<>>
  ELSE FlattenSeq([i \in 1..Len(body.contents) |-> Named(body.contents[i], "functionCall")])

ExtractToolCalls(host, path, anthropicVersion, body) ==
     (IF path \in ChatPaths THEN ParseOpenAIToolCalls(body) ELSE <<>>)
  \o (IF path \in MessagePaths /\ anthropicVersion
      THEN ParseAnthropicToolCalls(body) ELSE <<>>)
  \o (IF host = Google THEN ParseGeminiToolCalls(body) ELSE <<>>)
=============================================================================
