---------------------------- MODULE MCFrontDoor -----------------------------
(***************************************************************************)
(* The model-checked instance of FrontDoor: configuration files and flags  *)
(* of every kind with one client, and clients of every kind with a few     *)
(* configurations.                                                         *)
(***************************************************************************)
EXTENDS FrontDoor, TLC

MCUnopenable == {"/nowhere/audit.log"}
MCDenied == {"exec"}
MCAnswers == {<<>>, <<"search">>, <<"exec">>, <<"exec", "search">>}
MCServes ==
  { <<"api.openai.com", "/v1/chat/completions">>, <<"api.deepseek.com", "/chat/completions">>,
    <<"api.anthropic.com", "/v1/messages">>, <<Google, "/v1beta/models">> }
MCOwnNames == {"localhost", "127.0.0.1", "ghostguard"}

NoKeys == [s \in {} |-> 0]
NoFile == [kind |-> "absent", keys |-> NoKeys]
Yaml(keys) == [kind |-> "yaml", keys |-> keys]
Bare == Yaml("target_hosts" :> <<>>)
Other8888 == Yaml("listen_addr" :> [ip |-> "0.0.0.0", port |-> "8888"] @@
                  "target_hosts" :> <<"api.anthropic.com">>)
DeepSeek == Yaml("target_hosts" :> <<"api.deepseek.com">>)
DryRun == Yaml("dry_run" :> TRUE @@ "dash_addr" :> NoAddr)

Files ==
  { NoFile, Bare, Other8888, DryRun,
    [kind |-> "unreadable", keys |-> NoKeys], [kind |-> "malformed", keys |-> NoKeys],
    Yaml("rate_window" :> 0), Yaml("detector.window_interval" :> 0 @@ "rate_limit" :> -1),
    Yaml("audit_log_path" :> "/nowhere/audit.log") }

FlagSets ==
  { NoKeys,
    "listen_addr" :> "8888" @@ "policy_dir" :> "./policies",
    "dash_addr" :> "" @@ "dry_run" :> FALSE @@ "rate_limit" :> -1 @@ "rate_window" :> 0,
    "dry_run" :> TRUE @@ "rate_window" :> 5 @@ "audit_log_path" :> "/var/log/audit.log" }

\* An OpenAI client whose base URL ends in "/v1", and those that differ from it.
V1 == [door |-> "proxy", method |-> "POST", form |-> "origin",
       name |-> "localhost", port |-> "8081", path |-> "/v1/chat/completions",
       header |-> FALSE, api |-> "openai", plain |-> TRUE, encoded |-> FALSE,
       resumed |-> <<>>]
Readme == [V1 EXCEPT !.port = "8888", !.path = "/chat/completions"]
Proxied == [V1 EXCEPT !.form = "absolute", !.name = "api.openai.com", !.port = ""]
Anthropic == [V1 EXCEPT !.api = "anthropic", !.path = "/v1/messages", !.header = TRUE]
Gemini == [V1 EXCEPT !.api = "gemini", !.path = "/v1beta/models"]
Get == [V1 EXCEPT !.method = "GET", !.api = "none", !.encoded = TRUE]

Clients ==
  { V1, Readme, Proxied, [Proxied EXCEPT !.path = "/chat/completions"],
    [V1 EXCEPT !.resumed = <<"search", "exec">>], [V1 EXCEPT !.encoded = TRUE], [V1 EXCEPT !.form = "absolute"],
    [V1 EXCEPT !.name = "ghostguard"], [V1 EXCEPT !.name = "ghostguard", !.port = "8888"],
    Anthropic, [Anthropic EXCEPT !.plain = FALSE],
    [Anthropic EXCEPT !.plain = FALSE, !.name = "api.anthropic.com", !.port = ""],
    [Anthropic EXCEPT !.plain = FALSE, !.name = "api.anthropic.com", !.header = FALSE],
    Gemini, [Gemini EXCEPT !.name = Google, !.port = ""],
    [Get EXCEPT !.path = "/ghostguard/health"],
    [Get EXCEPT !.door = "dash", !.path = "/metrics"],
    [Get EXCEPT !.door = "dash", !.path = "/nowhere"] }

Tunnelled == [Get EXCEPT !.method = "CONNECT", !.name = "api.openai.com", !.port = "443"]

Setup(f, g, c) == [file |-> f, flags |-> g, client |-> c]
MCSetups ==
  { Setup(f, g, V1) : f \in Files, g \in FlagSets } \cup
  { Setup(f, NoKeys, c) : f \in {NoFile, Bare, Other8888, DeepSeek}, c \in Clients } \cup
  { Setup(NoFile, NoKeys, Tunnelled) }

\* The command line of README.md:28 and the client of README.md:43, which goes on with
\* a conversation.
READMESetup ==
  { Setup(NoFile, "listen_addr" :> "8888" @@ "policy_dir" :> "./policies",
          [Readme EXCEPT !.resumed = <<"exec">>]) }
=============================================================================
