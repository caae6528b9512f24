------------------------------- MODULE Config -------------------------------
(***************************************************************************)
(* How cmdServe comes by its configuration, and what New makes of it:      *)
(* LoadConfig, MergeConfig, DefaultConfig and New of                       *)
(* internal/proxy/proxy.go, the flags of cmd/ghostguard/main.go.           *)
(*                                                                         *)
(* A configuration is a function from settings, under their names in the   *)
(* YAML file, to values.  Those of the detector carry its prefix; the      *)
(* ones that only tune it (window_max_age, max_prev_tools) are left out.   *)
(* An address is an ip and a port, both strings.                           *)
(***************************************************************************)
EXTENDS Integers, Sequences

CONSTANT Unopenable  \* audit log paths that cannot be opened for appending

\* The settings a flag exists for, and those that only a file can give.
Addresses == {"listen_addr", "dash_addr"}
Numbers == {"rate_limit", "rate_window", "detector.rate_threshold",
            "detector.entropy_threshold"}
FlagSettings == Addresses \cup Numbers \cup
  {"policy_dir", "audit_log_path", "alert_webhook", "slack_webhook", "dry_run"}
Mergeable == FlagSettings \cup {"target_hosts", "baseline_path"}
Settings == Mergeable \cup {"detector.window_interval", "detector.baseline_path"}

NoAddr == [ip |-> "", port |-> ""]

\* The zero value of a setting's type.
Zero(s) ==
  CASE s \in Addresses                                   -> NoAddr
    [] s \in Numbers \cup {"detector.window_interval"}   -> 0
    [] s = "target_hosts"                                -> <<>>
    [] s = "dry_run"                                     -> FALSE
    [] OTHER                                             -> ""

\* Durations are in minutes.
DefaultConfig ==
  [s \in Settings |->
    CASE s = "listen_addr"                -> [ip |-> "", port |-> "8081"]
      [] s = "dash_addr"                  -> [ip |-> "", port |-> "9090"]
      [] s = "target_hosts"               -> <<"api.openai.com", "api.anthropic.com",
                                               "generativelanguage.googleapis.com">>
      [] s = "rate_limit"                 -> 60
      [] s = "rate_window"                -> 1
      [] s = "detector.rate_threshold"    -> 3
      [] s = "detector.entropy_threshold" -> 4
      [] s = "detector.window_interval"   -> 1
      [] OTHER                            -> Zero(s)]

\* LoadConfig starts from the defaults, and yaml.Unmarshal replaces the settings that
\* the file has, those it sets to zero included.  `keys` are the file's settings.
LoadFails(file) == file.kind \in {"unreadable", "malformed"}
LoadConfig(file) ==
  IF file.kind = "yaml"
  THEN [s \in Settings |-> IF s \in DOMAIN file.keys THEN file.keys[s] ELSE DefaultConfig[s]]
  ELSE DefaultConfig

\* The overrides cmdServe makes of its flags: an address is ":" and a port, and a
\* number that is not positive counts as not given.
Overriding(s, value) ==
  CASE s \in Addresses -> [ip |-> "", port |-> value]
    [] s \in Numbers   -> IF value > 0 THEN value ELSE 0
    [] OTHER           -> value
Overrides(flags) ==
  [s \in Mergeable |-> IF s \in DOMAIN flags THEN Overriding(s, flags[s]) ELSE Zero(s)]

\* Mutant of MergeConfig: an override counts wherever the base has something.
MergeConfigOverBase(base, overrides) ==
  [s \in Settings |->
     IF s \in Mergeable /\ base[s] # Zero(s) THEN overrides[s] ELSE base[s]]

\* An override that is not the zero value of its type wins.
MergeConfig(base, overrides) ==
  [s \in Settings |->
     IF s \in Mergeable /\ overrides[s] # Zero(s) THEN overrides[s] ELSE base[s]]

\* New opens the audit log, unless it is to go to the standard logger ...
NewFails(cfg) == cfg["audit_log_path"] \in Unopenable

\* ... and starts two goroutines with a ticker of an interval each (the cleanup of the
\* limiter and that of the detector's window); time.NewTicker panics if it is not
\* positive, and with it the process.
TickerPanics(cfg) == cfg["rate_window"] <= 0 \/ cfg["detector.window_interval"] <= 0

\* The dashboard has a server of its own if it has an address.
HasDash(cfg) == cfg["dash_addr"] # NoAddr
=============================================================================
