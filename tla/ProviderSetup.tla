---------------------------- MODULE ProviderSetup ----------------------------
(***************************************************************************)
(* One provider's section of the configuration, and the three places that  *)
(* read it: validate_config when a command loads it, kb doctor, and        *)
(* provider_from_config when an operation is about to call the provider.   *)
(***************************************************************************)
CONSTANTS Names, None

VARIABLES
  name,      \* the provider
  setting,   \* its section of config.yaml
  env,       \* what the computer it is on gives it
  validated, \* has validate_config accepted the section?
  findings,  \* what kb doctor said of the provider
  built      \* what provider_from_config ended with

vars == <<name, setting, env, validated, findings, built>>

(* What is assumed of None: it is nothing that stands in a section, no     *)
(* verdict and no error that an operation meets.                           *)
NoneDiffers ==
  /\ None \notin BOOLEAN
  /\ None \notin {"direct_http", "vendor_cli", "mock", "junk", "ollama", "vllm", "lm_studio"}
  /\ None \notin {"api_key_env", "token_env", "command", "config", "endpoint"}

Fields  == {"api_key_env", "token_env", "cli_command", "credential_command"}
Sources == {"api_key_env", "vendor_cli", "token_env", "command"}
LocalBackends == {"ollama", "vllm", "lm_studio"}
Backends == {"direct_http", "vendor_cli", "mock", "junk"} \cup LocalBackends

(* url and account are read for codex and local, and for codex.            *)
Setting == [backend : Backends \cup {None}, source : Sources \cup {None, "junk"},
            fields : SUBSET Fields, url : {"default", "other", "none"}, account : BOOLEAN]

CliStates   == {"authenticated", "login_required", "expired", "unsupported_cli",
                "auth_check_failed", "status_timeout", "command_error"}
LocalStates == {"reachable", "http_error", "unreachable", "timeout", "not_json"}

(* command: on the PATH; key, token: set in the environment; model: listed *)
(* by the local server.                                                    *)
Env == [key : BOOLEAN, token : BOOLEAN, command : BOOLEAN,
        cli : CliStates, local : LocalStates, model : BOOLEAN]

-------------------------------------------------------------------------------
(* resolve_provider_seam: a seam, or None when it raises.                  *)
Or(value, default) == IF value = None THEN default ELSE value
Seam(b, s) == [backend |-> b, source |-> s]

Required  == [api_key_env |-> {"api_key_env"}, vendor_cli |-> {},
              token_env |-> {"token_env"}, command |-> {"credential_command"}]
Conflicts == [api_key_env |-> {"token_env", "credential_command", "cli_command"},
              vendor_cli  |-> {"api_key_env", "token_env", "credential_command"},
              token_env   |-> {"api_key_env", "credential_command"},
              command     |-> {"api_key_env", "token_env", "cli_command"}]

Allowed(n, b) ==
  IF b = "direct_http" THEN {"api_key_env", "command"}
  ELSE {"vendor_cli"} \cup (IF n = "anthropic" THEN {"token_env"} ELSE {})

CloudSeam(n, c) ==
  LET b == Or(c.backend, "direct_http")
      s == Or(c.source, IF b = "direct_http" THEN "api_key_env" ELSE "vendor_cli")
  IN IF /\ b \in {"direct_http", "vendor_cli"}
        /\ s \in Allowed(n, b)
        /\ Required[s] \subseteq c.fields
        /\ Conflicts[s] \cap c.fields = {}
        /\ b # "vendor_cli" => "cli_command" \notin c.fields
     THEN Seam(b, s) ELSE None

LocalSeam(c) ==
  IF Or(c.backend, "ollama") \in LocalBackends /\ c.source = None /\ c.fields = {}
  THEN Seam(Or(c.backend, "ollama"), None) ELSE None

MockSeam(c) ==
  IF Or(c.backend, "mock") = "mock" /\ c.source = None /\ c.fields = {}
  THEN Seam("mock", None) ELSE None

Resolve(n, c) ==
  CASE n \in {"anthropic", "codex"} -> CloudSeam(n, c)
    [] n = "local" -> LocalSeam(c)
    [] n = "mock"  -> MockSeam(c)
    [] OTHER       -> Seam(Or(c.backend, n), c.source)

Supported(n, seam) ==
  CASE n = "anthropic" -> \/ seam = Seam("direct_http", "api_key_env")
                          \/ seam.backend = "vendor_cli" /\ seam.source \in {"vendor_cli", "token_env"}
    [] n = "codex"     -> seam \in {Seam("direct_http", "api_key_env"), Seam("vendor_cli", "vendor_cli")}
    [] n = "local"     -> seam.backend \in LocalBackends /\ seam.source = None
    [] n = "mock"      -> seam = Seam("mock", None)
    [] OTHER           -> FALSE

-------------------------------------------------------------------------------
(* validate_config, for one provider.                                      *)
CodexEndpoint(c) ==
  LET cli == Resolve("codex", c).backend = "vendor_cli"
  IN c.url # "none" /\ (cli => c.url = "default" /\ ~c.account)

ValidSetting(n, c) ==
  /\ Resolve(n, c) # None
  /\ n = "codex" => CodexEndpoint(c)
  /\ n = "local" => c.url # "none"

(* provider_from_config: "built", or the error it raises.                  *)
BuildAnthropic(c, e) ==
  LET seam == Resolve("anthropic", c) IN
  IF seam.backend = "direct_http" THEN IF e.key THEN "built" ELSE "no_key"
  ELSE IF ~e.command THEN "no_command"
  ELSE IF seam.source = "token_env" /\ ~e.token THEN "no_token"
  ELSE "built"

BuildCodex(c, e) ==
  IF ~CodexEndpoint(c) THEN "endpoint"
  ELSE IF Resolve("codex", c).backend = "vendor_cli"
       THEN IF e.command THEN "built" ELSE "no_command"
       ELSE IF e.key THEN "built" ELSE "no_key"

FromConfig(n, c, e) ==
  LET seam == Resolve(n, c) IN
  IF n \in {"anthropic", "codex", "local", "mock"} /\ seam = None THEN "config"
  ELSE IF ~Supported(n, seam) THEN "not_supported"
  ELSE CASE n = "anthropic" -> BuildAnthropic(c, e)
         [] n = "codex"     -> BuildCodex(c, e)
         [] n = "local"     -> IF c.url = "none" THEN "endpoint" ELSE "built"
         [] n = "mock"      -> "built"

-------------------------------------------------------------------------------
(* kb doctor, _check_provider_routes: findings by severity.                *)
Found(severity, code) == {[severity |-> severity, code |-> code]}

ClaudeStatus(e) == IF ~e.command THEN "missing_command" ELSE e.cli
CodexStatus(e)  == IF ~e.command THEN "missing_command" ELSE e.cli
CliFinding(status) ==
  CASE status = "authenticated" -> Found("ok", status)
    [] status \in {"missing_command", "command_error"} -> Found("error", status)
    [] OTHER -> Found("warn", status)

LocalStatus(c, e) == IF c.url = "none" THEN "unconfigured" ELSE e.local
LocalFinding(c, e) ==
  IF LocalStatus(c, e) # "reachable" THEN Found("error", "unreachable")
  ELSE IF ~e.model THEN Found("warn", "model_missing")
  ELSE Found("ok", "reachable")

SetOrNot(isSet) == IF isSet THEN Found("ok", "credentials") ELSE Found("warn", "unset")

Routed(n, c, e, seam) ==
  IF n = "local" THEN LocalFinding(c, e)
  ELSE IF n = "mock" THEN {}
  ELSE IF seam.backend = "direct_http" THEN SetOrNot(e.key)
  ELSE IF seam.source = "token_env" THEN SetOrNot(e.token)
  ELSE CliFinding(IF n = "anthropic" THEN ClaudeStatus(e) ELSE CodexStatus(e))

(* Faulty: the credentials are looked for whatever the seam is.            *)
CheckProvider_AnySeam(n, c, e) ==
  LET seam == Resolve(n, c) IN
  IF n \notin {"anthropic", "codex", "local", "mock"} THEN Found("error", "unsupported")
  ELSE IF seam = None THEN Found("error", "config_invalid")
  ELSE Found("ok", "seam") \cup Routed(n, c, e, seam)

CheckProvider(n, c, e) ==
  LET seam == Resolve(n, c) IN
  IF n \notin {"anthropic", "codex", "local", "mock"} THEN Found("error", "unsupported")
  ELSE IF seam = None THEN Found("error", "config_invalid")
  ELSE Found("ok", "seam") \cup
       (IF Supported(n, seam) THEN Routed(n, c, e, seam) ELSE Found("error", "runtime_unsupported"))

-------------------------------------------------------------------------------
(* What a section can differ in: only codex has an account, only codex and *)
(* local a base_url.                                                       *)
Relevant(n, c) ==
  /\ c.account => n = "codex"
  /\ n \notin {"codex", "local"} => c.url = "none"
  /\ c.backend \in LocalBackends => n = "local"
  /\ c.backend = "mock" => n = "mock"

Environments(n) ==
  {e \in Env :
     /\ n \notin {"anthropic", "codex"} =>
          ~e.key /\ ~e.token /\ ~e.command /\ e.cli = "authenticated"
     /\ n # "local" => e.local = "reachable" /\ e.model}

Init ==
  /\ name = None
  /\ setting = None
  /\ env = None
  /\ validated = None
  /\ findings = None
  /\ built = None

Configure ==
  /\ setting = None
  /\ name' \in Names
  /\ setting' \in {c \in Setting : Relevant(name', c)}
  /\ UNCHANGED <<env, validated, findings, built>>

Load ==
  /\ setting # None /\ validated = None
  /\ validated' = ValidSetting(name, setting)
  /\ IF validated' THEN env' \in Environments(name) ELSE UNCHANGED env
  /\ UNCHANGED <<name, setting, findings, built>>

Doctor ==
  /\ validated # None /\ findings = None
  /\ findings' = IF validated THEN CheckProvider(name, setting, env) ELSE Found("error", "config-invalid")
  /\ UNCHANGED <<name, setting, env, validated, built>>

Build ==
  /\ validated = TRUE /\ built = None
  /\ built' = FromConfig(name, setting, env)
  /\ UNCHANGED <<name, setting, env, validated, findings>>

Next == Configure \/ Load \/ Doctor \/ Build
Spec == Init /\ [][Next]_vars

-------------------------------------------------------------------------------
TypeOK ==
  /\ name \in Names \cup {None}
  /\ setting \in Setting \cup {None}
  /\ env \in Env \cup {None}
  /\ validated \in BOOLEAN \cup {None}

(* A section that validate_config accepts never stops an operation: what   *)
(* provider_from_config asks of it later has been asked of it by then.     *)
(* When kb doctor reports an error of a provider, an operation does not    *)
(* get its adapter, unless the adapter is there and what it talks to is    *)
(* not.  And of a provider whose seam is not a token, doctor has nothing   *)
(* to say only when an operation gets the adapter; of those with a token,  *)
(* see DoctorTells.                                                        *)
DoctorPredicts ==
  /\ built \notin {"config", "endpoint"}
  /\ findings # None /\ built # None =>
    /\ built = "built" =>
         \A f \in findings : f.severity = "error" => f.code \in {"unreachable", "command_error"}
    /\ setting.source # "token_env" =>
         built = "built" \/ \E f \in findings : f.severity # "ok"

(* The docs' claim: when what the selected seam needs is missing, kb       *)
(* doctor reports the missing CLI, login, token, key or endpoint.          *)
DoctorTells ==
  findings # None /\ built # None =>
    built = "built" \/ \E f \in findings : f.severity # "ok"
===============================================================================
