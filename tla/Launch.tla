------------------------------ MODULE Launch ------------------------------
(***************************************************************************)
(* What a server is started with: lnpl.toml and its profiles (config.py),  *)
(* the environment and the options, judged three times over: by            *)
(* `lnpl config check`, by `lnpl serve` (cli.py) and by the factory a WSGI *)
(* host calls, build_app (wsgi.py).  Each is a chain of checks, of which   *)
(* the first that fails refuses the launch.                                *)
(*                                                                         *)
(* Nothing is shared between the three but what they read, so that a       *)
(* behaviour runs them one after another on one situation.                 *)
(***************************************************************************)
EXTENDS Naturals

CONSTANTS
  Documents,       \* see ServedDocument
  Files,           \* lnpl.toml: see File
  Surroundings,    \* the environment: see Surrounding
  Options          \* what the operator gives: see Option

Selectors == {"unset", "fake", "registered", "unknown"}    \* of a driver, a format, ...
Secrets == {"missing", "unreadable", "empty", "short", "good"}

(* What the document asks for. *)
ServedDocument ==
  [targets : {"none", "urls", "names"},              \* of its network calls
   auth : BOOLEAN,                                   \* a target's capability declares `auth`
   jwt : BOOLEAN, role : BOOLEAN]                    \* `security jwt`, `security role`

(* A profile's table.  `jwt` is the form of its secret. *)
Table == [valid : BOOLEAN, backend : Selectors, log_format : Selectors, endpoint : BOOLEAN,
          jwt : {"none", "env", "file", "provider"}]

File == [present : BOOLEAN, readable : BOOLEAN, default : Table,
         named : BOOLEAN, profile : Table]           \* the one other profile, if it is there

(* `secret` is the state of the source the file names (a variable is never  *)
(* unreadable), `given` of the one an option names; `shadowed`: a package registers a provider as "hmac".   *)
Surrounding == [profile : {"unset", "empty", "default", "named"}, endpoint : BOOLEAN,
                auth : BOOLEAN, secret : Secrets, given : Secrets, shadowed : BOOLEAN]

Option == [config : BOOLEAN, profile : {"unset", "empty", "default", "named"},
           jwt_secret_env : {"unset", "empty", "set"}, jwt_secret_file : {"unset", "empty", "set"},
           jwt_issuer : {"unset", "empty", "set"},
           token_provider : {"unset", "hmac", "registered", "unknown"},
           backend : Selectors, log_format : Selectors, cache : Selectors,
           network : Selectors \cup {"http"}, endpoint : BOOLEAN]

LaunchAssumption ==
  /\ Documents \subseteq ServedDocument /\ Files \subseteq File
  /\ Surroundings \subseteq Surrounding /\ Options \subseteq Option

VARIABLES doc, file, env, args,          \* the situation
          checked, served, built         \* the three verdicts, "none" before

situation == <<doc, file, env, args>>
launchVars == <<situation, checked, served, built>>

(* A verdict: refused, for a reason, or what the server runs with. *)
Refused(why) == [refused |-> why]
IsRefused(v) == "refused" \in DOMAIN v
NotYet == Refused("none")

Init ==
  /\ doc \in Documents /\ file \in Files /\ env \in Surroundings /\ args \in Options
  /\ env.secret = "unreadable" => "env" \notin {file.default.jwt, file.profile.jwt}
  /\ checked = NotYet /\ served = NotYet /\ built = NotYet

Opens(selector) == selector # "unknown"
Either(first, second) == IF first # "unset" THEN first ELSE second

---------------------------------------------------------------------------
(* load_config. *)

Nothing == [valid |-> TRUE, backend |-> "unset", log_format |-> "unset", endpoint |-> FALSE,
            jwt |-> "none"]

(* `[<profile>]` over `[default]`, key by key. *)
Overlay(p, d) ==
  [valid |-> p.valid /\ d.valid, backend |-> Either(p.backend, d.backend),
   log_format |-> Either(p.log_format, d.log_format), endpoint |-> p.endpoint \/ d.endpoint,
   jwt |-> IF p.jwt # "none" THEN p.jwt ELSE d.jwt]

(* The file as read with a profile; `valid` is FALSE when it is refused. *)
Load(profile) ==
  IF ~file.present THEN [Nothing EXCEPT !.valid = ~args.config]
  ELSE IF ~file.readable THEN [Nothing EXCEPT !.valid = FALSE]
  ELSE IF profile \in {"unset", "default"} THEN file.default
  ELSE IF profile = "empty" \/ ~file.named THEN [Nothing EXCEPT !.valid = FALSE]
  ELSE Overlay(file.profile, file.default)

(* The command line: LNPL_PROFILE stands in for `--profile`. *)
CliConfig == Load(Either(args.profile, env.profile))

(* build_app: no file unless one is named, and an empty name is none. *)
NotEmpty(x) == IF x = "empty" THEN "unset" ELSE x
AppConfig ==
  IF ~args.config THEN Nothing
  ELSE Load(IF args.profile # "unset" THEN NotEmpty(args.profile) ELSE NotEmpty(env.profile))

---------------------------------------------------------------------------
(* Parts of a launch. *)

(* _resolve_jwt_secret_source, for an environment variable's name and a     *)
(* path as given: which source, "both" when two are given.                  *)
SecretSource(cfg, name, path) ==
  CASE name # "unset" /\ path # "unset" -> "both"
    [] name # "unset" /\ path = "unset" -> "env given"
    [] name = "unset" /\ path # "unset" -> "file given"
    [] name = "unset" /\ path = "unset" -> cfg.jwt

StateOf(source) == IF source \in {"env given", "file given"} THEN env.given ELSE env.secret

(* HmacTokenProvider: from the environment, from a file, or from a provider *)
(* (_read_secret_file, _build_rotating_token_provider).                     *)
Hmac(source, emptyName, issuer) ==
  IF StateOf(source) # "good" \/ emptyName \/ issuer = "empty" THEN "refused" ELSE source

(* cmd_serve, _token_provider and _token_provider_from_file. *)
CliVerifier(source) ==
  CASE args.token_provider = "unknown"                 -> "refused"
    [] args.token_provider = "registered"              -> "registered"
    [] args.token_provider \in {"unset", "hmac"} ->
         CASE source = "none" -> "none"
           [] source # "none" /\ source # "provider" /\ env.shadowed -> "refused"
           [] OTHER -> Hmac(source, \/ source = "env given" /\ args.jwt_secret_env = "empty"
                                    \/ source = "file given" /\ args.jwt_secret_file = "empty",
                            args.jwt_issuer)

(* build_app and _resolve_token_provider: the name of a variable may be     *)
(* empty, and names none; no package shadows "hmac".                        *)
AppVerifier(source) ==
  CASE args.token_provider = "unknown"                 -> "refused"
    [] args.token_provider = "registered"              -> "registered"
    [] args.token_provider \in {"unset", "hmac"} ->
         IF source = "none" \/ (source = "env given" /\ args.jwt_secret_env = "empty") THEN "none"
         ELSE Hmac(source, FALSE, "unset")

(* Where the URL of a named target comes from: an option, the environment,  *)
(* lnpl.toml (_merge_endpoint_args; _open_endpoints, _resolve_network).     *)
Endpoint(cfg) ==
  CASE doc.targets # "names"                           -> "no names"
    [] doc.targets = "names" /\ args.endpoint          -> "given"
    [] doc.targets = "names" /\ ~args.endpoint /\ env.endpoint -> "env"
    [] OTHER -> IF cfg.endpoint THEN "file" ELSE "refused"

(* A capability's `auth` reads a variable, for the targets there are. *)
AuthMissing == doc.targets = "names" /\ doc.auth /\ ~env.auth

(* `--network`, the fake one unless it says otherwise. *)
CliNetwork(cfg) ==
  CASE args.network = "http" -> IF AuthMissing THEN "refused" ELSE Endpoint(cfg)
    [] args.network # "http" -> IF Opens(args.network) THEN Either(args.network, "fake")
                                                       ELSE "refused"

(* Mutant: a name is resolved without looking at its capability. *)
AppNetworkWithoutAuth(cfg) ==
  CASE args.network \in {"unset", "http"} ->
         IF doc.targets # "names" THEN "fake" ELSE Endpoint(cfg)
    [] args.network \notin {"unset", "http"} ->
         IF Opens(args.network) THEN args.network ELSE "refused"

(* LNPL_NETWORK, the HTTP one unless it says otherwise; _resolve_network    *)
(* leaves the fake one in place when no target is a name.                   *)
AppNetwork(cfg) ==
  CASE args.network \in {"unset", "http"} ->
         IF doc.targets # "names" THEN "fake"
         ELSE IF AuthMissing THEN "refused" ELSE Endpoint(cfg)
    [] args.network \notin {"unset", "http"} ->
         IF Opens(args.network) THEN args.network ELSE "refused"

(* make_wsgi_app: roles are read off verified tokens. *)
RoleUnread(verifier) == doc.role /\ verifier = "none"

---------------------------------------------------------------------------
(* The three verdicts. *)

(* Mutant: a secret's file is only looked for. *)
SecretProblemLenient(cfg) ==
  \/ cfg.jwt \in {"env", "file"} /\ env.secret = "missing"
  \/ cfg.jwt = "provider" /\ env.secret # "good"

(* What cmd_config_check finds wrong with the secret: a variable need only  *)
(* be set, a file and a provider are read.                                  *)
SecretProblem(cfg) ==
  \/ cfg.jwt = "env" /\ env.secret = "missing"
  \/ cfg.jwt \in {"file", "provider"} /\ env.secret # "good"

ConfigCheck ==
  LET cfg == CliConfig
      problems ==
        \/ doc.targets = "names" /\ ~cfg.endpoint /\ ~env.endpoint
        \/ AuthMissing
        \/ SecretProblem(cfg)
        \/ doc.jwt /\ cfg.jwt = "none"
  IN  CASE ~cfg.valid           -> Refused("config")
        [] cfg.valid /\ problems -> Refused("problems")
        [] OTHER                -> [ok |-> TRUE]

(* A chain of checks: the first that fails, else what the server runs with. *)
Verdict(cfg, source, verifier, network, log, appOrder) ==
  LET backend == Either(Either(args.backend, cfg.backend), "fake")
  IN  CASE ~cfg.valid                                 -> Refused("config")
        [] cfg.valid /\ ~Opens(backend)               -> Refused("backend")
        [] cfg.valid /\ Opens(backend) /\ ~appOrder /\ ~Opens(args.cache) -> Refused("cache")
        [] OTHER ->
             IF source = "both" THEN Refused("two secrets")
             ELSE IF verifier = "refused" THEN Refused("secret")
             ELSE IF ~Opens(args.cache) THEN Refused("cache")
             ELSE IF network = "refused" THEN Refused("network")
             ELSE IF ~Opens(log) THEN Refused("log format")
             ELSE IF RoleUnread(verifier) THEN Refused("role")
             ELSE [backend |-> backend, verifier |-> verifier, network |-> network,
                   log_format |-> Either(log, "text"), cache |-> Either(args.cache, "fake")]

Serve ==
  LET cfg == CliConfig
      source == SecretSource(cfg, args.jwt_secret_env, args.jwt_secret_file)
  IN  Verdict(cfg, source, CliVerifier(source), CliNetwork(cfg),
              Either(args.log_format, cfg.log_format), FALSE)

(* The file's log_format and trace_exporter are not applied, only named. *)
BuildApp ==
  LET cfg == AppConfig
      source == SecretSource(cfg, args.jwt_secret_env, NotEmpty(args.jwt_secret_file))
  IN  Verdict(cfg, source, AppVerifier(source), AppNetwork(cfg), args.log_format, TRUE)

RunCheck == checked = NotYet /\ checked' = ConfigCheck /\ UNCHANGED <<situation, served, built>>
RunServe == checked # NotYet /\ served = NotYet /\ served' = Serve
            /\ UNCHANGED <<situation, checked, built>>
RunBuild == served # NotYet /\ built = NotYet /\ built' = BuildApp
            /\ UNCHANGED <<situation, checked, served>>

Next == RunCheck \/ RunServe \/ RunBuild

Spec == Init /\ [][Next]_launchVars

---------------------------------------------------------------------------
(* No option stands in for what lnpl.toml says. *)
NoOverride == args.jwt_secret_env = "unset" /\ args.jwt_secret_file = "unset"
              /\ args.token_provider \in {"unset", "hmac"} /\ ~args.endpoint

(* What `config check` passes, `serve --network http` does not refuse over   *)
(* the file, the endpoints, `auth` or a role, and it verifies the tokens of  *)
(* a document with `security jwt`; over the secret it may, when that is in a *)
(* variable, which need only be set for the check, when a package shadows    *)
(* "hmac", or when the issuer is an empty string.                            *)
CheckedConfigLaunches ==
  NoOverride /\ args.network = "http" /\ checked = [ok |-> TRUE] /\ served # NotYet =>
    IF IsRefused(served)
    THEN \/ served.refused \in {"backend", "cache", "log format"}
         \/ served.refused = "role" /\ ~doc.jwt
         \/ served.refused = "secret"
              /\ (env.secret \in {"empty", "short"} \/ env.shadowed \/ args.jwt_issuer = "empty")
    ELSE doc.jwt => served.verifier # "none"

(* serve and build_app given the same settings.  They come to the same       *)
(* server, or both refuse, except for: the network when none is named or all *)
(* targets are URLs; the file when it is not named; its log format; empty    *)
(* strings; and a package that shadows "hmac".                               *)
SameWords ==
  /\ args.network # "unset" /\ (args.network = "http" => doc.targets # "urls")
  /\ args.config \/ ~file.present
  /\ "empty" \notin {args.jwt_secret_env, args.jwt_secret_file, args.jwt_issuer, args.profile,
                     env.profile}
  /\ ~env.shadowed

(* Without network calls the driver makes no difference. *)
Settings(v) == [v EXCEPT !.log_format = "any",
                         !.network = IF doc.targets = "none" THEN "any" ELSE @]

LaunchesAlike ==
  SameWords /\ built # NotYet =>
    \/ IsRefused(served) /\ IsRefused(built)
    \/ served = Refused("log format") /\ args.log_format = "unset"
    \/ /\ ~IsRefused(served) /\ ~IsRefused(built)
       /\ Settings(served) = Settings(built)

(* A launch that succeeds verifies tokens with the source that was given, or *)
(* with the file's when none was, and only then goes without; a name that is *)
(* empty in LNPL_JWT_SECRET_ENV is the one way to switch the file's off.     *)
SecretsAreHonoured ==
  LET honoured(v, cfg) ==
        ~IsRefused(v) =>
          v.verifier \in {"registered",
                          SecretSource(cfg, args.jwt_secret_env, args.jwt_secret_file)}
  IN  /\ served # NotYet => honoured(served, CliConfig)
      /\ built # NotYet /\ args.jwt_secret_env # "empty" /\ args.jwt_secret_file # "empty" =>
           honoured(built, AppConfig)

EntryPointsAgree == LaunchesAlike /\ SecretsAreHonoured

============================================================================
