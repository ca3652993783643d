----------------------------- MODULE MCToolchain -----------------------------
(* What is done with a program before it is served: it is compiled and both  *)
(* its modes are compared (extended), its document is changed by agents, an  *)
(* editor has its diagnostics, and a server is configured and launched       *)
(* (instantiated).  Each works on a document of its own and they have no     *)
(* state in common; a behaviour is one of them.                              *)
EXTENDS TwoModes, TLC

CONSTANTS Document, HandWritten, HandKeys, MaxProposals, MaxTasks, MaxVersion,
          Uris, EditorTexts, Fixable, NoText, MaxSent,
          Documents, Files, Surroundings, Options

VARIABLES which, doc, tasks, proposals, answered, version, applied,
          lspState, literals, documents, toServer, toEditor, sent, held, shown, ready, lspOwed,
          misfits,
          launched, file, env, args, checked, served, built

Agents == INSTANCE AgentProtocol

Lsp == INSTANCE LanguageServer WITH Texts <- EditorTexts, owed <- lspOwed

Launching == INSTANCE Launch WITH doc <- launched

ASSUME ToolchainAssumption ==
  Agents!DocumentAssumption /\ Lsp!LspAssumption /\ Launching!LaunchAssumption

agentVars == <<doc, tasks, proposals, answered, version, applied>>
lspVars == <<lspState, literals, documents, toServer, toEditor, sent, held, shown, ready, lspOwed,
             misfits>>
launchVars == <<launched, file, env, args, checked, served, built>>

FirstSituation ==
    /\ launched = CHOOSE d \in Documents : TRUE
    /\ file = CHOOSE f \in Files : TRUE
    /\ env = CHOOSE e \in Surroundings : TRUE
    /\ args = CHOOSE a \in Options : TRUE

MCInit ==
    /\ which \in {"compile", "agents", "editor", "launch"}
    /\ Init
    /\ which # "compile" => alphabet = CHOOSE a \in Alphabets : TRUE
    /\ Agents!Init /\ Lsp!Init /\ Launching!Init
    /\ which # "launch" => FirstSituation

(* A run starts with what its text reads of the payload: without a presence  *)
(* or a call the other values make the same run again.                       *)
SaysPresence == \E i \in DOMAIN items : \E c \in Range(ConditionsOf(items[i])) : IsPresence(c)
SaysCall == \E s \in SiteSet(items) : s.does.op = "call"

StartsAsRead ==
    status = "none" /\ status' = "running" =>
        /\ SaysPresence \/ ~given'.token
        /\ SaysCall \/ given'.answers

CompileNext ==
    which = "compile" /\ Next /\ StartsAsRead /\ UNCHANGED <<which, agentVars, lspVars, launchVars>>
AgentsNext == which = "agents" /\ Agents!Next /\ UNCHANGED <<which, vars, lspVars, launchVars>>
EditorNext == which = "editor" /\ Lsp!Next /\ UNCHANGED <<which, vars, agentVars, launchVars>>
LaunchNext == which = "launch" /\ Launching!Next /\ UNCHANGED <<which, vars, agentVars, lspVars>>

MCNext == CompileNext \/ AgentsNext \/ EditorNext \/ LaunchNext

allVars == <<which, vars, agentVars, lspVars, launchVars>>

MCSpec == MCInit /\ [][MCNext]_allVars

(* AgentProtocol: every node hangs under an entry node, by one path.         *)
EveryNodeIsReachedOnce == Agents!EveryNodeIsReachedOnce

(* AgentProtocol: an assessed approval loses no reference and, outside its   *)
(* role's rights, only adds some.                                            *)
ApprovalsKeepTheRest == [][Agents!KeepsTheRest]_allVars

(* LanguageServer: what the editor shows is of the text the server has.      *)
EditorAgrees == Lsp!EditorAgrees

(* Launch: a configuration that passes its check launches, and both entry    *)
(* points make the same server of it.                                        *)
CheckedConfigLaunches == Launching!CheckedConfigLaunches
EntryPointsAgree == Launching!EntryPointsAgree

-----------------------------------------------------------------------------
(* Texts.  A text is written with the lines of one theme: few enough that    *)
(* all texts of up to MaxLines lines are tried, and chosen so that what the  *)
(* theme is about happens within them.                                       *)

step(x) == <<"step", x>>
when(c) == <<"when", c>>
or(c) == <<"or", c>>
until(c) == <<"until", c>>
repeat(n) == <<"repeat", n>>
Word(k) == <<k, "">>

(* Results made under guards, and the readers of them.                       *)
Results == {when("input = 1"), or("token exists"), Word("otherwise"), Word("pipeline"),
            step("create as made"), step("emit with made"), step("respond made")}
Concurrent == {when("input = 1"), Word("parallel"), Word("merge"),
               step("create as made"), step("emit with made"), step("respond made")}

(* Events and the operation they are declared on.                            *)
Sourced == {when("e = 1"), repeat("0"), Word("otherwise"),
            step("read"), step("create"), step("emit"), step("set e")}

(* Aggregates and the lists they read.                                       *)
Aggregates == {when("input = 1"), Word("parallel"), Word("merge"), Word("pipeline"),
               step("read"), step("list"), step("set e to sum")}

(* Guards on values: what mode B evaluates once and mode A each time.        *)
Rounds == {when("input = 1"), when("e = 0"), until("e = 1"), repeat("2"),
           step("read"), step("create"), step("set e")}
Presences == {when("token exists"), or("input = 1"), when("token missing"),
              until("token exists"), step("read"), step("update"), step("delete"), step("call")}
Replies == {when("e = 1"), repeat("2"), when("reply = 1"), step("read"), step("set e"),
            step("create"), step("call as reply")}

(* Assignments and calls that read a result.                                 *)
Made == {when("made = 1"), or("e = 1"), Word("otherwise"),
         step("call send made"), step("create as made"), step("set e to reply")}

(* Cached reads and failures.                                                *)
Failing == {when("e = 1"), or("input = 1"), Word("otherwise"), step("read cached"),
            step("cache"), step("fail"), step("create as made")}

Themes == {Results, Concurrent, Sourced, Aggregates, Rounds, Presences, Replies, Made, Failing}

-----------------------------------------------------------------------------
(* A document of a service with a login workflow, and drafts written by hand: *)
(* a cycle of two nodes, a step that loses a call, an edit of its author's    *)
(* rights, the move of a reference to a service that has it already, a second *)
(* reference to a workflow, and the move of one reference for both.           *)
node(kind, children, constraints, content, origin, source) ==
    [kind |-> kind, children |-> children, constraints |-> constraints, content |-> content,
     origin |-> origin, source |-> source]

compiled(kind, children, constraints, content) ==
    node(kind, children, constraints, content, "none", <<"source", 0>>)

d0 == ("svc"   :> compiled("Service", <<"wf">>, <<"pol">>, "accounts")) @@
      ("svc2"  :> compiled("Service", <<>>, <<"pol">>, "billing")) @@
      ("wf"    :> compiled("Workflow", <<"s1">>, <<>>, "login")) @@
      ("s1"    :> compiled("WorkflowStep", <<"a", "b">>, <<>>, "generate token")) @@
      ("a"     :> compiled("RepositoryCall", <<>>, <<>>, "read secret")) @@
      ("b"     :> compiled("RepositoryCall", <<>>, <<>>, "read")) @@
      ("pol"   :> compiled("Policy", <<>>, <<>>, "retry"))

by(role, nodes, move) == [role |-> role, nodes |-> nodes, attach |-> {}, move |-> move]
new(kind, children) == node(kind, children, <<>>, "new", "agent", <<"ir", "wf">>)

byhand == {
    by("Coder", ("x" :> new("WorkflowStep", <<"y">>)) @@ ("y" :> new("Pipeline", <<"x">>)), {}),
    by("Coder", "s1" :> [d0["s1"] EXCEPT !.children = <<"a">>], {}),
    by("Architect", "svc" :> [d0["svc"] EXCEPT !.content = "renamed"], {}),
    by("Architect", "svc" :> [d0["svc"] EXCEPT !.constraints = <<>>],
       {[node |-> "pol", from |-> "svc", to |-> "svc2"]}),
    by("Architect", "svc" :> [d0["svc"] EXCEPT !.constraints = <<"pol", "wf">>], {}),
    by("Architect", ("svc" :> [d0["svc"] EXCEPT !.children = <<>>]) @@
                    ("svc2" :> [d0["svc2"] EXCEPT !.constraints = <<"pol", "wf">>]),
       {[node |-> "wf", from |-> "svc", to |-> "svc2"]})}

-----------------------------------------------------------------------------
(* Situations of a launch: documents that name targets, URLs or no target;   *)
(* files with a default and a named profile; environments; options that      *)
(* differ from the plain ones in one or two.                                 *)
serves(targets, auth, jwt, role) == [targets |-> targets, auth |-> auth, jwt |-> jwt, role |-> role]

MCDocuments ==
    {serves("names", TRUE, TRUE, FALSE), serves("names", FALSE, FALSE, TRUE),
     serves("urls", FALSE, FALSE, FALSE), serves("none", FALSE, TRUE, TRUE),
     serves("none", FALSE, FALSE, FALSE)}

table(valid, backend, log_format, endpoint, jwt) ==
    [valid |-> valid, backend |-> backend, log_format |-> log_format, endpoint |-> endpoint,
     jwt |-> jwt]
plain == table(TRUE, "unset", "unset", FALSE, "none")
toml(default, named, profile_table) ==
    [present |-> TRUE, readable |-> TRUE, default |-> default, named |-> named,
     profile |-> profile_table]

MCFiles ==
    {[toml(plain, FALSE, plain) EXCEPT !.present = FALSE],
     [toml(plain, FALSE, plain) EXCEPT !.readable = FALSE],
     toml(plain, TRUE, table(TRUE, "registered", "unset", TRUE, "provider")),
     toml(table(TRUE, "unset", "unset", TRUE, "env"), TRUE,
          table(FALSE, "unset", "unset", FALSE, "none")),
     toml(table(TRUE, "unknown", "unknown", FALSE, "file"), TRUE,
          table(TRUE, "fake", "unset", FALSE, "none"))}

surrounding(profile, endpoint, auth, secret, given_secret, shadowed) ==
    [profile |-> profile, endpoint |-> endpoint, auth |-> auth, secret |-> secret,
     given |-> given_secret, shadowed |-> shadowed]

SecretStates == {"missing", "unreadable", "empty", "short", "good"}

MCSurroundings ==
    {surrounding(p, e, a, s, "good", FALSE) :
        p \in {"unset", "named"}, e \in BOOLEAN, a \in BOOLEAN, s \in SecretStates}
    \cup {surrounding(p, TRUE, TRUE, "good", g, h) :
             p \in {"empty", "default"}, g \in {"missing", "short", "good"}, h \in BOOLEAN}

base == [config |-> TRUE, profile |-> "unset", jwt_secret_env |-> "unset",
         jwt_secret_file |-> "unset", jwt_issuer |-> "unset", token_provider |-> "unset",
         backend |-> "unset", log_format |-> "unset", cache |-> "unset", network |-> "http",
         endpoint |-> FALSE]

MCOptions ==
    {base, [base EXCEPT !.config = FALSE],
     [base EXCEPT !.endpoint = TRUE, !.token_provider = "hmac"],
     [base EXCEPT !.jwt_secret_env = "set", !.jwt_secret_file = "set"]}
    \cup {[base EXCEPT !.jwt_secret_env = x] : x \in {"set", "empty"}}
    \cup {[base EXCEPT !.jwt_secret_file = x] : x \in {"set", "empty"}}
    \cup {[base EXCEPT !.jwt_issuer = x] : x \in {"set", "empty"}}
    \cup {[base EXCEPT !.profile = x] : x \in {"named", "empty", "default"}}
    \cup {[base EXCEPT !.token_provider = x] : x \in {"registered", "unknown"}}
    \cup {[base EXCEPT !.network = x] : x \in {"unset", "fake", "registered", "unknown"}}
    \cup {[base EXCEPT !.log_format = x, !.backend = "fake"] : x \in {"registered", "unknown"}}
    \cup {[base EXCEPT !.cache = x] : x \in {"registered", "unknown"}}
=============================================================================
