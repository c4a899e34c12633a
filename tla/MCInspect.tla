------------------------------- MODULE MCInspect -------------------------------
(***************************************************************************)
(* An instance of Inspect and of Planner.  Both read one snapshot and share    *)
(* nothing else: one reads a repository of declarations here, the other one of  *)
(* commands.                                                               *)
(***************************************************************************)
EXTENDS Inspect, Planner

Item(key, form, name, scheme, port, path) ==
  [key |-> key, form |-> form, name |-> name, scheme |-> scheme, port |-> port, path |-> path]
Url(host, port, path) == Item({}, "url", host, "https", port, path)
UrlOf(variable) == Item({"endpoint"}, "url", variable, "https", 0, "")
Bare(variable) == Item({"endpoint"}, "placeholder", variable, "", 0, "")
NamedBy(variable) == Item({"endpoint_env", "credential_env"}, "name", variable, "", 0, "")
Credential(variable) == Item({"credential_env"}, "name", variable, "", 0, "")
Read(variable, scheme, path) == Item({"endpoint"}, "read", variable, scheme, 0, path)
ReadSecret(variable) == Item({"credential_env"}, "read", variable, "", 0, "")

Nothing == [mappings |-> <<>>, lines |-> <<>>, reads |-> <<>>, services |-> <<>>, kind |-> "none", packages |-> <<>>]
In(section, name, version) == [section |-> section, name |-> name, version |-> version]
ManifestOf(kind, packages) == [Nothing EXCEPT !.kind = kind, !.packages = packages]

\* Hosts: 1 api, 2 db, 3 a placeholder, 4 a registry; variables: 11 an address,
\* 12 and 13 credentials.
Config ==
  {[Nothing EXCEPT !.mappings = <<<<Url(1, 0, "")>>, <<Url(2, 5432, ""), Credential(12)>>>>],
   [Nothing EXCEPT !.mappings = <<<<Credential(12)>>, <<Url(1, 8443, "/v1"), Credential(13), Url(3, 0, "")>>>>],
   [Nothing EXCEPT !.mappings = <<<<UrlOf(11), Url(4, 0, "/simple")>>>>],
   [Nothing EXCEPT !.mappings = <<<<NamedBy(11)>>, <<Url(3, 80, ""), Credential(13), Item({}, "url", 2, "file", 0, "")>>>>],
   [Nothing EXCEPT !.lines = <<Bare(11), Credential(12), Url(1, 0, "/v1"), Url(3, 80, "")>>]}
Sources == {[Nothing EXCEPT !.reads = <<Read(11, "https", "/v1"), ReadSecret(13)>>],
            [Nothing EXCEPT !.reads = <<Read(11, "", ""), Read(12, "https", "")>>]}
Compose ==
  {[Nothing EXCEPT !.services = <<[name |-> 2, ports |-> <<5432, 1>>], [name |-> 1, ports |-> <<>>]>>],
   [Nothing EXCEPT !.services = <<[name |-> 2, ports |-> <<>>]>>, !.mappings = <<<<UrlOf(11)>>>>]}
Manifests ==
  {ManifestOf("Cargo.toml", <<In("dependencies", "q", 1), In("dev", "p", 0), In("build", "r", 0)>>),
   ManifestOf("Cargo.toml", <<In("dependencies", "p", 1)>>),
   ManifestOf("Cargo.lock", <<In("package", "p", 1), In("package", "p", 2), In("package", "q", 1)>>),
   ManifestOf("requirements.txt", <<In("dev", "p", 0)>>),
   ManifestOf("pyproject.toml", <<In("project", "p", 1), In("poetry", "q", 0)>>),
   ManifestOf("poetry.lock", <<In("package", "p", 1), In("package", "q", 2)>>)}
Catalog == Config \cup Sources \cup Compose \cup Manifests

MCRepositories == UNION {[paths -> Catalog] : paths \in {{}, {1}, {1, 2}, {1, 2, 3}}}
MCDefaultPort == [scheme \in {"", "https"} |-> IF scheme = "https" THEN 443 ELSE 0]

Plain == [verbs |-> {}, suites |-> {}, dangerous |-> FALSE, forced |-> FALSE, builtin |-> FALSE,
          launches |-> NoFile]
MCTrait ==
  [pytest  |-> [Plain EXCEPT !.verbs = {"test"}, !.suites = {"runner"}],
   lint    |-> [Plain EXCEPT !.verbs = {"test", "build"}, !.suites = {"linter"}],
   tests   |-> [Plain EXCEPT !.forced = TRUE, !.launches = "run.sh"],
   pip     |-> [Plain EXCEPT !.verbs = {"install", "test"}, !.suites = {"runner"}],
   setup   |-> [Plain EXCEPT !.verbs = {"install"}, !.forced = TRUE],
   publish |-> [Plain EXCEPT !.verbs = {"install"}, !.dangerous = TRUE],
   cd      |-> [Plain EXCEPT !.builtin = TRUE]]
MCScript == {<<"lint", "test">>, <<"tests", "test">>, <<"cd", "start">>}
MCTarget == {<<"setup", "install">>, <<"pytest", "test">>}
MCRecipe ==
  <<[names |-> {"Makefile"}, extension |-> {}, make |-> TRUE, offers |-> <<<<"setup", "install">>>>],
    [names |-> {"setup.py"}, extension |-> {"run.sh"}, make |-> FALSE,
     offers |-> <<<<"pip", "install">>, <<"pytest", "test">>>>]>>

\* At rest: nothing was declared, and nothing is begun.
IdleInspect == InspectInit /\ repository = <<>>
IdlePlanner == PlannerInit /\ snapshot = {}
=============================================================================
