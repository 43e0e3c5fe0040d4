---------------------------- MODULE MCComposeDoc ----------------------------
(* Documents to start from: the page's template, a long-form store app      *)
(* under x-casaos, a two-service app under x-powerlab with short forms.     *)
EXTENDS ComposeDoc

AnyText == STRING

Svc(key, ports, vols, env, labels) ==
    [Blank(key) EXCEPT !.rows = [k \in EntryKinds |-> CASE k = "ports" -> ports [] k = "volumes" -> vols [] OTHER -> <<>>],
                       !.env = env, !.labels = labels]

Template ==
    [EmptyDoc EXCEPT !.name = "my-app",
        !.services = <<Svc("web", <<Short(<<"80", "80">>)>>, <<>>, NoPairs, NoPairs)>>]

Catalog ==
    [EmptyDoc EXCEPT !.name = "app",
        !.ext["x-casaos"] = [on |-> TRUE, port |-> "80", id |-> TRUE, rest |-> TRUE],
        !.services = <<[Svc("web", <<Long("80", "81", TRUE)>>, <<Long("a", "b", TRUE)>>,
                            Pairs("map", <<Pair("a", Bare), Pair("b", "80")>>),
                            Pairs("map", <<Pair("a", "b")>>))
                         EXCEPT !.mem = 512, !.deployRest = TRUE]>>]

Stack ==
    [EmptyDoc EXCEPT !.name = "app",
        !.ext["x-powerlab"] = [on |-> TRUE, port |-> "", id |-> TRUE, rest |-> FALSE],
        !.services = <<[Svc("web", <<Short(<<"a", "80", "81">>), Short(<<"80">>)>>, <<Short(<<"a", "b", "ro">>)>>,
                            Pairs("list", <<Pair("a", "b"), Pair("b", "")>>),
                            Pairs("list", <<Pair("a", "b")>>))
                         EXCEPT !.memLimit = 512],
                       Svc("db", <<Long("82", "82", FALSE)>>, <<>>, Pairs("list", <<Pair("a", Bare)>>), NoPairs)>>]

(* Written by hand: a device as a mapping, labels as a list with a bare one, *)
(* one that is there twice, and one without a key.                           *)
Written ==
    [EmptyDoc EXCEPT !.name = "app",
        !.services = <<[Svc("web", <<>>, <<>>, NoPairs,
                            Pairs("list", <<Pair("a", Bare), Pair("b", "80")>>))
                         EXCEPT !.rows["devices"] = <<Long("a", "b", TRUE)>>]>>]

Repeated ==
    [EmptyDoc EXCEPT !.services =
        <<Svc("web", <<>>, <<>>, NoPairs, Pairs("list", <<Pair("a", "80"), Pair("a", "b")>>))>>]

Unkeyed ==
    [EmptyDoc EXCEPT !.services =
        <<Svc("web", <<>>, <<>>, NoPairs, Pairs("map", <<Pair("", "80"), Pair("a", "b")>>))>>]

Documents == {Template, Catalog, Stack, Written, Repeated, Unkeyed}
=============================================================================
