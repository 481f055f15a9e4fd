---------------------------- MODULE MCTraversal -----------------------------
(* Instances of Traversal: a folder f, a document d, one of each manager.    *)
EXTENDS Traversal, TLC

CONSTANTS app, f, d, h, p, v, u, bim, sdm, alice, b1, b2, b3

Sym == Permutations({b1, b3})
Roles == [n \in Nodes \cup {NullRes, Handler} |->
            CASE n = app -> "public" [] n \in {d, Handler} -> "protected" [] OTHER -> "unspecified"]
Known == [n \in UserFolders |-> {alice}]
Mapped == <<"/", "f">>
Vh == "_vh_x" :> "x" @@ "_vh_y" :> "y"
Marks == "/" :> <<>> @@ "/x" :> <<"x">> @@ "/x/y" :> <<"x", "y">>

Asks(rule, at, as, rests) ==
    {[rule |-> rule, at |-> at, as |-> as, rest |-> r, method |-> x, auth |-> a, form |-> NoBid] :
        r \in rests, x \in {"GET", "PUT"}, a \in {alice, NoUser}}

Some ==
    Asks("none", <<>>, <<>>, {<<"f">>, <<"f", "d">>, <<"f", "new">>, <<"new", "d">>, <<"f", "index_html">>})
    \cup Asks("base", <<>>, <<>>, {<<"f", "d">>, <<"_ZopeId", b2, "f">>})
    \cup Asks("root", <<"f">>, <<"_vh_x", "_vh_y">>, {<<>>, <<"d">>})
    \cup Asks("root", <<>>, <<"_vh_x">>, {<<"f", "d">>})
    \cup Asks("root", <<"f">>, <<>>, {<<"_ZopeId", b2, "d">>})
    \cup Asks("map", <<"f">>, <<>>, {<<"d">>, <<"new">>})

Odd == {[q EXCEPT !.form = b2] : q \in Asks("none", <<>>, <<>>, {<<"f">>, <<"f", "..", "d">>, <<"f", "_x">>, <<"aq_self">>, <<"p">>})}
All == Some \cup Odd

Conf(ns, auto) == [ns |-> ns, auto |-> auto]
Confs == {Conf(<<"form", "cookies">>, FALSE), Conf(<<"url", "cookies">>, FALSE), Conf(<<"url">>, TRUE)}

Empty(placed) ==
    [place |-> placed, name |-> [n \in Nodes |-> CASE n = u -> "acl_users" [] n = bim -> "browser_id_manager"
                                       [] n = f -> "f" [] n = d -> "d" [] n = p -> "p" [] n = h -> "index_html" [] n = v -> "v" [] n = sdm -> "s" [] OTHER -> ""],
     hooks |-> [c \in Folders |-> [a \in ToSet(Apps) |-> NoId]], groups |-> [c \in Folders |-> NoNode],
     wanted |-> [n \in SdManagers |-> n = sdm], hooked |-> [n \in SdManagers |-> FALSE],
     conf |-> [n \in BidManagers |-> Conf(<<"url", "cookies">>, FALSE)]]

\* Everything is added in some order that does not matter.
Begun(placed) == FoldSet(LAMBDA n, t : AfterAdd(t, n, n), Empty(placed), {n \in Nodes : placed[n] # NoNode})
Placed(c1, c2, c3) ==
    [n \in Nodes |-> CASE n \in {app} -> NoNode [] n = d -> c1 [] n = bim -> c2 [] n = h -> c3 [] OTHER -> app]
Placings == {Placed(f, f, NoNode), Placed(app, app, app), Placed(f, app, app)}
Begin == {Begun(placed) : placed \in Placings}
=============================================================================
