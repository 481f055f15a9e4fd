-------------------------------- MODULE Trees --------------------------------
(***************************************************************************)
(* A tree of objects as a page shows it: ZTUtils/Tree.py, SimpleTree.py    *)
(* and cookieTree of ZTUtils/Zope.py.  What is expanded is encoded in a    *)
(* cookie; a link names the node to expand or collapse by its id and by    *)
(* the number of an expanded node in the cookie.  Several windows of a     *)
(* browser share the cookie, and objects come and go between requests.     *)
(*                                                                         *)
(* A node is its path, a sequence of ids that are numbers; siblings are in *)
(* the order of their ids.  The nested mapping of what is expanded is the  *)
(* set of the paths in it.                                                 *)
(***************************************************************************)
EXTENDS Integers, Sequences, FiniteSets, FiniteSetsExt, SequencesExt

CONSTANTS Sites,      \* sets of nodes, with their parents
          Windows

VARIABLES site, cookie, page    \* page: window -> the links that it shows

tvars == <<site, cookie, page>>

Top == <<1>>
NoCookie == <<>>
NoLink == [op |-> "none", number |-> 0, id |-> 0]

RECURSIVE Precedes(_, _)
Precedes(p, q) ==
    IF p = <<>> \/ q = <<>> THEN Len(p) < Len(q)
    ELSE p[1] < q[1] \/ (p[1] = q[1] /\ Precedes(Tail(p), Tail(q)))

-----------------------------------------------------------------------------
(* TreeMaker.tree: the nodes that are open, of an expansion                  *)

HasChildren(tree, p) == \E q \in tree : Len(q) = Len(p) + 1 /\ IsStrictPrefix(p, q)
Wanted(expanded, p) == p \in expanded \/ p = Top          \* _expand_root

Shown(tree, expanded) ==
    {p \in tree : \A n \in 1 .. Len(p) - 1 : Wanted(expanded, SubSeq(p, 1, n))}
Open(tree, expanded) ==
    {p \in Shown(tree, expanded) : HasChildren(tree, p) /\ Wanted(expanded, p)}

\* flat, less the nodes that are not open
OpenRows(tree, expanded) == SetToSortSeq(Open(tree, expanded), Precedes)

-----------------------------------------------------------------------------
(* The cookie: ids, and between them how many levels to go up and one        *)

Up(n) == [up |-> n, id |-> 0]
Id(n) == [up |-> 0, id |-> n]

encodeExpansion(rows) ==
    FoldLeft(LAMBDA acc, p :
                LET dd == acc.depth - Len(p) + 1
                IN  [depth |-> Len(p), steps |-> acc.steps \o (IF dd > 0 THEN <<Up(dd)>> ELSE <<>>) \o <<Id(Last(p))>>],
             [depth |-> 0, steps |-> <<>>], rows).steps

\* One step of decodeExpansion.  m is where the innermost mapping is, stack those around it.
DecodeStep(d, step) ==
    IF step.up > 0 THEN [d EXCEPT !.pop = step.up - 1]
    ELSE LET here == Append(d.m, d.obid)
             inner == IF d.pop < 0 THEN here ELSE d.m
             stack == IF d.pop < 0 THEN Append(d.stack, d.m) ELSE d.stack
             m == IF d.pop > 0 THEN stack[Len(stack) - d.pop + 1] ELSE inner
         IN  [map |-> IF d.pop < 0 \/ d.map # {} THEN d.map \cup {here} ELSE d.map,
              m |-> m,
              stack |-> IF d.pop > 0 THEN SubSeq(stack, 1, Len(stack) - d.pop) ELSE stack,
              obid |-> step.id, pop |-> -1, nth |-> d.nth - 1,
              found |-> IF d.nth = 0 THEN Append(m, step.id) ELSE d.found]

\* The mapping, and where its nth key is, if there are so many
decodeExpansion(s, nth) ==
    LET d == FoldLeft(DecodeStep, [map |-> {}, m |-> <<>>, stack |-> <<>>, obid |-> 0, pop |-> 0,
                                   nth |-> nth, found |-> <<>>], s)
    IN  [map |-> d.map \cup {Append(d.m, d.obid)}, found |-> d.found]

-----------------------------------------------------------------------------
(* SimpleTreeNode.branch: the links of the nodes that are not leaves          *)

\* Mutated: the rows are counted from one.
NumberFromOne(rows, p) == CHOOSE i \in DOMAIN rows : rows[i] = p

NumberOf(rows, p) == (CHOOSE i \in DOMAIN rows : rows[i] = p) - 1

LinkOf(tree, expanded, p) ==
    LET rows == OpenRows(tree, expanded)
    IN  IF p \in Open(tree, expanded) THEN [op |-> "c", number |-> NumberOf(rows, p), id |-> Last(p)]
        ELSE [op |-> "e", number |-> NumberOf(rows, Front(p)), id |-> Last(p)]

Links(tree, expanded) ==
    {LinkOf(tree, expanded, p) : p \in {q \in Shown(tree, expanded) : HasChildren(tree, q)}}

\* What is expanded after a request with this link
Expansion(s, link) ==
    IF s = NoCookie THEN {}                                \* default_state
    ELSE LET d == decodeExpansion(s, link.number)
         IN  CASE link.op = "none" \/ d.found = <<>> -> d.map
               [] link.op = "e" /\ d.found # <<>> -> d.map \cup {Append(d.found, link.id)}
               [] link.op = "c" /\ d.found # <<>> ->
                    IF Len(d.found) > 1 /\ Last(d.found) = link.id
                    THEN {p \in d.map : ~IsPrefix(d.found, p)} ELSE d.map

\* cookieTree
CookieTree(w, link) ==
    LET expanded == Expansion(cookie, link)
    IN  /\ cookie' = encodeExpansion(OpenRows(site, expanded))
        /\ page' = [page EXCEPT ![w] = Links(site, expanded)]
        /\ UNCHANGED site

SiteChanges ==
    /\ site' \in Sites \ {site}
    /\ UNCHANGED <<cookie, page>>

TInit == /\ site \in Sites /\ cookie = NoCookie /\ page = [w \in Windows |-> {}]

TNext == \/ \E w \in Windows : \E link \in page[w] \cup {NoLink} : CookieTree(w, link)
         \/ SiteChanges

TSpec == TInit /\ [][TNext]_tvars

-----------------------------------------------------------------------------
(* Properties *)

Now == Expansion(cookie, NoLink)
Under(p) == {q \in site : IsPrefix(p, q)}

\* Whatever was expanded and collapsed before, in whichever window and on whichever site: a
\* link that the page would show now toggles its node and nothing else, but for the root,
\* which stays open; and a link of an old page touches no node but one of its id and what
\* is below such a node.
ClicksToggle ==
    /\ \A p \in Shown(site, Now) : HasChildren(site, p) =>
          LET current == encodeExpansion(OpenRows(site, Now))
              open == Open(site, Now)
          IN  Open(site, Expansion(current, LinkOf(site, Now, p)))
                = IF p = Top THEN open ELSE IF p \in open THEN open \ Under(p) ELSE open \cup {p}
    /\ \A w \in Windows : \A link \in page[w] :
          \A p \in SymDiff(Open(site, Expansion(cookie, link)), Open(site, Now)) : link.id \in ToSet(p)
=============================================================================
