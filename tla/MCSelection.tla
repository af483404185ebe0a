---------------------------- MODULE MCSelection ------------------------------
(***************************************************************************)
(* Instances of Selection: a repository src/r with the directories a, a/b  *)
(* and the link l to a, its linked worktree src/w, a link ln to it from    *)
(* outside, and a name, d, that two repository roots know.                 *)
(***************************************************************************)
EXTENDS Selection, TLC

CONSTANTS p1, p2

r == <<"src", "r">>
a == <<"src", "r", "a">>
b == <<"src", "r", "a", "b">>
l == <<"src", "r", "l">>
n == <<"src", "n">>

Dir == [kind |-> "dir", to |-> NULL]
Link(path) == [kind |-> "link", to |-> path]

Layout ==
  (r :> [kind |-> "main", to |-> NULL]) @@ (l :> Link(a))
  @@ (<<"src", "w">> :> [kind |-> "linked", to |-> r])
  @@ (<<"ln">> :> Link(r))
  @@ [p \in {<<"src">>, <<"alt">>, a, b, <<"src", "d">>, <<"alt", "d">>} |-> Dir]
  @@ [p \in {n, Append(n, "a"), n \o <<"a", "b">>, Append(n, "l")} |-> Nothing]

Places == DOMAIN Layout
Files == {Layout}
Known == {<<"src">>, <<"alt">>}

\* Nothing; or sessions bound below one directory, to it by both its names, and
\* to the whole repository.
Before ==
  {[w \in {} |-> NULL],
   (<<r, "u">> :> <<"a", "b">>) @@ (<<r, "s">> :> <<"a">>)
     @@ (<<r, "t">> :> <<"l">>) @@ (<<r, "">> :> <<>>)}

Arguments == {<<>>, <<"r", "s">>, <<"w">>, <<"d">>, <<"r", "?">>}
Shells == {b, <<"ln", "a">>, <<"src", "w">>}
Given2 == {[abs |-> FALSE, parts |-> <<"..", "l">>], [abs |-> TRUE, parts |-> <<"src">>]}

\* A bound directory goes, or leads out of the repository or elsewhere in it.
Replacements == {<<a, Link(<<"src", "w">>)>>, <<b, Nothing>>, <<l, Link(b)>>}
Renames == {<<r, n>>}
Either == Permutations(Process)
=============================================================================
