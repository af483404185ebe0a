-------------------------- MODULE MCConfiguration ----------------------------
(***************************************************************************)
(* Instances of Configuration: layers that state few keys each, chosen so  *)
(* that every rule can be broken by one layer, by two layers together, and *)
(* mended by a later one.                                                  *)
(***************************************************************************)
EXTENDS Configuration

None == [cwd |-> NULL, location |-> NULL, focus |-> NULL]
Mode(k, v) == [NoMode EXCEPT ![k] = v]
Window(n, mode, scalars, panes) ==
  [name |-> n, mode |-> mode, scalars |-> scalars, panes |-> panes]
Pane(n, mode) == [name |-> n, mode |-> mode, focus |-> NULL]

Agent(n) == Window(n, Mode("agent", "claude"), None, NULL)
Shell(n) == Window(n, Mode("shell", TRUE), [None EXCEPT !["focus"] = TRUE], <<>>)
Off(n) == Window(n, Mode("shell", FALSE), None, NULL)
Inside(n) == Window(n, NoMode, [None EXCEPT !["location"] = "container"], NULL)
Moved(n) ==
  Window(n, NoMode, [None EXCEPT !["focus"] = TRUE, !["cwd"] = "../up"], NULL)
Both(n) == Window(n, [Mode("command", "empty") EXCEPT !["agent"] = "claude"], None, NULL)
Paned(n, panes) == Window(n, NoMode, None, panes)
Two == <<Pane("p", Mode("shell", TRUE)), Pane("p", NoMode)>>

Layouts ==
  {<<>>, <<Agent("a")>>, <<Agent("a"), Shell("b")>>, <<Shell("b"), Inside("a")>>,
   <<Off("a")>>, <<Moved("a")>>, <<Both("a")>>, <<Agent("b"), Shell("b")>>, <<Paned("a", Two)>>,
   <<Paned("a", <<>>), Agent("3")>>}

Keys(f, v) == [NoScalars EXCEPT ![f] = v]
Version1 == Keys("version", 1)
NoContainers == [Version1 EXCEPT !["devcontainer.enabled"] = "false"]

Layer(scalars, windows) == [roots |-> NULL, scalars |-> scalars, windows |-> windows]
Plain == {Layer(NoScalars, w) : w \in Layouts}
Odd ==
  {Layer(k, <<>>) : k \in {Version1, Keys("version", 2), Keys("environment.=", "x"),
                           Keys("devcontainer.start_timeout", "0s"),
                           Keys("devcontainer.enabled", "auto")}}

Defaults ==
  {Layer(k, w) : k \in {Version1, NoContainers}, w \in Layouts}
  \cup Odd \cup {[EmptyLayer EXCEPT !.roots = "roots"]}
Overlays == Plain \cup Odd \cup {Layer(Version1, <<Agent("a")>>), [EmptyLayer EXCEPT !.roots = "more"]}
=============================================================================
