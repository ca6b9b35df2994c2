------------------------------- MODULE MCServe --------------------------------
(***************************************************************************)
(* The three commands with two backends, or one that is both, and two      *)
(* requests, after a configuration of every type of backend.  Files differ *)
(* from a complete one in a field or two.                                  *)
(***************************************************************************)
EXTENDS Launch

MCOrders == {<<"output", "input">>, <<"both">>}

Full(os) == [os |-> os, included |-> {"rdp", "vnc", "kwin", "eis"}]

Argv(s)   == [argv |-> <<s>>]
Script(s) == [script |-> s]

In(extends, field, spec) == [extends |-> extends, field |-> field, spec |-> spec]

GoodServer == [listen_addr |-> "127.0.0.1:4243", mcp_path |-> "/mcp",
               enable_mcp_api |-> TRUE, tokens |-> <<>>]

G(input, output, backend, env, flags, srv, build) ==
  [file   |-> [role |-> [input |-> input, output |-> output],
               backend |-> backend],
   env    |-> [role |-> <<>>, backend |-> env],
   flags  |-> [role |-> <<>>, field |-> flags],
   server |-> srv,
   build  |-> build]

One(in) == G("a", "a", ("a" :> in), <<>>, <<>>, GoodServer, Full("linux"))
Two(out, in) == G("b", "a", ("a" :> out) @@ ("b" :> in), <<>>, <<>>, GoodServer, Full("linux"))

Rdp == [type |-> "RDP", host |-> "h", username |-> "u", password |-> "p",
        width |-> 1280, height |-> 720]
Vnc == [type |-> "vnc", host |-> "h", width |-> 1280, height |-> 720]
Ssh == ("ssh.host" :> "h") @@ ("ssh.username" :> "u") @@ ("ssh.password" :> "p")
         @@ ("ssh.known_hosts" :> "k")

\* One field of a remote desktop set to another value.
Variants(fields) ==
  {(k :> v) @@ fields : k \in {"host", "username", "password"}, v \in {"", " "}}
    \cup {(k :> v) @@ fields : k \in {"width", "height"}, v \in {0}}
    \cup {("port" :> v) @@ fields : v \in {5900, 65536}}
    \cup {("graphics_mode" :> v) @@ fields : v \in {"Bitmap", "gfx", "h264", "best"}}
    \cup {("view_only" :> TRUE) @@ fields}

Remotes == {One(In(<<>>, f, <<>>)) : f \in Variants(Rdp) \cup Variants(Vnc)}
             \cup {Two(In(<<>>, f, <<>>), In(<<>>, Vnc, <<>>)) : f \in Variants(Vnc)}

\* Presets in several orders, own commands over them, and time-outs.
Extends == {<<>>, <<"command-base">>,
            <<"preset:command-base", "input-ydotool", "screenshot-spectacle">>,
            <<"screenshot-spectacle", "command-base", "input-ydotool">>,
            <<"../x">>, <<"preset:">>, <<" ">>}
Shots == {<<>>, Argv("grim"), Script("grim -"), Script(" "), Argv("{{"), Script("{{.none}}"),
          [argv |-> <<"grim">>, script |-> "grim -"], [timeout |-> "30s"], [timeout |-> "soon"]}
Links == {<<>>, Ssh}
           \cup {(k :> "") @@ Ssh : k \in DOMAIN Ssh}
           \cup {("ssh.known_hosts" :> "") @@ ("ssh.ignore_host_key" :> TRUE) @@ Ssh,
                 ("ssh.port" :> 22) @@ Ssh, ("ssh.port" :> 70000) @@ Ssh,
                 ("ssh.timeout" :> "soon") @@ Ssh, ("ssh.port" :> 22),
                 ("timeout" :> "-1s"), ("timeout" :> "soon")}

Commands ==
  {One(In(e, ("type" :> t) @@ l, ("screenshot" :> s))) :
     e \in Extends, t \in {"", "command"}, s \in Shots, l \in Links}

\* The default backend, by file, environment and flags.
DefaultOnly(in, env, flags) ==
  [G("default", "default", ("default" :> in), env, flags, GoodServer, Full("linux"))
     EXCEPT !.file.role = <<>>]

ByEnv(extends, field, spec) == ("default" :> In(extends, field, spec))

DefaultBackends ==
  {DefaultOnly(In(e, f, <<>>), env, flags) :
     e \in {<<>>, <<"command-base">>},
     f \in {<<>>, [host |-> "h", username |-> "u"], [type |-> "vnc", host |-> "h"]},
     env \in {<<>>, ByEnv(<<>>, [host |-> "e", type |-> "rdp"], <<>>),
              ByEnv(<<"input-ydotool">>, [width |-> 800, password |-> "p"],
                    [screenshot |-> Argv("grim")])},
     flags \in {<<>>, [host |-> "f", password |-> "p"], [type |-> "command", shared |-> FALSE]}}

\* A backend of another name, and variables for keys that its file names or
\* does not name.
Environments ==
  {[One(In(e, [type |-> "command"] @@ f, ("screenshot" :> s)))
      EXCEPT !.env.backend = ("a" :> env)] :
     e \in {<<>>, <<"input-ydotool">>},
     f \in {<<>>, [timeout |-> "30s"]},
     s \in {Argv("grim"), Script("grim -")},
     env \in {In(<<>>, [type |-> "vnc", timeout |-> "-1s"], <<>>),
              In(<<"input-ydotool", "screenshot-spectacle">>, [type |-> "command"], <<>>),
              In(<<>>, <<>>, ("screenshot" :> [script |-> "shot", timeout |-> "30s"])
                               @@ ("move_mouse" :> Argv("m")))}}

\* Local backends in builds that have them or not, and roles they cannot play.
Locals ==
  {G("b", "a", ("a" :> In(<<>>, [type |-> o], <<>>)) @@ ("b" :> In(<<>>, [type |-> i], <<>>)),
     <<>>, <<>>, GoodServer, build) :
     o, i \in {"kwin", "eis", "windows", "macos", "x11"},
     build \in {Full("linux"), Full("windows"), Full("darwin"),
                [os |-> "linux", included |-> {"rdp", "eis"}]}}
    \cup {G("a", "a", ("a" :> In(<<>>, [type |-> t], <<>>)), <<>>, <<>>, GoodServer, Full(os)) :
            t \in {"kwin", "eis", "windows", "macos", ""}, os \in {"linux", "windows", "darwin"}}

\* Names, from the file, the environment and the flags, and the server.
Others ==
  {[One(In(<<>>, Vnc, <<>>)) EXCEPT !.env.role = env, !.flags.role = flags] :
     env \in {<<>>, [input |-> "b"]}, flags \in {<<>>, [input |-> "a"], [output |-> "default"]}}
    \cup
  {G(i, o, ("a" :> In(<<>>, Vnc, <<>>)), <<>>, <<>>, GoodServer, Full("linux")) :
     i, o \in {"a", " ", "b"}}
    \cup {G("a", "a", ("a" :> In(<<>>, Vnc, <<>>)), <<>>, <<>>, srv, Full("linux")) :
            srv \in {[GoodServer EXCEPT !.listen_addr = " "],
                        [GoodServer EXCEPT !.mcp_path = "mcp"],
                        [GoodServer EXCEPT !.tokens = <<Token("t", <<>>, <<<<"read">>>>)>>],
                        [GoodServer EXCEPT !.tokens = <<Token(" ", <<>>, <<>>)>>],
                        [GoodServer EXCEPT !.tokens = <<Token("t", <<"http">>, <<ScopeAll>>)>>]}}

MCGivens == Remotes \cup Commands \cup DefaultBackends \cup Environments \cup Locals \cup Others

==============================================================================
