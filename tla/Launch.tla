-------------------------------- MODULE Launch --------------------------------
(***************************************************************************)
(* A process from its command line on (src/internal/servercmd): the        *)
(* configuration is loaded, completed and validated, and what Serve        *)
(* describes follows.  A configuration that was accepted is forgotten      *)
(* then, except that its two roles name one backend or two (order).        *)
(***************************************************************************)
EXTENDS Serve, Config

CONSTANT Givens  \* what a process may be given: file, environment, flags, build

\* The types of backendConfig and sshConfig: a number is a uint, and what a
\* backend extends is a list of strings.  (An empty environment variable is
\* no variable to viper.)
ASSUME GivenAssumption ==
  \A g \in Givens :
    LET Unsigned(fields) == \A f \in NumberFields \cap DOMAIN fields : fields[f] \in Nat
    IN /\ Unsigned(g.flags.field)
       /\ \A source \in {g.file, g.env} :
            \A name \in DOMAIN source.backend :
              /\ Unsigned(source.backend[name].field)
              /\ source.backend[name].extends \in Seq(STRING)

VARIABLES
  stage,  \* how far the command has come with the configuration
  given,  \* what it was given
  cfg     \* the config it is working on

None == [stage |-> "none"]

configVars == <<stage, given, cfg>>
launchVars == <<allVars, configVars>>

Refuse ==
  /\ stage' = "refused"
  /\ main' = "exited"
  /\ result' = "error"
  /\ given' = None
  /\ cfg' = None

Proceed(next) ==
  /\ stage' = next
  /\ UNCHANGED <<given, main, result>>

\* What no step before startBackends touches.
Untouched == UNCHANGED <<vars, mode, started, server, gaveUp, worldVars>>

\* loadConfig, which fails when the file cannot be read or decoded, and
\* applyChangedFlags.
LoadConfig(ok) ==
  /\ stage = "given"
  /\ IF ok THEN Proceed("loaded") /\ cfg' = Load(given) ELSE Refuse
  /\ Untouched

ResolveBackendExtends ==
  /\ stage = "loaded"
  /\ IF \A name \in DOMAIN cfg.backend : Extendable(cfg.backend[name])
     THEN /\ Proceed("resolved")
          /\ cfg' = [cfg EXCEPT !.backend = [name \in DOMAIN @ |-> Resolve(@[name])]]
     ELSE Refuse
  /\ Untouched

ValidateConfig ==
  /\ stage = "resolved"
  /\ IF Valid(given.build, cfg) /\ (mode = "serve" => ValidServer(cfg.server))
     THEN Proceed("valid") /\ UNCHANGED cfg
     ELSE Refuse
  /\ Untouched

\* On to runServe, runStdioMCP or runFuseMount, which first makes a
\* directory to mount on.
Run(ok) ==
  /\ stage = "valid"
  /\ ok \/ mode = "mount"
  /\ IF ok
     THEN /\ stage' = "running"
          /\ given' = None
          /\ cfg' = None
          /\ UNCHANGED <<main, result>>
     ELSE Refuse
  /\ Untouched

Configure ==
  \/ \E ok \in BOOLEAN : LoadConfig(ok) \/ Run(ok)
  \/ ResolveBackendExtends
  \/ ValidateConfig

LaunchInit ==
  /\ ServeInit
  /\ stage = "given"
  /\ given \in Givens
  /\ mode = "mount" => given.build.os = "linux"
  /\ Len(order) = 1 <=> Shared(Load(given))
  /\ cfg = None

LaunchNext ==
  \/ Configure
  \/ stage = "running" /\ ServeNext /\ UNCHANGED configVars

\* The command's goroutine and the watchers run.  Nothing obliges a request
\* to be answered, a backend to end or a signal to arrive.
LaunchFairness ==
  /\ WF_launchVars(Configure)
  /\ WF_launchVars(/\ stage = "running"
                   /\ Command
                   /\ UNCHANGED <<order, configVars>>)
  /\ \A p \in AllParts :
       WF_launchVars(/\ p \in Parts
                     /\ Made
                     /\ main # "exited"
                     /\ Watch(p)
                     /\ UNCHANGED <<order, serveVars, configVars>>)

LaunchSpec == LaunchInit /\ [][LaunchNext]_launchVars /\ LaunchFairness

------------------------------------------------------------------------------
(* Properties *)

\* The value of field f of the last source in seq that sets it.
LastSet(seq, unset) ==
  LET set == {i \in 1..Len(seq) : seq[i] # unset}
  IN IF set = {} THEN unset ELSE seq[Max(set)]

\* The value a key has in the strongest of the layers that name it.
Strongest(layers, f) ==
  LET naming == {i \in 1..Len(layers) : f \in DOMAIN layers[i]}
  IN IF naming = {} THEN NotSet(f) ELSE layers[Max(naming)][f]

\* A layer of the environment: the variables whose keys are known.
Known(env, known) == [k \in DOMAIN env \cap known |-> env[k]]

\* What is said of a backend outside presets: its defaults, its part of the
\* file, the environment and the flags, the weakest first.
FieldLayers(name) ==
  LET default == IF name = "default" THEN Defaults ELSE <<>>
      file == Says(given.file, name).field
  IN <<default, file, Known(Says(given.env, name).field, DOMAIN file \cup DOMAIN default),
       IF name = "default" THEN given.flags.field ELSE <<>>>>

OwnField(name, f) == Strongest(FieldLayers(name), f)

\* A default that nothing explicit replaces.
ByDefault(name, f) ==
  /\ f \in DOMAIN FieldLayers(name)[1]
  /\ \A i \in 2..4 : f \notin DOMAIN FieldLayers(name)[i]

OwnSpec(name, s) ==
  LET file == Saying(Says(given.file, name).spec, s)
      env == Known(Saying(Says(given.env, name).spec, s), DOMAIN file)
  IN [k \in {"argv", "script", "timeout"} |-> Strongest(<<NoSpec, file, env>>, k)]

\* The presets of a backend, in their order.
Entries(name) ==
  LET layers == <<Says(given.file, name).extends, Says(given.env, name).extends>>
  IN IF layers[1] = <<>> THEN <<>> ELSE LastSet(layers, <<>>)

\* Resolved: presets apply from left to right, and over them what flag,
\* environment or file say of the backend itself, so that each field is that
\* of the last source that sets it, and a command is taken whole, with its
\* argv and its script, from the last source that configures it.  A field
\* that the backend has by default only is what one would expect when no
\* preset sets it; when one does, the code lets the default win, which the
\* documents do not say, and nothing is claimed.
Resolved ==
  stage \in {"resolved", "valid"} =>
    \A name \in DOMAIN cfg.backend :
      LET presets == [i \in 1..Len(Entries(name)) |-> Preset[PresetName(Entries(name)[i])]]
          b == cfg.backend[name]
      IN /\ \A f \in Fields :
              LET values == [i \in 1..Len(presets) |-> presets[i].field[f]]
              IN \/ b.field[f] = LastSet(Append(values, OwnField(name, f)), NotSet(f))
                 \/ ByDefault(name, f) /\ \E i \in 1..Len(values) : values[i] # NotSet(f)
         /\ \A s \in Specs :
              LET specs == Append([i \in 1..Len(presets) |-> presets[i].spec[s]], OwnSpec(name, s))
                  commands == [i \in 1..Len(specs) |->
                                 IF Configured(specs[i]) THEN <<specs[i].argv, specs[i].script>>
                                 ELSE <<<<>>, "">>]
                  times == [i \in 1..Len(specs) |-> specs[i].timeout]
              IN /\ <<b.spec[s].argv, b.spec[s].script>> = LastSet(commands, <<<<>>, "">>)
                 /\ b.spec[s].timeout = LastSet(times, "")

\* ValidatedStarts: what validation has accepted is not refused for its
\* configuration by anything that comes after it: a start function, the SSH
\* client before it looks into a file, the authorizer, or, unless a template
\* of it is malformed, which validation does not look at, a command that a
\* request makes the backend run; and it is started with the ports and the
\* graphics mode it names.
ValidatedStarts ==
  stage = "valid" =>
    /\ \A name \in {InputName(cfg), OutputName(cfg)} :
         LET b == cfg.backend[name]
             roles == RolesOf(cfg, name)
         IN /\ Starts(given.build, b, roles)
            /\ Type(b) = "command" => /\ \A s \in Runs(b, roles) :
                                           WellTemplated(b.spec[s]) => Renders(b.spec[s])
                                      /\ Port(b, "ssh.port", 22) \in {b.field["ssh.port"], 22}
            /\ Port(b, "port", 3389) \in {b.field["port"], 3389}
            /\ Type(b) = "rdp" /\ GraphicsMode(b) = "auto"
                 => Lowered(Trimmed(b.field["graphics_mode"])) \in {"", "auto"}
    /\ mode = "serve" => Accepted(cfg.server.tokens)

==============================================================================
