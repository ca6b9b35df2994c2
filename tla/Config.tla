-------------------------------- MODULE Config --------------------------------
(***************************************************************************)
(* The configuration of a process (src/internal/servercmd/command.go): it  *)
(* is read from defaults, a file and the environment, overridden by flags, *)
(* completed with presets, validated, and taken apart again by whatever    *)
(* starts the backends.  No operator here has a state; Launch runs them in *)
(* the order of the commands.                                              *)
(*                                                                         *)
(* A value is a string, a number or a switch, as it is in the code, and "" *)
(* or 0 or FALSE means that it is not set.  White space, letter case and   *)
(* what is wrong with a template are those of a few sample strings         *)
(* (Trimmed, Lowered, Malformed).  Numbers stay below 2^31, so that of the *)
(* ranges only that of a port can be left.                                 *)
(***************************************************************************)
EXTENDS Integers, Sequences, SequencesExt, Authz

\* A build is for a platform and includes some of the native backends.
Builds ==
  {[os |-> os, included |-> types] :
     os \in {"linux", "windows", "darwin"}, types \in SUBSET {"rdp", "vnc", "kwin", "eis"}}

Lowered(s) == CASE s = "RDP" -> "rdp" [] s = "Bitmap" -> "bitmap" [] OTHER -> s

------------------------------------------------------------------------------
(* The types: config, backendConfig, commandConfig, sshConfig *)

TextFields == {"type", "host", "username", "password", "domain", "graphics_mode",
               "timeout", "ssh.host", "ssh.username", "ssh.password", "ssh.key",
               "ssh.passphrase", "ssh.known_hosts", "ssh.timeout"}
NumberFields == {"port", "width", "height", "keyboard_layout", "ssh.port"}
Switches == {"insecure", "shared", "view_only", "ssh.ignore_host_key"}
Fields == TextFields \cup NumberFields \cup Switches

NotSet(f) == CASE f \in TextFields   -> ""
               [] f \in NumberFields -> 0
               [] f \in Switches     -> FALSE

InputSpecs == {"move_mouse", "mouse_button", "mouse_wheel", "key", "type_text"}
Specs == InputSpecs \cup {"screenshot", "screenshot_crop", "key_scancode"}

NoSpec == [argv |-> <<>>, script |-> "", timeout |-> ""]

\* The entries of over, and those of base under other keys.
Over(over, base) ==
  [k \in DOMAIN over \cup DOMAIN base |-> IF k \in DOMAIN over THEN over[k] ELSE base[k]]

\* What is said of a command that need not be mentioned.
Saying(specs, s) == IF s \in DOMAIN specs THEN specs[s] ELSE <<>>

\* A backend of which some fields, and some keys of some commands, are given.
Backend(extends, fields, specs) ==
  [extends |-> extends,
   field   |-> Over(fields, [f \in Fields |-> NotSet(f)]),
   spec    |-> [s \in Specs |-> Over(Saying(specs, s), NoSpec)]]

------------------------------------------------------------------------------
(* loadConfig and applyChangedFlags *)

\* setDefaults: the only backend that has defaults is the one named so, and
\* they see to it that there is one.
Defaults ==
  [type |-> "rdp", width |-> 1280, height |-> 720, keyboard_layout |-> 1033,
   graphics_mode |-> "auto", shared |-> TRUE]
DefaultsOf(name) == IF name = "default" THEN Defaults ELSE <<>>
RoleDefaults == [input |-> "default", output |-> "default"]

\* What viper unmarshals: the environment is asked for the keys, of any
\* backend, that a default or the file names, and for no others.
Loaded(defaults, file, env) ==
  [k \in DOMAIN defaults \cup DOMAIN file |->
     Over(env, Over(file, defaults))[k]]

\* The keys that a source, the file or the environment, names of a backend.
Says(source, name) ==
  IF name \in DOMAIN source.backend THEN source.backend[name]
  ELSE [extends |-> <<>>, field |-> <<>>, spec |-> <<>>]

\* applyChangedFlags: the flags are about the backend named "default".
FlagsOf(given, name) == IF name = "default" THEN given.flags.field ELSE <<>>

LoadBackend(given, name) ==
  LET file == Says(given.file, name)
      env  == Says(given.env, name)
  IN Backend(IF file.extends # <<>> /\ env.extends # <<>> THEN env.extends ELSE file.extends,
             Over(FlagsOf(given, name), Loaded(DefaultsOf(name), file.field, env.field)),
             [s \in DOMAIN file.spec |-> Loaded(<<>>, file.spec[s], Saying(env.spec, s))])

Load(given) ==
  LET roles == Over(given.flags.role, Loaded(RoleDefaults, given.file.role, given.env.role))
  IN [input   |-> roles.input,
      output  |-> roles.output,
      backend |-> [name \in DOMAIN given.file.backend \cup {"default"} |-> LoadBackend(given, name)],
      server  |-> given.server]

------------------------------------------------------------------------------
(* resolveBackendExtends and the merge operators *)

\* presets/*.yaml
Preset ==
  [n \in {"command-base", "input-ydotool", "screenshot-spectacle"} |->
     CASE n = "command-base" ->
            Backend(<<>>, [type |-> "command", timeout |-> "30s"], <<>>)
       [] n = "input-ydotool" ->
            Backend(<<>>, <<>>, [s \in InputSpecs |-> [argv |-> <<"ydotool", s>>]])
       [] n = "screenshot-spectacle" ->
            Backend(<<>>, <<>>, [screenshot |-> [script |-> "spectacle"]])]

\* parsePresetExtend: the prefix may be left out.
PresetName(entry) ==
  CASE entry = "preset:" -> ""
    [] entry = "preset:command-base" -> "command-base"
    [] OTHER -> Trimmed(entry)

\* An entry that is empty, that names no preset, or that looks like a path.
Extendable(b) == \A i \in 1..Len(b.extends) : PresetName(b.extends[i]) \in DOMAIN Preset

Configured(spec) == spec.argv # <<>> \/ Trimmed(spec.script) # ""

\* Fault: argv and script are taken over one by one, as other fields are.
MergeSpecFields(base, over) ==
  [argv    |-> IF over.argv # <<>> THEN over.argv ELSE base.argv,
   script  |-> IF over.script # "" THEN over.script ELSE base.script,
   timeout |-> IF over.timeout # "" THEN over.timeout ELSE base.timeout]

\* mergeCommandSpecConfig: argv and script replace what was there together.
MergeSpec(base, over) ==
  [argv    |-> IF Configured(over) THEN over.argv ELSE base.argv,
   script  |-> IF Configured(over) THEN over.script ELSE base.script,
   timeout |-> IF over.timeout # "" THEN over.timeout ELSE base.timeout]

Merge(base, over) ==
  [extends |-> <<>>,
   field   |-> [f \in Fields |->
                  IF over.field[f] # NotSet(f) THEN over.field[f] ELSE base.field[f]],
   spec    |-> [s \in Specs |-> MergeSpec(base.spec[s], over.spec[s])]]

\* What the first presets of b come to, for any number of them.
Extension(b) ==
  LET merged[n \in 0..Len(b.extends)] ==
        IF n = 0 THEN Backend(<<>>, <<>>, <<>>)
        ELSE Merge(merged[n - 1], Preset[PresetName(b.extends[n])])
  IN merged

Resolve(b) == Merge(Extension(b)[Len(b.extends)], b)

------------------------------------------------------------------------------
(* validateConfig *)

Type(b) == Lowered(Trimmed(b.field["type"]))

\* time.ParseDuration: also a negative duration is one.
Parses(duration) == duration \in {"", "30s", "-1s"}

BackendTypes == {"rdp", "vnc", "command", "kwin", "eis", "windows", "macos"}

\* validateBackendPlatform and backendTypeIncluded.
Supported(build, type) ==
  /\ type \in BackendTypes
  /\ type = "windows" => build.os = "windows"
  /\ type = "macos" => build.os = "darwin"
  /\ type \in {"kwin", "eis"} => build.os = "linux"
  /\ type \in {"rdp", "vnc", "kwin", "eis"} => type \in build.included

PortOK(port) == port < 65536

Sized(b) == b.field["width"] # 0 /\ b.field["height"] # 0

HasSSH(b) ==
  \/ \E f \in {"ssh.host", "ssh.username"} : Trimmed(b.field[f]) # ""
  \/ \E f \in {"ssh.password", "ssh.key", "ssh.passphrase", "ssh.known_hosts",
               "ssh.ignore_host_key", "ssh.port", "ssh.timeout"} : b.field[f] # NotSet(f)

\* Fault: nothing is required of the host key.
ValidSSHUnknown(b) ==
  HasSSH(b) =>
    /\ Trimmed(b.field["ssh.host"]) # "" /\ Trimmed(b.field["ssh.username"]) # ""
    /\ PortOK(b.field["ssh.port"])
    /\ b.field["ssh.password"] # "" \/ b.field["ssh.key"] # ""

ValidSSH(b) ==
  HasSSH(b) =>
    /\ Trimmed(b.field["ssh.host"]) # "" /\ Trimmed(b.field["ssh.username"]) # ""
    /\ PortOK(b.field["ssh.port"])
    /\ b.field["ssh.password"] # "" \/ b.field["ssh.key"] # ""
    /\ b.field["ssh.ignore_host_key"] \/ b.field["ssh.known_hosts"] # ""

ValidCommand(b, roles) ==
  /\ "output" \in roles => Configured(b.spec["screenshot"])
  /\ "input" \in roles => \A s \in InputSpecs : Configured(b.spec[s])
  /\ Parses(b.field["timeout"]) /\ Parses(b.field["ssh.timeout"])
  /\ \A s \in Specs :
       /\ b.spec[s].argv = <<>> \/ Trimmed(b.spec[s].script) = ""
       /\ Parses(b.spec[s].timeout)
  /\ ValidSSH(b)

ValidBackend(build, b, roles) ==
  /\ Supported(build, Type(b))
  /\ PortOK(b.field["port"])
  /\ CASE Type(b) = "rdp" ->
            /\ \A f \in {"host", "username", "password"} : Trimmed(b.field[f]) # ""
            /\ Sized(b)
            /\ Lowered(Trimmed(b.field["graphics_mode"])) \in
                 {"", "auto", "avc", "h264", "gfx", "graphics", "bitmap", "legacy"}
       [] Type(b) = "vnc" ->
            /\ Trimmed(b.field["host"]) # ""
            /\ Sized(b)
            /\ ~("input" \in roles /\ b.field["view_only"])
       [] Type(b) = "command" -> ValidCommand(b, roles)
       [] Type(b) = "kwin" -> "input" \notin roles
       [] Type(b) = "eis" -> "output" \notin roles
       [] OTHER -> TRUE

InputName(cfg)  == Trimmed(cfg.input)
OutputName(cfg) == Trimmed(cfg.output)
Shared(cfg)     == InputName(cfg) = OutputName(cfg)

RolesOf(cfg, name) ==
  {r \in {"input", "output"} : name = IF r = "input" THEN InputName(cfg) ELSE OutputName(cfg)}

Valid(build, cfg) ==
  \A name \in {InputName(cfg), OutputName(cfg)} :
    /\ name # ""
    /\ name \in DOMAIN cfg.backend
    /\ ValidBackend(build, cfg.backend[name], RolesOf(cfg, name))

\* validateServeConfig, of the serve command only.
ValidServer(server) ==
  /\ Trimmed(server.listen_addr) # ""
  /\ server.enable_mcp_api => server.mcp_path \in {"/mcp"} \* begins with /
  /\ Accepted(server.tokens)

------------------------------------------------------------------------------
(* What startBackends makes of a validated configuration *)

\* normalizeGraphicsMode: a mode it does not know is taken for "auto".
GraphicsMode(b) ==
  LET mode == Lowered(Trimmed(b.field["graphics_mode"]))
  IN CASE mode \in {"avc", "h264"} -> "avc"
       [] mode \in {"gfx", "graphics"} -> "gfx"
       [] mode \in {"bitmap", "legacy"} -> "bitmap"
       [] OTHER -> "auto"

\* uint16 of a port, and what stands for 0.
Port(b, f, standard) == IF b.field[f] = 0 THEN standard ELSE b.field[f] % 65536

\* newSSHClient up to the connection, but for what is in the key file and
\* the file of known hosts.
DialsSSH(b) ==
  HasSSH(b) =>
    /\ Parses(b.field["ssh.timeout"])
    /\ Trimmed(b.field["ssh.host"]) # "" /\ Trimmed(b.field["ssh.username"]) # ""
    /\ b.field["ssh.password"] # "" \/ b.field["ssh.key"] # ""
    /\ b.field["ssh.ignore_host_key"] \/ b.field["ssh.known_hosts"] # ""

\* renderTemplate: of the sample texts one does not parse, and one asks for
\* what no command is given.
Malformed == {"{{", "{{.none}}"}
WellTemplated(spec) ==
  Malformed \cap (IF spec.argv # <<>> THEN ToSet(spec.argv) ELSE {spec.script}) = {}

\* renderCommand, which a request calls before the backend runs anything.
Renders(spec) ==
  /\ spec.argv = <<>> \/ Trimmed(spec.script) = ""
  /\ Configured(spec)
  /\ WellTemplated(spec)

\* startSessionBackend, startOutputBackend or startInputBackend, and the
\* start function of the backend, as far as the configuration decides.
Starts(build, b, roles) ==
  CASE Type(b) = "rdp"     -> /\ "rdp" \in build.included
                              /\ \A f \in {"host", "username", "password"} : b.field[f] # ""
    [] Type(b) = "vnc"     -> "vnc" \in build.included /\ Trimmed(b.field["host"]) # "" /\ Sized(b)
    [] Type(b) = "command" -> Parses(b.field["timeout"]) /\ DialsSSH(b)
    [] Type(b) = "kwin"    -> build.os = "linux" /\ "kwin" \in build.included /\ roles = {"output"}
    [] Type(b) = "eis"     -> build.os = "linux" /\ "eis" \in build.included /\ roles = {"input"}
    [] Type(b) = "windows" -> build.os = "windows"
    [] Type(b) = "macos"   -> build.os = "darwin"
    [] OTHER               -> FALSE

\* The commands a request can make the backend run.
Runs(b, roles) ==
  (IF "output" \in roles THEN {"screenshot"} ELSE {})
    \cup (IF "input" \in roles THEN InputSpecs ELSE {})
    \cup {s \in {"screenshot_crop", "key_scancode"} : Configured(b.spec[s])}

==============================================================================
