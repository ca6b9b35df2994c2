------------------------------- MODULE Fronts ---------------------------------
(***************************************************************************)
(* What a request becomes on its way to the service, by the front it comes *)
(* through: HTTP routes (httpapi), MCP tools over HTTP or stdio (mcpapi),  *)
(* and the files of the mounted filesystem (fusefs).                       *)
(*                                                                         *)
(* A request's document is a record with every field a front knows; Unset  *)
(* stands for one that is not there.  Each front makes a command of the    *)
(* document, or refuses it.                                                *)
(***************************************************************************)
EXTENDS Numbers, Authz

MouseOps == {"click", "double_click", "drag", "move", "scroll"}
KeyOps   == {"keypress", "type"}
Commands == MouseOps \cup KeyOps \cup {"screenshot", "status", "wait"}

\* Texts of a button, a key or what is to be typed; "" is empty.
Missing == "missing"

NoCrop   == [is |-> "unset", x |-> Unset, y |-> Unset, w |-> Unset, h |-> Unset]
NullCrop == [NoCrop EXCEPT !.is = "null"]

Blank == [op |-> "status", x |-> Unset, y |-> Unset, scrollX |-> Unset, scrollY |-> Unset,
          text |-> Missing, hasPath |-> FALSE, path |-> <<>>, crop |-> NoCrop,
          ms |-> 0, extra |-> FALSE]

\* The fields that belong to an operation.
FieldsOf(op) ==
  CASE op \in {"click", "double_click"} -> {"x", "y", "text"}
    [] op = "move" -> {"x", "y"}
    [] op = "scroll" -> {"x", "y", "scrollX", "scrollY"}
    [] op = "drag" -> {"hasPath", "path"}
    [] op \in KeyOps -> {"text"}
    [] op = "screenshot" -> {"crop"}
    [] op = "wait" -> {"ms"}
    [] OTHER -> {}

\* What can be a request's document.  Without a path there are no points.
\* A field that belongs to another operation only is one of the extra ones.
IsDocument(d) ==
  /\ d.op \in Commands
  /\ \A f \in DOMAIN Blank \ (FieldsOf(d.op) \cup {"op", "extra"}) : d[f] = Blank[f]
  /\ {d.x, d.y, d.scrollX, d.scrollY, d.crop.x, d.crop.y, d.crop.w, d.crop.h} \subseteq Numerals
  /\ \A i \in DOMAIN d.path : {d.path[i].x, d.path[i].y} \subseteq Numerals
  /\ ~d.hasPath => d.path = <<>>
  /\ d.crop.is \in {"unset", "null", "set"}
  /\ d.text \in STRING /\ d.ms \in Int /\ {d.hasPath, d.extra} \subseteq BOOLEAN

Refused == <<"refused">>

\* The command, when each of the values it is made of could be had.
Made(values, command) ==
  IF \E i \in DOMAIN values : values[i] = Bad THEN Refused ELSE command

PathPoints(path) ==
  [i \in DOMAIN path |-> <<RequiredFloat64(path[i].x), RequiredFloat64(path[i].y)>>]

Drag(path) ==
  LET points == PathPoints(path)
  IN IF \E i \in DOMAIN points : Bad \in {points[i][1], points[i][2]} THEN Refused
     ELSE <<"drag", points>>

Crop(crop) == <<OptionalInt(crop.x), OptionalInt(crop.y), OptionalInt(crop.w), OptionalInt(crop.h)>>

Cropped(crop) == Made(crop, <<"screenshot", crop>>)

------------------------------------------------------------------------------
(* httpapi *)

HttpScreenshot(d) ==
  IF d.crop.is # "set" THEN <<"screenshot", Nil>>
  ELSE Cropped(Crop(d.crop))

\* Both coordinates are required.
HttpPoint(d) == <<RequiredFloat64(d.x), RequiredFloat64(d.y)>>

HttpPointer(d) ==
  LET at == HttpPoint(d)
      by == <<IntOf(d.scrollX), IntOf(d.scrollY)>>
  IN CASE d.op \in {"click", "double_click"} ->
            IF d.text \in {Missing, ""} THEN Refused
            ELSE Made(at, <<d.op, at, d.text>>)
       [] d.op = "move" -> Made(at, <<d.op, at>>)
       [] d.op = "scroll" -> Made(at \o by, <<d.op, at, by>>)
       [] d.op = "drag" -> IF d.hasPath THEN Drag(d.path) ELSE Refused

\* binding:"required" refuses what is empty as well as what is missing.
HttpKeyboard(d) == IF d.text \in {Missing, ""} THEN Refused ELSE <<d.op, d.text>>

\* Fields no struct has are ignored.
Http(d) ==
  CASE d.op = "screenshot" -> HttpScreenshot(d)
    [] d.op \in MouseOps -> HttpPointer(d)
    [] d.op \in KeyOps -> HttpKeyboard(d)
    [] d.op = "status" -> <<"status">>
    [] d.op = "wait" -> Refused

------------------------------------------------------------------------------
(* mcpapi *)

\* The input schemas: required fields are there, no field is null, and
\* there are no others.
Schema(d) ==
  /\ ~d.extra
  /\ Null \notin {d.x, d.y, d.scrollX, d.scrollY, d.crop.x, d.crop.y, d.crop.w, d.crop.h}
  /\ d.crop.is # "null"
  /\ d.op \in MouseOps \ {"drag"} => Unset \notin {d.x, d.y}
  /\ d.op \in {"click", "double_click"} \cup KeyOps => d.text # Missing
  /\ d.op = "drag" => /\ d.hasPath
                      /\ \A i \in DOMAIN d.path : {d.path[i].x, d.path[i].y} \cap {Unset, Null} = {}

McpScreenshot(d) ==
  IF d.crop.is = "unset" THEN <<"screenshot", Nil>>
  ELSE Cropped(Crop(d.crop))

McpPoint(d) == <<RequiredFloat64(d.x), RequiredFloat64(d.y)>>

McpPointer(d) ==
  LET at == McpPoint(d)
      by == <<IntOf(d.scrollX), IntOf(d.scrollY)>>
  IN CASE d.op \in {"click", "double_click"} -> Made(at, <<d.op, at, d.text>>)
       [] d.op = "move" -> Made(at, <<d.op, at>>)
       [] d.op = "scroll" -> Made(at \o by, <<d.op, at, by>>)
       [] d.op = "drag" -> Drag(d.path)

Mcp(d) ==
  CASE ~Schema(d) -> Refused
    [] Schema(d) /\ d.op = "screenshot" -> McpScreenshot(d)
    [] Schema(d) /\ d.op \in MouseOps -> McpPointer(d)
    [] Schema(d) /\ d.op \in KeyOps -> <<d.op, d.text>>
    [] Schema(d) /\ d.op = "wait" -> <<"wait", d.ms>>
    [] OTHER -> <<"status">>

------------------------------------------------------------------------------
(* fusefs *)

\* crop/<x>,<y>,<w>,<h>.png: there is no name with a part left out, and an
\* empty part is no expression.
CropName(crop) ==
  IF \E f \in {"x", "y", "w", "h"} : ~Set(crop[f]) THEN Refused
  ELSE Cropped(Crop(crop))

\* Fault: a coordinate that is not there is 0.
FusePointZero(d) == <<Float64(d.x), Float64(d.y)>>

FusePoint(d) == <<RequiredFloat64(d.x), RequiredFloat64(d.y)>>

\* The files one can write to.  A write of nothing never comes.
FuseInput(d) ==
  LET at == FusePoint(d)
      by == <<IntOf(d.scrollX), IntOf(d.scrollY)>>
      text == IF d.text = Missing THEN "" ELSE d.text
  IN CASE d.op \in KeyOps -> IF text = "" THEN Refused ELSE <<d.op, text>>
       [] d.op \in {"click", "double_click"} -> Made(at, <<d.op, at, text>>)
       [] d.op = "move" -> Made(at, <<d.op, at>>)
       [] d.op = "scroll" -> Made(at \o by, <<d.op, at, by>>)
       [] d.op = "drag" -> Drag(d.path)

Fuse(d) ==
  CASE d.op = "screenshot" -> IF d.crop.is = "set" THEN CropName(d.crop) ELSE <<"screenshot", Nil>>
    [] d.op = "status" -> <<"status">>
    [] d.op = "wait" -> Refused
    [] OTHER -> FuseInput(d)

------------------------------------------------------------------------------
(* The service and the way to it *)

\* What every method of the service asks of its command.
Sound(command) ==
  CASE command[1] = "refused" -> FALSE
    [] command[1] \in {"click", "double_click"} -> command[3] = "left"
    [] command[1] = "drag" -> Len(command[2]) >= 2
    [] command[1] = "scroll" -> command[3] # <<<<0>>, <<0>>>>
    [] command[1] = "keypress" -> command[2] = "enter"
    [] command[1] = "type" -> command[2] # ""
    [] command[1] = "wait" -> command[2] >= 0
    [] OTHER -> TRUE

Of(front, d) ==
  CASE front = "http" -> Http(d)
    [] front \in {"mcp", "stdio"} -> Mcp(d)
    [] front = "fuse" -> Fuse(d)

\* requireScope and requireToolScope.
ScopeOf(op) ==
  CASE op \in MouseOps -> <<"write", "mouse">>
    [] op \in KeyOps -> <<"write", "keyboard">>
    [] op = "screenshot" -> <<"read", "screenshot">>
    [] op = "status" -> <<"read", "status">>
    [] op = "wait" -> <<"read", "wait">>

\* /healthz asks for nothing, and so do stdio and the mounted files.
Passes(front, tokens, bearer, op) ==
  CASE front = "http" /\ op # "status" -> Authorize(tokens, bearer, "http", ScopeOf(op)) = 200
    [] front = "mcp" -> Authorize(tokens, bearer, "mcp", ScopeOf(op)) = 200
    [] OTHER -> TRUE

\* The command that the service executes for a request, or Refused.
IfSound(command) == IF Sound(command) THEN command ELSE Refused

Executed(front, tokens, bearer, d) ==
  IF Passes(front, tokens, bearer, d.op) THEN IfSound(Of(front, d)) ELSE Refused

==============================================================================
