--------------------------------- MODULE Desk ---------------------------------
(***************************************************************************)
(* A request on its way through a front and the service to a local         *)
(* backend: read and authorized, made a command, and the command's first   *)
(* call begun (Fronts, Pictures, Pointers and LocalBackend put together).  *)
(* The calls that follow in the same command are those of Control, and     *)
(* here any caller's.                                                      *)
(*                                                                         *)
(* A request comes only to a backend that is as it was started, with       *)
(* nothing missing; the code in front of it does not look at its state.    *)
(***************************************************************************)
EXTENDS LocalBackend, Fronts, Pointers

CONSTANTS
  Requests, \* the requests that come: the front each comes through, the tokens
            \* of the server and the request's bearer (its account), its document
  Picture,  \* width and height of the output
  Layouts   \* sets of regions an EIS server announces

ASSUME RequestAssumption ==
  \A r \in Requests :
    /\ r.front \in {"http", "mcp", "stdio", "fuse"}
    /\ r.account.tokens \in Tokens /\ r.account.bearer \in STRING
    /\ IsDocument(r.document)

\* There is something to see, and ints count it.
ASSUME PictureAssumption == Picture \in (1..(Top - 1)) \X (1..(Top - 1))

\* What a device has for regions: any offsets, and sizes from 0 up.
ASSUME LayoutAssumption ==
  \A regions \in Layouts :
    IsFiniteSet(regions) /\ regions \subseteq [x : Int, y : Int, w : Nat, h : Nat]

VARIABLE asked  \* the request being looked at, or None

deskVars == <<vars, asked>>

Fresh ==
  /\ link \in {"none", "up"} /\ granted = Grants
  /\ \A s \in Sides : status[s] = Side(TRUE, TRUE, FALSE)
  /\ ~runErr /\ ~shut /\ once = "fresh" /\ told = <<"mixed">>
  /\ \A c \in Callers : call[c] = Idle

Receive ==
  /\ asked = None
  /\ Fresh
  /\ asked' \in Requests
  /\ UNCHANGED vars

CommandOf(r) == Executed(r.front, r.account.tokens, r.account.bearer, r.document)

HasCrop(command) == command[1] = "screenshot" /\ command[2] # Nil

\* The first call a command makes of the backend.  A crop the backend does
\* not take leaves no mark, and a whole picture is asked for.
FirstCall(command) ==
  CASE command[1] \in MouseOps -> "mouse"
    [] command[1] \in KeyOps -> "key"
    [] command[1] = "screenshot" ->
         IF /\ kind \in {"command", "ssh", "kwin"}
            /\ HasCrop(command)
            /\ Direct(kind, "crop" \in opts, command[2])
         THEN "crop" ELSE "shot"
    [] OTHER -> "none"

\* An input command of a backend for output only goes to another backend.
Examine(c) ==
  /\ asked # None
  /\ asked' = None
  /\ LET op == FirstCall(CommandOf(asked)) IN
     IF op \in Asked THEN Begin(c, op) ELSE UNCHANGED vars

DeskInit == Init /\ asked = None

DeskNext ==
  \/ Receive
  \/ \E c \in Callers : Examine(c)
  \/ asked = None /\ Next /\ UNCHANGED asked

DeskFairness ==
  \A c \in Callers :
    /\ WF_deskVars(asked = None /\ Work(c) /\ UNCHANGED asked)
    /\ WF_deskVars(asked = None /\ TimeOut(c) /\ UNCHANGED asked)

DeskSpec == DeskInit /\ [][DeskNext]_deskVars /\ DeskFairness

------------------------------------------------------------------------------
(* Properties of the request looked at *)

Documented(command) ==
  CASE command[1] \in {"click", "double_click", "drag", "move", "scroll"} -> {<<"write", "mouse">>, <<"write", "*">>}
    [] command[1] \in {"keypress", "type"} -> {<<"write", "keyboard">>, <<"write", "*">>}
    [] OTHER -> {<<"read", command[1]>>, <<"read", "*">>}

HasGrant(r, front, command) ==
  \E i \in DOMAIN r.account.tokens :
    LET token == r.account.tokens[i] IN
    /\ r.account.bearer # "" /\ Trimmed(token.value) = r.account.bearer
    /\ token.audiences = <<>> \/ Contains(token.audiences, front)
    /\ (Documented(command) \cup {<<"*">>}) \cap ToSet(token.scopes) # {}

Ambiguous(tokens) ==
  \E i, j \in DOMAIN tokens : i # j /\ Trimmed(tokens[i].value) = Trimmed(tokens[j].value)

Guarded(front, command) == front = "mcp" \/ (front = "http" /\ command # <<"status">>)

ExecutedAsGranted(r, tokens, understood, command) ==
  /\ command # Refused => HasGrant(r, r.front, command)
  /\ ~Ambiguous(tokens) /\ Sound(understood) /\ HasGrant(r, r.front, understood)
       => command # Refused

\* AuthorizedOnly: a command that comes over HTTP, as a REST request or as
\* a call of an MCP tool, is executed only when a token of the right
\* audience has the scope that the documentation gives for what it does;
\* and who shows such a token is let through, unless another token has the
\* same value and comes first.  (docs/configuration.md, Current scopes;
\* authz.go and the routes and tools that name their scopes.)
AuthorizedOnly ==
  asked # None =>
    LET r == asked
        tokens == r.account.tokens
    IN tokens # <<>> /\ Accepted(tokens) /\ Guarded(r.front, Of(r.front, r.document)) =>
         ExecutedAsGranted(r, tokens, Of(r.front, r.document), CommandOf(r))

Anyone(front, d) == Executed(front, <<>>, NoBearer, d)

Strange(d) ==
  \/ d.extra
  \/ d.crop.is = "null"
  \/ Null \in {d.x, d.y, d.scrollX, d.scrollY, d.crop.x, d.crop.y, d.crop.w, d.crop.h}

AllAgree(d, http, fuse, mcp, stdio) ==
  /\ fuse # http => fuse = Refused /\ d.crop.is = "set" /\ ~Complete(Crop(d.crop))
  /\ mcp # http => mcp = Refused /\ Strange(d)
  /\ stdio = mcp

\* FrontsAgree: the fronts that a document can be sent through make the
\* same command of it.  MCP may refuse what the others take, but only a
\* document with a null or a field of its own; a file name cannot leave out
\* a part of a crop; wait is a tool only.
FrontsAgree ==
  asked # None /\ asked.document.op # "wait" =>
    AllAgree(asked.document, Anyone("http", asked.document), Anyone("fuse", asked.document),
             Anyone("mcp", asked.document), Anyone("stdio", asked.document))

Meant(crop) ==
  LET left == Or(crop[1], 0)
      top  == Or(crop[2], 0)
  IN Edges(left, top,
           IF crop[3] = Nil THEN Picture[1] ELSE left + crop[3][1],
           IF crop[4] = Nil THEN Picture[2] ELSE top + crop[4][1])

\* An int32 holds it.
Fits(n) == n \in (-(2^(Narrow - 1)))..(2^(Narrow - 1) - 1)

AreaOf(meant) == IF kind \in {"windows", "macos"} THEN Swapped(meant) ELSE meant

Served(area, shown) == shown = (IF Within(area, Picture) /\ ~Empty(area) THEN area ELSE None)

CropServed(crop, area, shown) ==
  CASE kind = "kwin" /\ Complete(crop) ->
         (\A i \in 1..4 : Fits(crop[i][1])) => shown = (IF Empty(area) THEN None ELSE area)
    [] kind \in {"command", "ssh"} /\ Direct(kind, "crop" \in opts, crop) -> TRUE
    [] OTHER -> Served(area, shown)

CropIsServed(crop) ==
  CropServed(crop, AreaOf(Meant(crop)), Shows(kind, "crop" \in opts, Picture, crop))

ShotIsServed(command) == HasCrop(command) => CropIsServed(command[2])

\* CropsServed: the area a screenshot shows lies in the picture and is the
\* one asked for, one of positive size, however large the numbers; one that
\* is not is refused.  Windows and macOS also take a size below zero, to
\* the other side of the corner.  KWin is asked for the area modulo 32 bits
\* and decides.  (service.go cropBounds, cropRect of the backends)
CropsServed == asked # None => ShotIsServed(CommandOf(asked))

\* Between the first pixel of the output and the last.
OnOutput(at) == \A i \in 1..2 : at[i] \in 0..(2 * (Picture[i] - 1))

LandsOnRegions(at) ==
  \A regions \in Layouts :
    LET m == EisPoint(at, Picture, regions)
        union == RegionUnion(regions)
        corner == EisPoint(<<0, 0>>, Picture, regions)
    IN /\ m # None /\ union # None =>
            /\ m.x \div m.unit[1] \in union.x..(union.x + union.w - 1)
            /\ m.y \div m.unit[2] \in union.y..(union.y + union.h - 1)
            /\ corner # None => corner.x <= m.x /\ corner.y <= m.y
            /\ union = Region(0, 0, Picture[1], Picture[2]) /\ OnOutput(at) =>
                 m.x * 2 = at[1] * m.unit[1] /\ m.y * 2 = at[2] * m.unit[2]
       /\ union # None /\ OnOutput(at) => m # None \/ union.x < 0 \/ union.y < 0

LandsOnScreen(at) ==
  LET w == WindowsPoint(at, Picture)
      m == DisplayPoint(at, Picture)
      p == ProtocolPoint(at)
  IN /\ w # None => \A i \in 1..2 : /\ w.at[i] \in 0..(Picture[i] - 1)
                                    /\ Abs(2 * w.at[i] - at[i]) <= 1
                                    /\ w.absolute[i] \in 0..Finest
     /\ m # None => \A i \in 1..2 : m[i] \div 2 \in 0..(Picture[i] - 1)
     /\ p # None => \A i \in 1..2 : p[i] \in 0..Far /\ Abs(2 * p[i] - at[i]) <= 1
     /\ OnOutput(at) => /\ w # None /\ m # None
                        /\ (\A i \in 1..2 : Picture[i] <= Far) => p # None

\* The bits of an RDP wheel event, read as what SendMouseWheel puts there.
TurnOf(bits) == IF bits < TurnSign THEN bits ELSE TurnSign - bits

TurnsAsAsked(delta) ==
  LET turn == RdpTurn(delta) IN
  delta # 0 =>
    /\ Abs(delta) < TurnSign => turn # None /\ TurnOf(turn[1]) = delta
    /\ Abs(delta) > MaxTurn /\ delta # -Top => turn = None
    /\ VncTurn(delta) = (IF delta > 0 THEN 1 ELSE -1)
    /\ NarrowTurn(delta) = delta <=> Fits(delta)

Points(command) ==
  CASE command[1] = "drag" -> {<<p[1][1], p[2][1]>> : p \in ToSet(command[2])}
    [] command[1] \in MouseOps \ {"drag"} -> {<<command[2][1][1], command[2][2][1]>>}
    [] OTHER -> {}

PointerServed(command) ==
  /\ \A at \in Points(command) : LandsOnRegions(at) /\ LandsOnScreen(at)
  /\ command[1] = "scroll" => \A i \in 1..2 : TurnsAsAsked(command[3][i][1])

\* PointsLand: on Windows and macOS a pointer event lands inside the output,
\* and with EIS inside the union of the regions, if there are any, or it is
\* refused; a mapped point keeps its place between the others.  RDP and VNC
\* send the pixel that was asked for whether or not the output has it, and
\* refuse only what no uint16 holds.  A point of the output is not refused,
\* but by RDP and VNC past the uint16s and by EIS for a union that begins to
\* the left of the origin or above it.
\*
\* A wheel turns as it was asked to on Windows, on macOS and with EIS, but
\* for a delta no int32 holds, which is cut to one and may turn the other
\* way or not at all.  Over RDP a delta past the mask is refused and one
\* below the sign bit is sent as it is; from the sign bit up the amount and
\* the sign share that bit, and of the least int only the sign is left.
\* Over VNC the wheel makes one step in the direction asked for.
\* (MapInputPoint, setCursorPos, displayPoint, validateMousePosition,
\* validatePointerPosition, SendMouseWheel)
PointsLand == asked # None => PointerServed(CommandOf(asked))

==============================================================================
