------------------------------- MODULE Pointers --------------------------------
(***************************************************************************)
(* Where a pointer event lands and how far a wheel turns, by input backend *)
(* (kwineis, vnc, freerdp, winlocal, macoslocal).  Coordinates come in     *)
(* halves (Numbers); what EIS and macOS make of them is exact here, counted*)
(* in shares of a pixel.                                                   *)
(***************************************************************************)
EXTENDS Pictures, FiniteSetsExt

CONSTANTS
  Far,      \* the largest uint16
  MaxTurn,  \* WheelRotationMask of RDP: 2^9 - 1
  Finest    \* absoluteMouseCoordinateMax of Windows

ASSUME PointerAssumption ==
  {Far, MaxTurn, Finest} \subseteq Nat /\ Far < Top - 1 /\ MaxTurn < Top

Region(x, y, w, h) == [x |-> x, y |-> y, w |-> w, h |-> h]

\* regionUnion.
RegionUnion(regions) ==
  LET left   == Min({r.x : r \in regions})
      top    == Min({r.y : r \in regions})
      right  == Max({r.x + r.w : r \in regions})
      bottom == Max({r.y + r.h : r \in regions})
  IN IF regions = {} THEN None
     ELSE IF right <= left \/ bottom <= top THEN None
     ELSE Region(left, top, right - left, bottom - top)

Clamp(n, low, high) == IF n < low THEN low ELSE IF n > high THEN high ELSE n

\* Fault: the last pixel is left out of account.
ShareOpen(h, from, length, out) == Clamp(2 * out * from + h * length, 2 * out * from, 2 * out * (from + length))

\* One coordinate on a stretch of the desktop, in shares: 2 * out make a
\* pixel.
Share(h, from, length, out) ==
  Clamp(2 * out * from + h * length, 2 * out * from, 2 * out * (from + length - 1))

\* MapInputPoint of kwineis: out is the size of the output, which may not
\* be known.  MoveMouse refuses what is still negative: a region may be to
\* the left of the origin or above it.
MapInputPoint(at, out, regions) ==
  LET union == RegionUnion(regions) IN
  CASE at[1] < 0 \/ at[2] < 0 -> None
    [] ~(at[1] < 0 \/ at[2] < 0) /\ (out[1] <= 0 \/ out[2] <= 0 \/ union = None) ->
         [x |-> at[1], y |-> at[2], unit |-> <<2, 2>>]
    [] OTHER -> [x |-> Share(at[1], union.x, union.w, out[1]),
                 y |-> Share(at[2], union.y, union.h, out[2]),
                 unit |-> <<2 * out[1], 2 * out[2]>>]

EisPoint(at, out, regions) ==
  LET m == MapInputPoint(at, out, regions)
  IN IF m = None THEN None ELSE IF m.x < 0 \/ m.y < 0 THEN None ELSE m

\* validatePointerPosition of vnc, validateMousePosition of freerdp.
ProtocolPoint(at) ==
  LET x == RoundInt(at[1])
      y == RoundInt(at[2])
  IN IF Bad \in {x, y} THEN None
     ELSE IF x[1] \notin 0..Far \/ y[1] \notin 0..Far THEN None
     ELSE <<x[1], y[1]>>

\* normalizedAbsoluteMouseCoordinate.
NormalizedAbsolute(n, size) == IF size <= 1 THEN 0 ELSE (n * Finest) \div (size - 1)

\* setCursorPos of winlocal, relative to the corner of the virtual screen,
\* and what sendAbsoluteMouseMove asks for should SetCursorPos fail.
WindowsPoint(at, size) ==
  LET x == RoundInt(at[1])
      y == RoundInt(at[2])
  IN IF Bad \in {x, y} THEN None
     ELSE IF x[1] < 0 \/ y[1] < 0 \/ x[1] >= size[1] \/ y[1] >= size[2] THEN None
     ELSE [at |-> <<x[1], y[1]>>,
           absolute |-> <<NormalizedAbsolute(x[1], size[1]), NormalizedAbsolute(y[1], size[2])>>]

\* displayPoint of macoslocal, relative to the display: pixels, of which
\* scale make a point, and the events go to points.
DisplayPoint(at, size) ==
  IF at[1] < 0 \/ at[2] < 0 \/ at[1] >= 2 * size[1] \/ at[2] >= 2 * size[2] THEN None ELSE at

------------------------------------------------------------------------------
(* SendMouseWheel *)

\* Windows, macOS and EIS take an int32.
NarrowTurn(delta) == Narrowed(delta)

\* PTR_FLAGS_WHEEL_NEGATIVE, the highest bit of the mask.
TurnSign == (MaxTurn + 1) \div 2

\* RDP: <<the bits under the mask>>, the sign or-ed with the amount, which
\* may have that bit too.  The least int has no opposite and passes the
\* check, and none of its last bits is set.
RdpTurn(delta) ==
  LET amount == IF delta < 0 THEN Wrapped(-delta) ELSE delta
      low    == IF amount < 0 THEN 0 ELSE amount
  IN IF amount > MaxTurn THEN None
     ELSE <<IF delta < 0 /\ low < TurnSign THEN low + TurnSign ELSE low>>

\* VNC: one turn of a wheel button, whatever the amount.
VncTurn(delta) == IF delta < 0 THEN -1 ELSE 1

==============================================================================
