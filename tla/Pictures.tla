------------------------------- MODULE Pictures --------------------------------
(***************************************************************************)
(* What a screenshot of an area shows (control/service.go Screenshot and   *)
(* the ScreenshotCrop of the backends).                                    *)
(*                                                                         *)
(* A crop is <<x, y, w, h>>, each <<n>> or Nil for one left out.  An area  *)
(* is a record of edges, the right and the bottom one outside.  The        *)
(* picture's origin is 0, 0.                                               *)
(***************************************************************************)
EXTENDS Numbers

CONSTANT Narrow  \* bits of an int32

ASSUME NarrowAssumption == Narrow \in 1..Width

\* True of any width: what proofs need to know of ^.
ASSUME PowerAssumption == Top > 0 /\ 2^(Narrow - 1) > 0 /\ 2^Narrow = 2 * 2^(Narrow - 1)

None == <<>>

Edges(left, top, right, bottom) ==
  [left |-> left, top |-> top, right |-> right, bottom |-> bottom]

Whole(size) == Edges(0, 0, size[1], size[2])

Or(n, else) == IF n = Nil THEN else ELSE n[1]

Narrowed(n) == ((n + 2^(Narrow - 1)) % 2^Narrow) - 2^(Narrow - 1)

\* The edges a crop names, where a sum of ints may wrap.
Named(size, crop) ==
  LET left == Or(crop[1], 0)
      top  == Or(crop[2], 0)
  IN Edges(left, top,
           IF crop[3] = Nil THEN size[1] ELSE Wrapped(left + crop[3][1]),
           IF crop[4] = Nil THEN size[2] ELSE Wrapped(top + crop[4][1]))

Within(area, size) ==
  area.left >= 0 /\ area.top >= 0 /\ area.right <= size[1] /\ area.bottom <= size[2]

Empty(area) == area.left >= area.right \/ area.top >= area.bottom

\* image.Rect.
Swapped(area) ==
  Edges(IF area.left <= area.right THEN area.left ELSE area.right,
        IF area.top <= area.bottom THEN area.top ELSE area.bottom,
        IF area.left <= area.right THEN area.right ELSE area.left,
        IF area.top <= area.bottom THEN area.bottom ELSE area.top)

------------------------------------------------------------------------------
\* Fault: a size is compared where an edge is meant.
CropBoundsSize(size, crop) ==
  LET area == Named(size, crop) IN
  IF area.left < 0 \/ area.top < 0 \/ Or(crop[3], 0) > size[1] \/ Or(crop[4], 0) > size[2] \/ Empty(area)
  THEN None ELSE area

\* cropBounds, of a picture of everything.
CropBounds(size, crop) ==
  LET area == Named(size, crop)
  IN IF ~Within(area, size) \/ Empty(area) THEN None ELSE area

\* cropRect of winlocal and macoslocal, and the checks of captureScreen and
\* captureRect.  An empty rectangle is in every other.
CropRect(size, crop) ==
  LET area == Swapped(Named(size, crop))
  IN IF Empty(area) \/ ~Within(area, size) THEN None ELSE area

Complete(crop) == \A i \in 1..4 : crop[i] # Nil

\* What KWin is asked for: int32(x), int32(y), uint32(w), uint32(h).
CaptureArea(crop) ==
  IF crop[3][1] <= 0 \/ crop[4][1] <= 0 THEN None
  ELSE LET left == Narrowed(crop[1][1])
           top  == Narrowed(crop[2][1])
       IN Edges(left, top, left + (crop[3][1] % 2^Narrow), top + (crop[4][1] % 2^Narrow))

\* ErrCroppedOutputUnavailable, or a backend with no ScreenshotCrop: the
\* service takes a picture of everything and cuts it.
Direct(kind, cropped, crop) ==
  \/ kind \in {"windows", "macos"}
  \/ kind = "kwin" /\ Complete(crop)
  \/ kind \in {"command", "ssh"} /\ cropped /\ Complete(crop)

\* The area shown, or None when there is an error.  A screenshot_crop
\* command is given the four numbers and does as it likes.
Shows(kind, cropped, size, crop) ==
  CASE ~Direct(kind, cropped, crop) -> CropBounds(size, crop)
    [] kind \in {"windows", "macos"} -> CropRect(size, crop)
    [] kind = "kwin" /\ Complete(crop) -> CaptureArea(crop)
    [] OTHER -> Edges(crop[1][1], crop[2][1], crop[1][1] + crop[3][1], crop[2][1] + crop[4][1])

==============================================================================
