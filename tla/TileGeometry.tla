---------------------------- MODULE TileGeometry ----------------------------
(***************************************************************************)
(* The arithmetic of image_helper.cpp between a Web-Mercator coordinate,   *)
(* the map pixel it falls on, the grid cell that pixel belongs to and the  *)
(* canvas the source image is pasted on before it is cut.                  *)
(*                                                                         *)
(* Coordinates are integers in a unit of the map's choosing, z stands for  *)
(* 2^scaleLevel, and divisions round down as the casts to int of the code  *)
(* do on the coordinates it accepts, which are never negative.  Pixel rows *)
(* count northwards, rows of an image count downwards.                     *)
(***************************************************************************)
EXTENDS Integers

CONSTANTS
  Base,      \* pixels along the side of a grid cell, 256; 0xFF is Base - 1
  World,     \* kMercatorLong, half the extent of the map
  McBound    \* MC_BOUND, about twice kMercatorLong

ASSUME GeometryAssumption ==
  /\ Base \in Nat \ {0} /\ Base % 2 = 0
  /\ World \in Nat \ {0}
  /\ McBound \in Nat \ {0}

(* The coordinates getGridCoord accepts. *)
LegalMc(c) == 0 <= c /\ c < McBound

(* mercator2Pixel: coord / res + pix / 2. *)
ToPixel(z, c) == (c * Base * z) \div (2 * World) + (Base * z) \div 2

(* The cell of a pixel, and getGridCoord. *)
CellOf(pixel) == pixel \div Base
GridOf(z, c)  == CellOf(ToPixel(z, c))

-----------------------------------------------------------------------------
(* The slips the checks try. *)
BadPasteTop(py) == py % Base

(* The arguments left and top of FreeImage_Paste in fillSrcImage: the place *)
(* of the image's north-west pixel inside its cell.                         *)
PasteLeft(px) == px % Base
PasteTop(py)  == Base - (py % Base)

(* FreeImage_Paste refuses an image that does not fit at that place. *)
Fits(canvas, left, top, width, height) ==
  /\ left + width <= canvas.w
  /\ top + height <= canvas.h

(* A rectangle of the map, by its west and its north edge and its size.     *)
Area(left, top, w, h) == [left |-> left, top |-> top, w |-> w, h |-> h]

(* What a canvas shows whose point (left, top) lies at pixel (px, py), and  *)
(* what is cut out of it at column x and row y.                             *)
CanvasArea(px, py, canvas) ==
  Area(px - PasteLeft(px), py + PasteTop(py), canvas.w, canvas.h)

CutArea(area, x, y, w, h) == Area(area.left + x, area.top - y, w, h)

(* The rectangle of a grid cell. *)
CellArea(gx, gy) == Area(gx * Base, (gy + 1) * Base, Base, Base)
=============================================================================
