----------------------------- MODULE WaterMark -----------------------------
(***************************************************************************)
(* The watermark (water_mark.c): thirteen icons are read from files, and   *)
(* the time is stamped into a picture as a row of nineteen of them, icon by*)
(* icon, line by line and pixel by pixel, with pointers that only ever move*)
(* forward.  The program has the calls of it compiled out; the client here *)
(* calls waterMarkInit once, waterMarkShowTime as often as it likes if that*)
(* went well, or watermark_blending, which waterMarkShowTime could be built*)
(* with, and waterMarkExit in the end.                                     *)
(*                                                                         *)
(* A pointer is its distance from the start of its plane.  Of the pixels   *)
(* only samples are followed: what a step stores, before it is cut to a    *)
(* byte.  All icons have one size.                                         *)
(***************************************************************************)
EXTENDS Integers, Sequences

CONSTANTS BgWidth, BgHeight,  \* bgInfo: mwidth, mheight
          IconSizes,          \* <<width, height>> of the icons, in pixels
          Samples,            \* bytes of pictures and icons
          Times               \* what localtime() returns

\* What localtime() gives for the present: four digits are shown of the year.
Clock == [year : 0..9999, mon : 1..12, mday : 1..31,
          hour : 0..23, min : 0..59, sec : 0..60]

ASSUME WaterMarkAssumption ==
  /\ BgWidth \in Nat \ {0}
  /\ BgHeight \in Nat \ {0}
  /\ IconSizes \subseteq (Nat \ {0}) \X (Nat \ {0})
  /\ Samples \subseteq 0..255
  /\ Times \subseteq Clock

srcNum == 13
PosX == 32
PosY == 32
Number == 19

VARIABLES
  fgWidth, fgHeight,  \* srcInfo: the size of the icons
  phase,    \* "init", "convert", "failed", "ready", "bright", "blend" or
            \* "exited"
  loaded,   \* the icons in memory
  id_list,  \* what is shown, from the left
  now,      \* and the time it stands for
  shown,    \* the place in id_list
  adjusting,  \* the brightness of the background is looked at
  i, j,     \* line and column in the icon
  bright,   \* the lines that are bright; then, whether most of them are
  bg_y_p, bg_c_p,    \* in the picture
  fg_y, fg_c, alph,  \* in the icon, where the conversion has dest_y and dest_c
  stored    \* a byte that the last step has stored

icon == <<fgWidth, fgHeight>>
pointers == <<bg_y_p, bg_c_p, fg_y, fg_c, alph>>
stamp == <<id_list, now, shown, adjusting>>
vars == <<icon, phase, loaded, stamp, i, j, bright, pointers, stored>>

Init ==
  /\ \E size \in IconSizes : fgWidth = size[1] /\ fgHeight = size[2]
  /\ phase = "init"
  /\ loaded = {}
  /\ id_list = <<>>
  /\ now \in Times
  /\ shown = 0
  /\ adjusting = TRUE
  /\ i = 0
  /\ j = 0
  /\ bright = 0
  /\ bg_y_p = 0
  /\ bg_c_p = 0
  /\ fg_y = 0
  /\ fg_c = 0
  /\ alph = 0
  /\ stored = 0

(***************************************************************************)
(* Faulty variants.                                                        *)
(***************************************************************************)

\* The pointer into the chroma plane goes on at the end of every line.
EndOfLine_ChromaToo ==
  /\ phase = "blend"
  /\ i < fgHeight
  /\ j = fgWidth
  /\ i' = i + 1
  /\ j' = 0
  /\ bg_y_p' = bg_y_p + BgWidth - fgWidth
  /\ bg_c_p' = bg_c_p + BgWidth - fgWidth
  /\ UNCHANGED <<icon, phase, loaded, stamp, bright, fg_y, fg_c, alph, stored>>

\* The rows of the planes are counted alike.
ChromaStart_AllRows(k) == PosY * BgWidth + PosX + fgWidth * k

\* The first of two digits is cut off as that of four.
TwoDigits_Hundreds(n) == <<n \div 100, n % 10>>

\* The weights of the two do not add up to 256.
Blend_Heavy(bg, fg, a) == (256 * bg + fg * a) \div 256

\* The left edge of the icon, and where it begins in the planes.
left == PosX + fgWidth * shown
LumaStart(k) == PosY * BgWidth + PosX + fgWidth * k
ChromaStart(k) == (PosY \div 2) * BgWidth + PosX + fgWidth * k

(***************************************************************************)
(* Pixels.                                                                 *)
(***************************************************************************)
Quotient(a, b) == IF a >= 0 THEN a \div b ELSE -((-a) \div b)

\* argb2yuv420sp.
Luma(r, g, b) == (299 * r + 587 * g + 114 * b) \div 1000
Cb(r, g, b) == 128 + Quotient(564 * (b - Luma(r, g, b)), 1000)
Cr(r, g, b) == 128 + Quotient(713 * (r - Luma(r, g, b)), 1000)

\* yuv420sp_blending; on a bright background the luma of the icon is inverted.
Blend(bg, fg, a) == ((256 - a) * bg + fg * a) \div 256

\* data_convert.
TwoDigits(n) == <<n \div 10, n % 10>>
FourDigits(n) ==
  <<n \div 1000, (n % 1000) \div 100, (n % 100) \div 10, n % 10>>

(***************************************************************************)
(* waterMarkInit and waterMarkExit.                                        *)
(***************************************************************************)

\* The file of the next icon is read.
LoadIcon ==
  /\ phase = "init"
  /\ phase' = "convert"
  /\ fg_y' = 0
  /\ fg_c' = 0
  /\ alph' = 0
  /\ i' = 0
  /\ j' = 0
  /\ UNCHANGED <<icon, loaded, stamp, bright, bg_y_p, bg_c_p, stored>>

\* argb2yuv420sp: luma on every line; on every other one chroma, Cb and Cr in
\* turns.
ConvertPixel ==
  /\ phase = "convert"
  /\ i < fgHeight
  /\ j < fgWidth
  /\ \E r, g, b \in Samples :
       \/ stored' = Luma(r, g, b)
       \/ /\ i % 2 = 0
          /\ stored' = IF j % 2 = 0 THEN Cb(r, g, b) ELSE Cr(r, g, b)
  /\ j' = j + 1
  /\ fg_y' = fg_y + 1
  /\ alph' = alph + 1
  /\ fg_c' = IF i % 2 = 0 THEN fg_c + 1 ELSE fg_c
  /\ UNCHANGED <<icon, phase, loaded, stamp, i, bright, bg_y_p, bg_c_p>>

ConvertEndOfLine ==
  /\ phase = "convert"
  /\ i < fgHeight
  /\ j = fgWidth
  /\ i' = i + 1
  /\ j' = 0
  /\ UNCHANGED <<icon, phase, loaded, stamp, bright, pointers, stored>>

IconDone ==
  /\ phase = "convert"
  /\ i = fgHeight
  /\ \E n \in 0 .. (srcNum - 1) :
       /\ loaded = 0 .. (n - 1)
       /\ loaded' = loaded \cup {n}
       /\ phase' = IF n = srcNum - 1 THEN "ready" ELSE "init"
  /\ UNCHANGED <<icon, stamp, i, j, bright, pointers, stored>>

\* A file is missing: those before it stay loaded.
LoadFails ==
  /\ phase = "init"
  /\ phase' = "failed"
  /\ UNCHANGED <<icon, loaded, stamp, i, j, bright, pointers, stored>>

waterMarkExit ==
  /\ phase \in {"ready", "failed"}
  /\ loaded' = {}
  /\ phase' = "exited"
  /\ UNCHANGED <<icon, stamp, i, j, bright, pointers, stored>>

(***************************************************************************)
(* waterMarkShowTime and the two ways of blending.                         *)
(***************************************************************************)

Row(time) ==
  FourDigits(time.year) \o <<11>> \o TwoDigits(time.mon)
    \o <<11>> \o TwoDigits(time.mday) \o <<10>> \o TwoDigits(time.hour)
    \o <<12>> \o TwoDigits(time.min) \o <<12>> \o TwoDigits(time.sec)

\* The row must not be wider than the picture; where it begins is not looked at.
ShowRow(adjust) ==
  /\ phase = "ready"
  /\ now' \in Times
  /\ id_list' = Row(now')
  /\ adjusting' = adjust
  /\ IF fgWidth * Number > BgWidth
     THEN UNCHANGED <<phase, bg_y_p>>
     ELSE phase' = "bright" /\ bg_y_p' = LumaStart(0)
  /\ shown' = 0
  /\ i' = 0
  /\ bright' = 0
  /\ UNCHANGED <<icon, loaded, j, bg_c_p, fg_y, fg_c, alph, stored>>

\* Ends in watermark_blending_ajust_brightness.
waterMarkShowTime == ShowRow(TRUE)

watermark_blending == ShowRow(FALSE)

\* region_bright_or_dark: one line.
MeasureLine ==
  /\ phase = "bright"
  /\ adjusting
  /\ i < fgHeight
  /\ i' = i + 1
  /\ bright' \in {bright, bright + 1}
  /\ bg_y_p' = bg_y_p + fgWidth + (BgWidth - fgWidth)
  /\ UNCHANGED <<icon, phase, loaded, stamp, j, bg_c_p, fg_y, fg_c, alph,
                 stored>>

StartBlending ==
  /\ phase = "bright"
  /\ i = IF adjusting THEN fgHeight ELSE 0
  /\ phase' = "blend"
  /\ bright' = IF bright > fgHeight \div 2 THEN 1 ELSE 0
  /\ bg_y_p' = LumaStart(shown)
  /\ bg_c_p' = ChromaStart(shown)
  /\ fg_y' = 0
  /\ fg_c' = 0
  /\ alph' = 0
  /\ i' = 0
  /\ j' = 0
  /\ UNCHANGED <<icon, loaded, stamp, stored>>

\* Luma on every line, chroma on every other.
BlendPixel ==
  /\ phase = "blend"
  /\ i < fgHeight
  /\ j < fgWidth
  /\ \E bg, fg, a \in Samples :
       \/ stored' = Blend(bg, IF bright = 1 THEN 256 - fg ELSE fg, a)
       \/ i % 2 = 0 /\ stored' = Blend(bg, fg, a)
  /\ j' = j + 1
  /\ bg_y_p' = bg_y_p + 1
  /\ fg_y' = fg_y + 1
  /\ alph' = alph + 1
  /\ IF i % 2 = 0
     THEN bg_c_p' = bg_c_p + 1 /\ fg_c' = fg_c + 1
     ELSE UNCHANGED <<bg_c_p, fg_c>>
  /\ UNCHANGED <<icon, phase, loaded, stamp, i, bright>>

EndOfLine ==
  /\ phase = "blend"
  /\ i < fgHeight
  /\ j = fgWidth
  /\ i' = i + 1
  /\ j' = 0
  /\ bg_y_p' = bg_y_p + BgWidth - fgWidth
  /\ bg_c_p' = IF i % 2 = 0 THEN bg_c_p + BgWidth - fgWidth ELSE bg_c_p
  /\ UNCHANGED <<icon, phase, loaded, stamp, bright, fg_y, fg_c, alph, stored>>

\* The next icon, or the end.
EndOfIcon ==
  /\ phase = "blend"
  /\ i = fgHeight
  /\ shown' = shown + 1
  /\ IF shown + 1 < Number
     THEN phase' = "bright" /\ bg_y_p' = LumaStart(shown + 1)
     ELSE phase' = "ready" /\ UNCHANGED bg_y_p
  /\ i' = 0
  /\ bright' = 0
  /\ UNCHANGED <<icon, loaded, id_list, now, adjusting, j, bg_c_p, fg_y, fg_c,
                 alph, stored>>
-----------------------------------------------------------------------------
Next ==
  \/ LoadIcon \/ ConvertPixel \/ ConvertEndOfLine \/ IconDone \/ LoadFails
  \/ waterMarkExit
  \/ waterMarkShowTime \/ watermark_blending \/ MeasureLine \/ StartBlending
  \/ BlendPixel \/ EndOfLine \/ EndOfIcon

Spec == Init /\ [][Next]_vars
-----------------------------------------------------------------------------
(***************************************************************************)
(* Properties.                                                             *)
(***************************************************************************)

Blending == phase = "blend" /\ i < fgHeight
Converting == phase = "convert" /\ i < fgHeight

\* The pointers that are moved on step by step, over lines of two planes of
\* different height, are where the line and the column of the pixel say: in the
\* picture relative to the corner of the icon, in the icon relative to its
\* start, where the conversion has put what the blending reads.  Chroma counts
\* on even lines, where it is used (water_mark.c:42-84, 115-143, 177-186,
\* 226-286).
PointersAgree ==
  /\ phase = "bright" => bg_y_p = (PosY + i) * BgWidth + left
  /\ Converting \/ Blending =>
       /\ fg_y = i * fgWidth + j
       /\ alph = fg_y
       /\ i % 2 = 0 => fg_c = (i \div 2) * fgWidth + j
  /\ Blending =>
       /\ bg_y_p = (PosY + i) * BgWidth + left + j
       /\ i % 2 = 0 => bg_c_p = ((PosY + i) \div 2) * BgWidth + left + j

\* The row fits into the picture where it is put.  waterMarkShowTime makes sure
\* of the width only.
RowFits == PosX + Number * fgWidth <= BgWidth /\ PosY + fgHeight <= BgHeight

EvenIcon == fgWidth % 2 = 0 /\ fgHeight % 2 = 0

\* If icons are an even number of pixels wide and high, only the icon is written
\* to when it is converted and read when it is blended; and if the row fits, only
\* the picture is written to, chroma as well as luma, Cb in the places of Cb and
\* Cr in those of Cr, and the icon is one that was loaded (water_mark.c:42-84,
\* 101-143, 370-372, 434-467).
StampInside ==
  (Converting \/ Blending) /\ j < fgWidth /\ EvenIcon =>
    /\ fg_y < fgWidth * fgHeight
    /\ i % 2 = 0 => fg_c < (fgWidth * fgHeight) \div 2
    /\ Blending /\ RowFits =>
         /\ bg_y_p < BgWidth * BgHeight
         /\ i % 2 = 0 => /\ bg_c_p < (BgWidth * BgHeight) \div 2
                         /\ BgWidth % 2 = 0 => bg_c_p % 2 = j % 2
         /\ id_list[shown + 1] \in loaded

\* What is shown reads as the time, with digits for its numbers and other icons
\* between them (water_mark.c:18-40, 434-467).
TimeIsShown ==
  Blending =>
    LET two(k) == 10 * id_list[k] + id_list[k + 1]
    IN /\ Len(id_list) = Number
       /\ 100 * two(1) + two(3) = now.year
       /\ two(6) = now.mon
       /\ two(9) = now.mday
       /\ two(12) = now.hour
       /\ two(15) = now.min
       /\ two(18) = now.sec
       /\ \A k \in 1..Number : id_list[k] <= 9 <=> k \notin {5, 8, 11, 14, 17}

\* Nothing that is stored is cut: the conversion stays within a byte at both of
\* its ends, and so does the blending, though it inverts luma from 256 and
\* weighs with 256 (water_mark.c:54-63, 126-127, 235-236).
BytesFit == stored \in 0..255
=============================================================================
