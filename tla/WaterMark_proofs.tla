-------------------------- MODULE WaterMark_proofs --------------------------
(***************************************************************************)
(* Proofs about WaterMark, for every size of the picture and the icons and *)
(* for every byte.                                                         *)
(*                                                                         *)
(* The layers: the types (Typed); where the pointers are at any step of the*)
(* loops, the ends of the lines and the odd lines included (Walk); and what*)
(* is shown (Shows).                                                       *)
(***************************************************************************)
EXTENDS WaterMark, TLAPS

-----------------------------------------------------------------------------
(***************************************************************************)
(* Bytes.                                                                  *)
(***************************************************************************)

Byte == 0..255

\* The conversion of a pixel stays within a byte (water_mark.c:54-63).
LEMMA ConversionFits ==
  ASSUME NEW r \in Byte, NEW g \in Byte, NEW b \in Byte
  PROVE  /\ Luma(r, g, b) \in Byte
         /\ Cb(r, g, b) \in Byte
         /\ Cr(r, g, b) \in Byte
<1> DEFINE l == Luma(r, g, b)
<1>1. /\ r \in 0..255 /\ g \in 0..255 /\ b \in 0..255
      /\ l \in 0..255
      /\ 1000 * l <= 299 * r + 587 * g + 114 * b
      /\ 299 * r + 587 * g + 114 * b < 1000 * l + 1000
  BY DEF Luma, Byte
<1>2. /\ Cb(r, g, b) = 128 + Quotient(564 * (b - l), 1000)
      /\ Cr(r, g, b) = 128 + Quotient(713 * (r - l), 1000)
  BY DEF Cb, Cr
<1> HIDE DEF l
<1>3. ASSUME NEW d \in Int, -226 <= d, d <= 226
      PROVE  Quotient(564 * d, 1000) \in -127..127
  BY <1>3 DEF Quotient
<1>4. ASSUME NEW d \in Int, -179 <= d, d <= 179
      PROVE  Quotient(713 * d, 1000) \in -127..127
  BY <1>4 DEF Quotient
<1>5. b - l \in Int /\ b - l <= 226 /\ -226 <= b - l
  BY <1>1
<1>6. r - l \in Int /\ r - l <= 179 /\ -179 <= r - l
  BY <1>1
<1>7. /\ Quotient(564 * (b - l), 1000) \in -127..127
      /\ Quotient(713 * (r - l), 1000) \in -127..127
  BY <1>3, <1>4, <1>5, <1>6
<1>8. l \in Byte /\ Cb(r, g, b) \in Byte /\ Cr(r, g, b) \in Byte
  BY <1>1, <1>2, <1>7 DEF Byte
<1> QED BY <1>8 DEF l

\* So does the blending, with the luma inverted from 256 or not
\* (water_mark.c:126-127, 235-236).
LEMMA BlendFits ==
  ASSUME NEW bg \in Byte, NEW fg \in 0..256, NEW a \in Byte
  PROVE  Blend(bg, fg, a) \in Byte
<1> USE DEF Byte
<1> DEFINE x == (256 - a) * bg
           y == fg * a
<1>1. x \in Nat /\ x <= (256 - a) * 255
  <2>1. 256 - a \in Nat /\ bg \in Nat /\ bg <= 255
    OBVIOUS
  <2> QED BY <2>1
<1>2. y \in Nat /\ y <= 256 * a
  <2>1. fg \in Nat /\ a \in Nat /\ fg <= 256
    OBVIOUS
  <2> QED BY <2>1
<1>3. Blend(bg, fg, a) = (x + y) \div 256
  BY DEF Blend
<1> HIDE DEF x, y
<1>4. x + y \in Nat /\ x + y <= 65535
  BY <1>1, <1>2
<1> QED BY <1>3, <1>4

\* Nothing that is stored is cut, for every byte of pictures and icons
\* (water_mark.c:54-63, 126-127, 235-236).
THEOREM EveryByteFits == Spec => []BytesFit
<1>1. Init => BytesFit
  BY DEF Init, BytesFit
<1>2. BytesFit /\ [Next]_vars => BytesFit'
  <2> SUFFICES ASSUME BytesFit, [Next]_vars PROVE BytesFit'
    OBVIOUS
  <2>0. Samples \subseteq Byte
    BY WaterMarkAssumption DEF Byte
  <2>1. CASE ConvertPixel
    <3>1. \A r, g, b \in Samples : /\ Luma(r, g, b) \in Byte
                                   /\ Cb(r, g, b) \in Byte
                                   /\ Cr(r, g, b) \in Byte
      BY <2>0, ConversionFits
    <3>2. stored' \in Byte
      BY <2>1, <3>1 DEF ConvertPixel
    <3> QED BY <3>2 DEF BytesFit, Byte
  <2>2. CASE BlendPixel
    <3>1. \A fg \in Samples : fg \in 0..256 /\ 256 - fg \in 0..256
      BY <2>0 DEF Byte
    <3>2. \A bg, fg, a \in Samples : /\ Blend(bg, fg, a) \in Byte
                                     /\ Blend(bg, 256 - fg, a) \in Byte
      BY <2>0, <3>1, BlendFits
    <3>3. stored' \in Byte
      BY <2>2, <3>2 DEF BlendPixel
    <3> QED BY <3>3 DEF BytesFit, Byte
  <2>3. CASE UNCHANGED stored
    BY <2>3 DEF BytesFit
  <2> QED BY <2>1, <2>2, <2>3
          DEF Next, LoadIcon, ConvertEndOfLine, IconDone, LoadFails,
              waterMarkExit, waterMarkShowTime, watermark_blending, ShowRow,
              MeasureLine, StartBlending, EndOfLine, EndOfIcon, vars
<1> QED BY <1>1, <1>2, PTL DEF Spec

-----------------------------------------------------------------------------
(***************************************************************************)
(* Types.                                                                  *)
(***************************************************************************)

Phase == {"init", "convert", "failed", "ready", "bright", "blend", "exited"}

Typed ==
  /\ fgWidth \in Nat \ {0} /\ fgHeight \in Nat \ {0}
  /\ phase \in Phase
  /\ shown \in 0..Number
  /\ adjusting \in BOOLEAN
  /\ i \in 0..fgHeight /\ j \in 0..fgWidth
  /\ bg_y_p \in Int /\ bg_c_p \in Int
  /\ fg_y \in Nat /\ fg_c \in Nat /\ alph \in Nat
  /\ phase \in {"bright", "blend"} => shown < Number

\* Where the rows of icons begin is a number.
LEMMA StartTypes ==
  ASSUME fgWidth \in Nat, NEW k \in Nat
  PROVE  LumaStart(k) \in Nat /\ ChromaStart(k) \in Nat
<1>1. BgWidth \in Nat /\ PosY * BgWidth \in Nat /\ fgWidth * k \in Nat
  BY WaterMarkAssumption DEF PosY
<1>2. (PosY \div 2) * BgWidth \in Nat
  BY <1>1 DEF PosY
<1> QED BY <1>1, <1>2 DEF LumaStart, ChromaStart, PosX

\* Every step keeps the types.
LEMMA TypedNext == Typed /\ [Next]_vars => Typed'
<1> SUFFICES ASSUME Typed, [Next]_vars PROVE Typed'
  OBVIOUS
<1> USE DEF Typed, Phase, icon, pointers, stamp
<1>0. BgWidth \in Nat \ {0} /\ BgHeight \in Nat \ {0} /\ Number \in Nat \ {0}
  BY WaterMarkAssumption DEF Number
<1>1. CASE LoadIcon
  BY <1>1 DEF LoadIcon
<1>2. CASE ConvertPixel
  BY <1>2 DEF ConvertPixel
<1>3. CASE ConvertEndOfLine
  BY <1>3 DEF ConvertEndOfLine
<1>4. CASE IconDone
  BY <1>4 DEF IconDone
<1>5. CASE LoadFails
  BY <1>5 DEF LoadFails
<1>6. CASE waterMarkExit
  BY <1>6 DEF waterMarkExit
<1>7. ASSUME NEW adjust \in BOOLEAN, ShowRow(adjust) PROVE Typed'
  <2>1. LumaStart(0) \in Nat
    BY StartTypes
  <2> QED BY <1>0, <1>7, <2>1 DEF ShowRow
<1>8. CASE MeasureLine
  BY <1>0, <1>8 DEF MeasureLine
<1>9. CASE StartBlending
  <2>1. LumaStart(shown) \in Nat /\ ChromaStart(shown) \in Nat
    BY StartTypes
  <2> QED BY <1>9, <2>1 DEF StartBlending
<1>10. CASE BlendPixel
  BY <1>10 DEF BlendPixel
<1>11. CASE EndOfLine
  BY <1>0, <1>11 DEF EndOfLine
<1>12. CASE EndOfIcon
  <2>1. shown + 1 \in Nat /\ LumaStart(shown + 1) \in Nat
    <3>1. shown + 1 \in Nat
      OBVIOUS
    <3> QED BY <3>1, StartTypes
  <2>2. shown < Number
    BY <1>12 DEF EndOfIcon
  <2> QED BY <1>0, <1>12, <2>1, <2>2 DEF EndOfIcon
<1>13. CASE UNCHANGED vars
  BY <1>13 DEF vars
<1> QED
  BY <1>1, <1>2, <1>3, <1>4, <1>5, <1>6, <1>7, <1>8, <1>9, <1>10, <1>11,
     <1>12, <1>13
  DEF Next, waterMarkShowTime, watermark_blending

\* The types hold.
LEMMA TypedInvariant == Spec => []Typed
<1>1. Init => Typed
  BY WaterMarkAssumption DEF Init, Typed, Phase, Number
<1> QED BY <1>1, TypedNext, PTL DEF Spec

-----------------------------------------------------------------------------
(***************************************************************************)
(* The pointers.                                                           *)
(***************************************************************************)

\* The lines of chroma that lie above line n, if this is an even one, or up to
\* it, if it is odd.
ChromaLines(n) == IF n % 2 = 0 THEN n \div 2 ELSE (n + 1) \div 2

\* The columns of chroma on line n that are passed at column m.
ChromaColumn(n, m) == IF n % 2 = 0 THEN m ELSE 0

\* The pointers at every step of the loops (water_mark.c:42-84, 115-143,
\* 177-186, 226-286).
Walk ==
  /\ phase = "bright" => bg_y_p = (PosY + i) * BgWidth + left
  /\ phase \in {"convert", "blend"} =>
       /\ fg_y = i * fgWidth + j
       /\ alph = fg_y
       /\ fg_c = ChromaLines(i) * fgWidth + ChromaColumn(i, j)
  /\ phase = "blend" =>
       /\ bg_y_p = (PosY + i) * BgWidth + left + j
       /\ bg_c_p = ChromaLines(PosY + i) * BgWidth + left + ChromaColumn(i, j)

\* The next line, and the next of chroma.
LEMMA NextLine ==
  ASSUME NEW n \in Nat, NEW w \in Nat
  PROVE  /\ (n + 1) * w = n * w + w
         /\ n % 2 = 0 => ChromaLines(n + 1) = ChromaLines(n) + 1
         /\ n % 2 # 0 => ChromaLines(n + 1) = ChromaLines(n)
         /\ ChromaLines(n) \in Nat
         /\ n % 2 = 0 => (n + 1) % 2 # 0
         /\ n % 2 # 0 => (n + 1) % 2 = 0
         /\ (PosY + n) % 2 = n % 2
         /\ ChromaLines(PosY) = PosY \div 2
BY DEF ChromaLines, PosY

\* Every step of the loops moves each pointer to where the next pixel is
\* (water_mark.c:42-84, 115-143, 177-186, 226-286).
LEMMA WalkNext == Typed /\ Walk /\ [Next]_vars => Walk'
<1> SUFFICES ASSUME Typed, Walk, [Next]_vars PROVE Walk'
  OBVIOUS
<1>0. /\ BgWidth \in Nat /\ fgWidth \in Nat /\ fgHeight \in Nat
      /\ i \in Nat /\ j \in Nat /\ shown \in Nat /\ left \in Nat
      /\ PosY \in Nat /\ PosY + i \in Nat
  <2>1. fgWidth * shown \in Nat
    BY DEF Typed
  <2> QED BY <2>1, WaterMarkAssumption DEF Typed, left, PosX, PosY
<1>01. ChromaLines(i) \in Nat /\ ChromaLines(PosY + i) \in Nat
  <2>1. ChromaLines(i) \in Nat
    BY <1>0, NextLine
  <2>2. ChromaLines(PosY + i) \in Nat
    BY <1>0 DEF ChromaLines
  <2> QED BY <2>1, <2>2
<1>00. UNCHANGED icon
  BY DEF Next, LoadIcon, ConvertPixel, ConvertEndOfLine, IconDone, LoadFails,
         waterMarkExit, waterMarkShowTime, watermark_blending, ShowRow,
         MeasureLine, StartBlending, BlendPixel, EndOfLine, EndOfIcon, vars,
         icon
<1>000. fgWidth' = fgWidth /\ fgHeight' = fgHeight
  BY <1>00 DEF icon
<1> USE DEF pointers, stamp
<1>1. CASE LoadIcon
  <2>1. 0 * fgWidth = 0 /\ ChromaLines(0) = 0 /\ ChromaColumn(0, 0) = 0
    BY <1>0 DEF ChromaLines, ChromaColumn
  <2> QED BY <1>0, <1>000, <1>1, <2>1 DEF LoadIcon, Walk
<1>2. CASE ConvertPixel
  <2>1. /\ fg_y = i * fgWidth + j /\ alph = fg_y
        /\ fg_c = ChromaLines(i) * fgWidth + ChromaColumn(i, j)
    BY <1>2 DEF ConvertPixel, Walk
  <2>2. /\ i * fgWidth \in Nat /\ ChromaLines(i) * fgWidth \in Nat
    BY <1>0, NextLine
  <2>3. fg_c' = ChromaLines(i) * fgWidth + ChromaColumn(i, j + 1)
    BY <1>0, <1>2, <2>1, <2>2 DEF ConvertPixel, ChromaColumn
  <2>4. fg_y' = i * fgWidth + (j + 1) /\ alph' = fg_y'
    BY <1>0, <1>2, <2>1, <2>2 DEF ConvertPixel
  <2>5. i' = i /\ j' = j + 1 /\ phase' = "convert"
    BY <1>2 DEF ConvertPixel
  <2> QED BY <1>000, <2>3, <2>4, <2>5 DEF Walk
<1>3. CASE ConvertEndOfLine
  <2>1. /\ fg_y = i * fgWidth + fgWidth /\ alph = fg_y
        /\ fg_c = ChromaLines(i) * fgWidth + ChromaColumn(i, fgWidth)
    BY <1>3 DEF ConvertEndOfLine, Walk
  <2>2. /\ (i + 1) * fgWidth = i * fgWidth + fgWidth
        /\ (ChromaLines(i) + 1) * fgWidth = ChromaLines(i) * fgWidth + fgWidth
        /\ ChromaLines(i) * fgWidth \in Nat /\ (i + 1) * fgWidth \in Nat
    BY <1>0, NextLine
  <2>3. fg_c = ChromaLines(i + 1) * fgWidth + ChromaColumn(i + 1, 0)
    BY <1>0, <2>1, <2>2, NextLine DEF ChromaColumn
  <2>4. fg_y = (i + 1) * fgWidth + 0
    BY <2>1, <2>2
  <2>5. /\ i' = i + 1 /\ j' = 0 /\ phase' = "convert" /\ fg_y' = fg_y
        /\ fg_c' = fg_c /\ alph' = alph
    BY <1>3 DEF ConvertEndOfLine
  <2> QED BY <1>000, <2>1, <2>3, <2>4, <2>5 DEF Walk
<1>4. CASE IconDone \/ LoadFails \/ waterMarkExit
  <2>1. phase' \notin {"bright", "convert", "blend"}
    BY <1>4 DEF IconDone, LoadFails, waterMarkExit
  <2> QED BY <2>1 DEF Walk
<1>5. ASSUME NEW adjust, ShowRow(adjust) PROVE Walk'
  <2>1. CASE fgWidth * Number > BgWidth
    <3>1. phase' = "ready"
      BY <1>5, <2>1 DEF ShowRow
    <3> QED BY <3>1 DEF Walk
  <2>2. CASE ~(fgWidth * Number > BgWidth)
    <3>1. /\ phase' = "bright" /\ bg_y_p' = LumaStart(0) /\ shown' = 0
          /\ i' = 0
      BY <1>5, <2>2 DEF ShowRow
    <3>2. LumaStart(0) = (PosY + 0) * BgWidth + (PosX + fgWidth * 0)
      BY <1>0 DEF LumaStart, PosX, PosY
    <3> QED BY <1>000, <3>1, <3>2 DEF Walk, left
  <2> QED BY <2>1, <2>2
<1>6. CASE MeasureLine
  <2>1. bg_y_p = (PosY + i) * BgWidth + left
    BY <1>6 DEF MeasureLine, Walk
  <2>2. (PosY + i + 1) * BgWidth = (PosY + i) * BgWidth + BgWidth
    BY <1>0, NextLine
  <2>3. (PosY + i) * BgWidth \in Nat /\ PosY + (i + 1) = PosY + i + 1
    BY <1>0
  <2>4. bg_y_p' = (PosY + (i + 1)) * BgWidth + left
    BY <1>0, <1>6, <2>1, <2>2, <2>3 DEF MeasureLine
  <2>5. i' = i + 1 /\ phase' = "bright" /\ shown' = shown
    BY <1>6 DEF MeasureLine
  <2> QED BY <1>000, <2>4, <2>5 DEF Walk, left
<1>7. CASE StartBlending
  <2>1. /\ phase' = "blend" /\ i' = 0 /\ j' = 0 /\ fg_y' = 0 /\ fg_c' = 0
        /\ alph' = 0 /\ shown' = shown
        /\ bg_y_p' = LumaStart(shown) /\ bg_c_p' = ChromaStart(shown)
    BY <1>7 DEF StartBlending
  <2>2. 0 * fgWidth = 0 /\ ChromaLines(0) = 0 /\ ChromaColumn(0, 0) = 0
    BY <1>0 DEF ChromaLines, ChromaColumn
  <2>3. LumaStart(shown) = (PosY + 0) * BgWidth + left + 0
    BY <1>0 DEF LumaStart, left, PosX, PosY
  <2>4. ChromaStart(shown) =
          ChromaLines(PosY + 0) * BgWidth + left + ChromaColumn(0, 0)
    BY <1>0, <2>2 DEF ChromaStart, ChromaLines, left, PosX, PosY
  <2> QED BY <1>000, <2>1, <2>2, <2>3, <2>4 DEF Walk, left
<1>8. CASE BlendPixel
  <2>1. /\ fg_y = i * fgWidth + j /\ alph = fg_y
        /\ fg_c = ChromaLines(i) * fgWidth + ChromaColumn(i, j)
        /\ bg_y_p = (PosY + i) * BgWidth + left + j
        /\ bg_c_p = ChromaLines(PosY + i) * BgWidth + left + ChromaColumn(i, j)
    BY <1>8 DEF BlendPixel, Walk
  <2>2. /\ i * fgWidth \in Nat /\ ChromaLines(i) * fgWidth \in Nat
        /\ (PosY + i) * BgWidth \in Nat
        /\ ChromaLines(PosY + i) * BgWidth \in Nat
    BY <1>0, <1>01
  <2>3. /\ fg_c' = ChromaLines(i) * fgWidth + ChromaColumn(i, j + 1)
        /\ bg_c_p' = ChromaLines(PosY + i) * BgWidth + left
                       + ChromaColumn(i, j + 1)
    BY <1>0, <1>8, <2>1, <2>2 DEF BlendPixel, ChromaColumn
  <2>4. /\ fg_y' = i * fgWidth + (j + 1) /\ alph' = fg_y'
        /\ bg_y_p' = (PosY + i) * BgWidth + left + (j + 1)
    BY <1>0, <1>8, <2>1, <2>2 DEF BlendPixel
  <2>5. i' = i /\ j' = j + 1 /\ phase' = "blend" /\ shown' = shown
    BY <1>8 DEF BlendPixel
  <2> QED BY <1>000, <2>3, <2>4, <2>5 DEF Walk, left
<1>9. CASE EndOfLine
  <2>1. /\ fg_y = i * fgWidth + fgWidth /\ alph = fg_y
        /\ fg_c = ChromaLines(i) * fgWidth + ChromaColumn(i, fgWidth)
        /\ bg_y_p = (PosY + i) * BgWidth + left + fgWidth
        /\ bg_c_p = ChromaLines(PosY + i) * BgWidth + left
                      + ChromaColumn(i, fgWidth)
    BY <1>9 DEF EndOfLine, Walk
  <2>2. /\ (i + 1) * fgWidth = i * fgWidth + fgWidth
        /\ (ChromaLines(i) + 1) * fgWidth = ChromaLines(i) * fgWidth + fgWidth
        /\ ChromaLines(i) * fgWidth \in Nat /\ (i + 1) * fgWidth \in Nat
    BY <1>0, NextLine
  <2>3. /\ (PosY + i + 1) * BgWidth = (PosY + i) * BgWidth + BgWidth
        /\ (ChromaLines(PosY + i) + 1) * BgWidth =
             ChromaLines(PosY + i) * BgWidth + BgWidth
        /\ ChromaLines(PosY + i) * BgWidth \in Nat
        /\ (PosY + i) * BgWidth \in Nat
        /\ PosY + (i + 1) = PosY + i + 1
    BY <1>0, <1>01, NextLine
  <2>4. fg_c = ChromaLines(i + 1) * fgWidth + ChromaColumn(i + 1, 0)
    BY <1>0, <2>1, <2>2, NextLine DEF ChromaColumn
  <2>5. fg_y = (i + 1) * fgWidth + 0
    BY <2>1, <2>2
  <2>6. bg_y_p' = (PosY + (i + 1)) * BgWidth + left + 0
    BY <1>0, <1>9, <2>1, <2>3 DEF EndOfLine
  <2>7. bg_c_p' = ChromaLines(PosY + (i + 1)) * BgWidth + left
                    + ChromaColumn(i + 1, 0)
    <3>1. CASE i % 2 = 0
      <4>1. /\ ChromaLines(PosY + i + 1) = ChromaLines(PosY + i) + 1
            /\ ChromaColumn(i + 1, 0) = 0 /\ ChromaColumn(i, fgWidth) = fgWidth
        BY <1>0, <3>1, NextLine DEF ChromaColumn
      <4>2. bg_c_p' = bg_c_p + BgWidth - fgWidth
        BY <1>9, <3>1 DEF EndOfLine
      <4> QED BY <1>0, <2>1, <2>3, <4>1, <4>2
    <3>2. CASE i % 2 # 0
      <4>1. /\ ChromaLines(PosY + i + 1) = ChromaLines(PosY + i)
            /\ ChromaColumn(i + 1, 0) = 0 /\ ChromaColumn(i, fgWidth) = 0
        BY <1>0, <3>2, NextLine DEF ChromaColumn
      <4>2. bg_c_p' = bg_c_p
        BY <1>9, <3>2 DEF EndOfLine
      <4> QED BY <1>0, <2>1, <2>3, <4>1, <4>2
    <3> QED BY <3>1, <3>2
  <2>8. /\ i' = i + 1 /\ j' = 0 /\ phase' = "blend" /\ fg_y' = fg_y
        /\ fg_c' = fg_c /\ alph' = alph /\ shown' = shown
    BY <1>9 DEF EndOfLine
  <2> QED BY <1>000, <2>1, <2>4, <2>5, <2>6, <2>7, <2>8 DEF Walk, left
<1>10. CASE EndOfIcon
  <2>1. CASE shown + 1 < Number
    <3>1. /\ phase' = "bright" /\ bg_y_p' = LumaStart(shown + 1) /\ i' = 0
          /\ shown' = shown + 1
      BY <1>10, <2>1 DEF EndOfIcon
    <3>2. LumaStart(shown + 1) =
            (PosY + 0) * BgWidth + (PosX + fgWidth * (shown + 1))
      <4>1. fgWidth * (shown + 1) \in Nat
        BY <1>0
      <4> QED BY <1>0, <4>1 DEF LumaStart, PosX, PosY
    <3> QED BY <1>000, <3>1, <3>2 DEF Walk, left
  <2>2. CASE ~(shown + 1 < Number)
    <3>1. phase' = "ready"
      BY <1>10, <2>2 DEF EndOfIcon
    <3> QED BY <3>1 DEF Walk
  <2> QED BY <2>1, <2>2
<1>11. CASE UNCHANGED vars
  BY <1>000, <1>11 DEF vars, Walk, left
<1> QED
  BY <1>1, <1>2, <1>3, <1>4, <1>5, <1>6, <1>7, <1>8, <1>9, <1>10, <1>11
  DEF Next, waterMarkShowTime, watermark_blending

\* The pointers are there at every step.
LEMMA WalkInvariant == Spec => []Walk
<1>1. Init => Walk
  BY DEF Init, Walk
<1> QED BY <1>1, TypedInvariant, WalkNext, PTL DEF Spec

\* The five pointers are where line and column say, for icons and pictures of
\* every size (water_mark.c:42-84, 115-143, 177-186, 226-286).
THEOREM PointersKeepUp == Spec => []PointersAgree
<1>1. Typed /\ Walk => PointersAgree
  <2> SUFFICES ASSUME Typed, Walk PROVE PointersAgree
    OBVIOUS
  <2>1. i \in Nat /\ PosY + i \in Nat
    BY DEF Typed, PosY
  <2>2. i % 2 = 0 => /\ ChromaLines(i) = i \div 2
                     /\ ChromaLines(PosY + i) = (PosY + i) \div 2
                     /\ ChromaColumn(i, j) = j
    BY <2>1, NextLine DEF ChromaLines, ChromaColumn
  <2> QED BY <2>2 DEF Walk, PointersAgree, Converting, Blending
<1> QED BY <1>1, TypedInvariant, WalkInvariant, PTL

-----------------------------------------------------------------------------
(***************************************************************************)
(* What is shown.                                                          *)
(***************************************************************************)

\* Row t is row r of m places and one more, or two more.
OneMore(t, r, m, a) ==
  t \in Seq(Nat) /\ Len(t) = m + 1 /\ t[m + 1] = a
    /\ \A k \in 1..m : t[k] = r[k]
TwoMore(t, r, m, a, b) ==
  t \in Seq(Nat) /\ Len(t) = m + 2 /\ t[m + 1] = a /\ t[m + 2] = b
    /\ \A k \in 1..m : t[k] = r[k]

\* A place is added at the end, and the others stay.
LEMMA AddOne ==
  ASSUME NEW m \in Nat, NEW r \in Seq(Nat), Len(r) = m, NEW a \in Nat,
         NEW t, t = r \o <<a>>
  PROVE  OneMore(t, r, m, a)
BY DEF OneMore

\* So are two.
LEMMA AddTwo ==
  ASSUME NEW m \in Nat, NEW r \in Seq(Nat), Len(r) = m, NEW a \in Nat,
         NEW b \in Nat, NEW t, t = r \o <<a, b>>
  PROVE  TwoMore(t, r, m, a, b)
<1>1. t \in Seq(Nat)
  OBVIOUS
<1>2. Len(t) = m + 2
  OBVIOUS
<1>3. t[m + 1] = a
  OBVIOUS
<1>4. t[m + 2] = b
  OBVIOUS
<1>5. \A k \in 1..m : t[k] = r[k]
  OBVIOUS
<1> QED BY <1>1, <1>2, <1>3, <1>4, <1>5 DEF TwoMore

\* The places of the row (water_mark.c:437-458).
Places(row, y1, y2, y3, y4, a, o1, o2, d1, d2, b, h1, h2, c, m1, m2,
       s1, s2) ==
  row = <<y1, y2, y3, y4>> \o <<a>> \o <<o1, o2>> \o <<a>> \o <<d1, d2>>
          \o <<b>> \o <<h1, h2>> \o <<c>> \o <<m1, m2>> \o <<c>> \o <<s1, s2>>

ReadAt(row, y1, y2, y3, y4, a, o1, o2, d1, d2, b, h1, h2, c, m1, m2,
       s1, s2) ==
  /\ Len(row) = 19
  /\ row[1] = y1 /\ row[2] = y2 /\ row[3] = y3 /\ row[4] = y4
  /\ row[5] = a /\ row[6] = o1 /\ row[7] = o2
  /\ row[8] = a /\ row[9] = d1 /\ row[10] = d2
  /\ row[11] = b /\ row[12] = h1 /\ row[13] = h2
  /\ row[14] = c /\ row[15] = m1 /\ row[16] = m2
  /\ row[17] = c /\ row[18] = s1 /\ row[19] = s2

\* Each place is read back as it was put.
LEMMA RowIs ==
  ASSUME NEW y1, NEW y2, NEW y3, NEW y4, NEW a, NEW o1, NEW o2, NEW d1,
         NEW d2, NEW b, NEW h1, NEW h2, NEW c, NEW m1, NEW m2, NEW s1, NEW s2,
         {y1, y2, y3, y4, a, o1, o2, d1, d2, b, h1, h2, c, m1, m2, s1, s2}
           \subseteq Nat,
         NEW row,
         Places(row, y1, y2, y3, y4, a, o1, o2, d1, d2, b, h1, h2, c, m1, m2,
                s1, s2)
  PROVE  ReadAt(row, y1, y2, y3, y4, a, o1, o2, d1, d2, b, h1, h2, c, m1, m2,
                s1, s2)
<1>00. /\ y1 \in Nat /\ y2 \in Nat /\ y3 \in Nat /\ y4 \in Nat
       /\ o1 \in Nat /\ o2 \in Nat /\ d1 \in Nat /\ d2 \in Nat
       /\ h1 \in Nat /\ h2 \in Nat /\ m1 \in Nat /\ m2 \in Nat
       /\ s1 \in Nat /\ s2 \in Nat /\ a \in Nat /\ b \in Nat /\ c \in Nat
  OBVIOUS
<1> DEFINE r0 == <<y1, y2, y3, y4>>
           r1 == r0 \o <<a>>
           r2 == r1 \o <<o1, o2>>
           r3 == r2 \o <<a>>
           r4 == r3 \o <<d1, d2>>
           r5 == r4 \o <<b>>
           r6 == r5 \o <<h1, h2>>
           r7 == r6 \o <<c>>
           r8 == r7 \o <<m1, m2>>
           r9 == r8 \o <<c>>
           r10 == r9 \o <<s1, s2>>
<1>0. /\ r0 \in Seq(Nat) /\ Len(r0) = 4
      /\ r0[1] = y1 /\ r0[2] = y2 /\ r0[3] = y3 /\ r0[4] = y4
  BY <1>00
<1> HIDE DEF r0
<1>1. OneMore(r1, r0, 4, a)
  BY <1>0, <1>00, AddOne
<1> HIDE DEF r1
<1>2. TwoMore(r2, r1, 5, o1, o2)
  <2>1. r1 \in Seq(Nat) /\ Len(r1) = 5
    BY <1>1 DEF OneMore
  <2> QED BY <1>00, <2>1, AddTwo
<1> HIDE DEF r2
<1>3. OneMore(r3, r2, 7, a)
  <2>1. r2 \in Seq(Nat) /\ Len(r2) = 7
    BY <1>2 DEF TwoMore
  <2> QED BY <1>00, <2>1, AddOne
<1> HIDE DEF r3
<1>4. TwoMore(r4, r3, 8, d1, d2)
  <2>1. r3 \in Seq(Nat) /\ Len(r3) = 8
    BY <1>3 DEF OneMore
  <2> QED BY <1>00, <2>1, AddTwo
<1> HIDE DEF r4
<1>5. OneMore(r5, r4, 10, b)
  <2>1. r4 \in Seq(Nat) /\ Len(r4) = 10
    BY <1>4 DEF TwoMore
  <2> QED BY <1>00, <2>1, AddOne
<1> HIDE DEF r5
<1>6. TwoMore(r6, r5, 11, h1, h2)
  <2>1. r5 \in Seq(Nat) /\ Len(r5) = 11
    BY <1>5 DEF OneMore
  <2> QED BY <1>00, <2>1, AddTwo
<1> HIDE DEF r6
<1>7. OneMore(r7, r6, 13, c)
  <2>1. r6 \in Seq(Nat) /\ Len(r6) = 13
    BY <1>6 DEF TwoMore
  <2> QED BY <1>00, <2>1, AddOne
<1> HIDE DEF r7
<1>8. TwoMore(r8, r7, 14, m1, m2)
  <2>1. r7 \in Seq(Nat) /\ Len(r7) = 14
    BY <1>7 DEF OneMore
  <2> QED BY <1>00, <2>1, AddTwo
<1> HIDE DEF r8
<1>9. OneMore(r9, r8, 16, c)
  <2>1. r8 \in Seq(Nat) /\ Len(r8) = 16
    BY <1>8 DEF TwoMore
  <2> QED BY <1>00, <2>1, AddOne
<1> HIDE DEF r9
<1>10. TwoMore(r10, r9, 17, s1, s2)
  <2>1. r9 \in Seq(Nat) /\ Len(r9) = 17
    BY <1>9 DEF OneMore
  <2> QED BY <1>00, <2>1, AddTwo
<1> HIDE DEF r10
<1>11. row = r10
  BY DEF Places, r0, r1, r2, r3, r4, r5, r6, r7, r8, r9, r10
<1>12. \A k \in 1..17 : row[k] = r9[k]
  BY <1>11, <1>10 DEF TwoMore
<1>13. \A k \in 1..16 : row[k] = r8[k]
  <2>1. \A k \in 1..16 : r9[k] = r8[k]
    BY <1>9 DEF OneMore
  <2> QED BY <1>12, <2>1
<1>14. \A k \in 1..14 : row[k] = r7[k]
  <2>1. \A k \in 1..14 : r8[k] = r7[k]
    BY <1>8 DEF TwoMore
  <2> QED BY <1>13, <2>1
<1>15. \A k \in 1..13 : row[k] = r6[k]
  <2>1. \A k \in 1..13 : r7[k] = r6[k]
    BY <1>7 DEF OneMore
  <2> QED BY <1>14, <2>1
<1>16. \A k \in 1..11 : row[k] = r5[k]
  <2>1. \A k \in 1..11 : r6[k] = r5[k]
    BY <1>6 DEF TwoMore
  <2> QED BY <1>15, <2>1
<1>17. \A k \in 1..10 : row[k] = r4[k]
  <2>1. \A k \in 1..10 : r5[k] = r4[k]
    BY <1>5 DEF OneMore
  <2> QED BY <1>16, <2>1
<1>18. \A k \in 1..8 : row[k] = r3[k]
  <2>1. \A k \in 1..8 : r4[k] = r3[k]
    BY <1>4 DEF TwoMore
  <2> QED BY <1>17, <2>1
<1>19. \A k \in 1..7 : row[k] = r2[k]
  <2>1. \A k \in 1..7 : r3[k] = r2[k]
    BY <1>3 DEF OneMore
  <2> QED BY <1>18, <2>1
<1>20. \A k \in 1..5 : row[k] = r1[k]
  <2>1. \A k \in 1..5 : r2[k] = r1[k]
    BY <1>2 DEF TwoMore
  <2> QED BY <1>19, <2>1
<1>21. \A k \in 1..4 : row[k] = r0[k]
  <2>1. \A k \in 1..4 : r1[k] = r0[k]
    BY <1>1 DEF OneMore
  <2> QED BY <1>20, <2>1
<1>22. row[1] = y1 /\ row[2] = y2 /\ row[3] = y3 /\ row[4] = y4
  BY <1>0, <1>21
<1>23. row[5] = a
  <2>1. r1[5] = a
    BY <1>1 DEF OneMore
  <2> QED BY <1>20, <2>1
<1>24. row[6] = o1 /\ row[7] = o2
  <2>1. r2[6] = o1 /\ r2[7] = o2
    BY <1>2 DEF TwoMore
  <2>2. row[6] = o1
    BY <1>19, <2>1
  <2>3. row[7] = o2
    BY <1>19, <2>1
  <2> QED BY <2>2, <2>3
<1>25. row[8] = a
  <2>1. r3[8] = a
    BY <1>3 DEF OneMore
  <2> QED BY <1>18, <2>1
<1>26. row[9] = d1 /\ row[10] = d2
  <2>1. r4[9] = d1 /\ r4[10] = d2
    BY <1>4 DEF TwoMore
  <2>2. row[9] = d1
    BY <1>17, <2>1
  <2>3. row[10] = d2
    BY <1>17, <2>1
  <2> QED BY <2>2, <2>3
<1>27. row[11] = b
  <2>1. r5[11] = b
    BY <1>5 DEF OneMore
  <2> QED BY <1>16, <2>1
<1>28. row[12] = h1 /\ row[13] = h2
  <2>1. r6[12] = h1 /\ r6[13] = h2
    BY <1>6 DEF TwoMore
  <2>2. row[12] = h1
    BY <1>15, <2>1
  <2>3. row[13] = h2
    BY <1>15, <2>1
  <2> QED BY <2>2, <2>3
<1>29. row[14] = c
  <2>1. r7[14] = c
    BY <1>7 DEF OneMore
  <2> QED BY <1>14, <2>1
<1>30. row[15] = m1 /\ row[16] = m2
  <2>1. r8[15] = m1 /\ r8[16] = m2
    BY <1>8 DEF TwoMore
  <2>2. row[15] = m1
    BY <1>13, <2>1
  <2>3. row[16] = m2
    BY <1>13, <2>1
  <2> QED BY <2>2, <2>3
<1>31. row[17] = c
  <2>1. r9[17] = c
    BY <1>9 DEF OneMore
  <2> QED BY <1>12, <2>1
<1>32. row[18] = s1 /\ row[19] = s2 /\ Len(row) = 19
  BY <1>10, <1>11 DEF TwoMore
<1> QED
  BY <1>22, <1>23, <1>24, <1>25, <1>26, <1>27, <1>28, <1>29,
     <1>30, <1>31, <1>32
  DEF ReadAt

\* A number is cut into its last digits and what is left of it.
Cut(n, base, q, r) == q = n \div base /\ r = n % base

\* The last digit, the last two and the last three.
LEMMA CutTen ==
  ASSUME NEW n \in Nat, NEW q, NEW r, Cut(n, 10, q, r)
  PROVE  q \in Nat /\ r \in Nat /\ r < 10 /\ n = 10 * q + r
<1>1. q = n \div 10 /\ r = n % 10
  BY DEF Cut
<1>2. q \in Nat /\ r \in Nat /\ r < 10
  BY <1>1
<1> QED BY <1>1, <1>2

LEMMA CutHundred ==
  ASSUME NEW n \in Nat, NEW q, NEW r, Cut(n, 100, q, r)
  PROVE  q \in Nat /\ r \in Nat /\ r < 100 /\ n = 100 * q + r
<1>1. q = n \div 100 /\ r = n % 100
  BY DEF Cut
<1>2. q \in Nat /\ r \in Nat /\ r < 100
  BY <1>1
<1> QED BY <1>1, <1>2

LEMMA CutThousand ==
  ASSUME NEW n \in Nat, NEW q, NEW r, Cut(n, 1000, q, r)
  PROVE  q \in Nat /\ r \in Nat /\ r < 1000 /\ n = 1000 * q + r
<1>1. q = n \div 1000 /\ r = n % 1000
  BY DEF Cut
<1>2. q \in Nat /\ r \in Nat /\ r < 1000
  BY <1>1
<1> QED BY <1>1, <1>2

\* Two digits read as their number, and so do four.
LEMMA DigitsOfTwo ==
  ASSUME NEW n \in 0..99, NEW a, NEW b, Cut(n, 10, a, b)
  PROVE  a \in 0..9 /\ b \in 0..9 /\ 10 * a + b = n
<1>1. n \in Nat
  OBVIOUS
<1>2. a \in Nat /\ b \in Nat /\ b < 10 /\ n = 10 * a + b
  BY <1>1, CutTen
<1> QED BY <1>2

FourCut(n, a, b, c, d) ==
  /\ a = n \div 1000 /\ b = (n % 1000) \div 100
  /\ c = (n % 100) \div 10 /\ d = n % 10

\* Four digits (water_mark.c:26-32).
LEMMA DigitsOfFour ==
  ASSUME NEW n \in Nat, n < 10000, NEW a, NEW b, NEW c, NEW d,
         FourCut(n, a, b, c, d)
  PROVE  /\ a \in 0..9 /\ b \in 0..9 /\ c \in 0..9 /\ d \in 0..9
         /\ 100 * (10 * a + b) + (10 * c + d) = n
<1> DEFINE r3 == n % 1000
           r2 == n % 100
           p2 == n \div 100
           p1 == n \div 10
           b2 == r3 % 100
           c1 == r2 % 10
<1>0. /\ Cut(n, 1000, a, r3) /\ Cut(n, 100, p2, r2) /\ Cut(n, 10, p1, d)
      /\ Cut(r3, 100, b, b2) /\ Cut(r2, 10, c, c1)
  BY DEF Cut, FourCut
<1> HIDE DEF r3, r2, p2, p1, b2, c1
<1>1. a \in Nat /\ r3 \in Nat /\ r3 < 1000 /\ n = 1000 * a + r3
  BY <1>0, CutThousand
<1>2. p2 \in Nat /\ r2 \in Nat /\ r2 < 100 /\ n = 100 * p2 + r2
  BY <1>0, CutHundred
<1>3. p1 \in Nat /\ d \in Nat /\ d < 10 /\ n = 10 * p1 + d
  BY <1>0, CutTen
<1>6. b \in Nat /\ b2 \in Nat /\ b2 < 100 /\ r3 = 100 * b + b2
  BY <1>0, <1>1, CutHundred
<1>7. c \in Nat /\ c1 \in Nat /\ c1 < 10 /\ r2 = 10 * c + c1
  BY <1>0, <1>2, CutTen
<1> DEFINE u == 10 * a + b
           v == 100 * a + 10 * b + c
<1>8. r2 = b2
  <2>1. u \in Int /\ 1000 * a + 100 * b = 100 * u
    BY <1>1, <1>6
  <2>2. 100 * p2 + r2 = 100 * u + b2
    <3>1. n = 1000 * a + 100 * b + b2
      BY <1>1, <1>6
    <3> HIDE DEF u
    <3>2. n = 100 * u + b2
      BY <1>1, <1>6, <2>1, <3>1
    <3> QED BY <1>2, <3>2
  <2>3. p2 \in Int /\ r2 \in 0..99 /\ b2 \in 0..99
    BY <1>2, <1>6
  <2> HIDE DEF u
  <2>4. u = p2
    BY <2>1, <2>2, <2>3
  <2> QED BY <2>1, <2>2, <2>3, <2>4
<1>9. d = c1
  <2>1. v \in Int /\ 1000 * a + 100 * b + 10 * c = 10 * v
    BY <1>1, <1>6, <1>7
  <2>2. n = 10 * v + c1
    <3>1. n = 1000 * a + 100 * b + 10 * c + c1
      BY <1>1, <1>6, <1>7, <1>8
    <3> HIDE DEF v
    <3> QED BY <1>1, <1>6, <1>7, <2>1, <3>1
  <2>3. p1 \in Int /\ d \in 0..9 /\ c1 \in 0..9 /\ 10 * p1 + d = 10 * v + c1
    BY <1>3, <1>7, <2>2
  <2> HIDE DEF v
  <2>4. v = p1
    BY <2>1, <2>3
  <2> QED BY <2>1, <2>3, <2>4
<1>10. n = 1000 * a + 100 * b + 10 * c + d
  BY <1>1, <1>6, <1>7, <1>8, <1>9
<1>11. b \in 0..9
  BY <1>1, <1>6
<1>12. c \in 0..9
  BY <1>2, <1>7
<1>13. a \in 0..9
  <2>1. 1000 * a < 10000
    BY <1>1
  <2> QED BY <1>1, <2>1
<1>14. 100 * (10 * a + b) + (10 * c + d) = n
  BY <1>3, <1>10, <1>11, <1>12, <1>13
<1> QED BY <1>3, <1>11, <1>12, <1>13, <1>14

\* What a row of icons shows of a time.
Reads(row, time) ==
  LET two(k) == 10 * row[k] + row[k + 1]
  IN /\ Len(row) = Number
     /\ 100 * two(1) + two(3) = time.year
     /\ two(6) = time.mon
     /\ two(9) = time.mday
     /\ two(12) = time.hour
     /\ two(15) = time.min
     /\ two(18) = time.sec
     /\ \A k \in 1..Number : row[k] <= 9 <=> k \notin {5, 8, 11, 14, 17}
     /\ \A k \in 1..Number : row[k] \in 0 .. (srcNum - 1)

\* The years that have at most four digits.
Year == 0..9999

\* A time is of such a year.
LEMMA YearOf ==
  ASSUME NEW t \in Clock
  PROVE  t.year \in Year
<1>1. Clock = [year : Year, mon : 1..12, mday : 1..31,
               hour : 0..23, min : 0..59, sec : 0..60]
  BY DEF Clock, Year
<1> QED BY <1>1, Zenon

\* The row of a time shows this time (water_mark.c:425-459).
LEMMA RowReads ==
  ASSUME NEW time \in Clock
  PROVE  Reads(Row(time), time)
<1> DEFINE y == time.year
           o == time.mon
           d == time.mday
           h == time.hour
           m == time.min
           s == time.sec
           y1 == y \div 1000
           y2 == (y % 1000) \div 100
           y3 == (y % 100) \div 10
           y4 == y % 10
           o1 == o \div 10
           o2 == o % 10
           d1 == d \div 10
           d2 == d % 10
           h1 == h \div 10
           h2 == h % 10
           m1 == m \div 10
           m2 == m % 10
           s1 == s \div 10
           s2 == s % 10
           row == Row(time)
<1>1. /\ y \in Nat /\ y < 10000 /\ o \in 0..99 /\ d \in 0..99 /\ h \in 0..99
      /\ m \in 0..99 /\ s \in 0..99
  <2>1. y \in Year
    BY YearOf, Zenon
  <2>2. /\ o \in 1..12 /\ d \in 1..31 /\ h \in 0..23 /\ m \in 0..59
        /\ s \in 0..60
    BY DEF Clock
  <2> HIDE DEF y, o, d, h, m, s
  <2> QED BY <2>1, <2>2 DEF Year
<1>2. Places(row, y1, y2, y3, y4, 11, o1, o2, d1, d2, 10, h1, h2, 12, m1, m2,
             s1, s2)
  BY DEF Row, FourDigits, TwoDigits, Places
<1>02. /\ FourCut(y, y1, y2, y3, y4)
       /\ Cut(o, 10, o1, o2) /\ Cut(d, 10, d1, d2) /\ Cut(h, 10, h1, h2)
       /\ Cut(m, 10, m1, m2) /\ Cut(s, 10, s1, s2)
  BY DEF Cut, FourCut
<1> HIDE DEF y, o, d, h, m, s, row
<1> HIDE DEF y1, y2, y3, y4, o1, o2, d1, d2, h1, h2, m1, m2, s1, s2
<1>3. /\ y1 \in 0..9 /\ y2 \in 0..9 /\ y3 \in 0..9 /\ y4 \in 0..9
      /\ 100 * (10 * y1 + y2) + (10 * y3 + y4) = y
  BY <1>1, <1>02, DigitsOfFour
<1>4. o1 \in 0..9 /\ o2 \in 0..9 /\ 10 * o1 + o2 = o
  BY <1>1, <1>02, DigitsOfTwo
<1>5. d1 \in 0..9 /\ d2 \in 0..9 /\ 10 * d1 + d2 = d
  BY <1>1, <1>02, DigitsOfTwo
<1>6. h1 \in 0..9 /\ h2 \in 0..9 /\ 10 * h1 + h2 = h
  BY <1>1, <1>02, DigitsOfTwo
<1>7. m1 \in 0..9 /\ m2 \in 0..9 /\ 10 * m1 + m2 = m
  BY <1>1, <1>02, DigitsOfTwo
<1>8. s1 \in 0..9 /\ s2 \in 0..9 /\ 10 * s1 + s2 = s
  BY <1>1, <1>02, DigitsOfTwo
<1>10. /\ Len(row) = 19
       /\ row[1] = y1 /\ row[2] = y2 /\ row[3] = y3 /\ row[4] = y4
       /\ row[5] = 11 /\ row[6] = o1 /\ row[7] = o2
       /\ row[8] = 11 /\ row[9] = d1 /\ row[10] = d2
       /\ row[11] = 10 /\ row[12] = h1 /\ row[13] = h2
       /\ row[14] = 12 /\ row[15] = m1 /\ row[16] = m2
       /\ row[17] = 12 /\ row[18] = s1 /\ row[19] = s2
  <2>1. /\ y1 \in Nat /\ y2 \in Nat /\ y3 \in Nat /\ y4 \in Nat
        /\ o1 \in Nat /\ o2 \in Nat /\ d1 \in Nat /\ d2 \in Nat
        /\ h1 \in Nat /\ h2 \in Nat /\ m1 \in Nat /\ m2 \in Nat
        /\ s1 \in Nat /\ s2 \in Nat
    BY <1>3, <1>4, <1>5, <1>6, <1>7, <1>8
  <2>2. 10 \in Nat /\ 11 \in Nat /\ 12 \in Nat
    OBVIOUS
  <2>3. {y1, y2, y3, y4, 11, o1, o2, d1, d2, 10, h1, h2, 12, m1, m2, s1, s2}
          \subseteq Nat
    BY <2>1, <2>2
  <2>4. ReadAt(row, y1, y2, y3, y4, 11, o1, o2, d1, d2, 10, h1, h2, 12, m1, m2,
               s1, s2)
    BY <1>2, <2>3, RowIs
  <2> QED BY <2>4 DEF ReadAt
<1>11. \A k \in 1..19 : /\ row[k] <= 9 <=> k \notin {5, 8, 11, 14, 17}
                        /\ row[k] \in 0..12
  <2> SUFFICES ASSUME NEW k \in 1..19
               PROVE  /\ row[k] <= 9 <=> k \notin {5, 8, 11, 14, 17}
                      /\ row[k] \in 0..12
    OBVIOUS
  <2>1. k \in {1, 2, 3, 4, 6, 7, 9, 10, 12, 13, 15, 16, 18, 19}
          \/ k \in {5, 8, 11, 14, 17}
    OBVIOUS
  <2>2. CASE k \in {1, 2, 3, 4, 6, 7, 9, 10, 12, 13, 15, 16, 18, 19}
    <3>1. row[k] \in 0..9
      BY <1>3, <1>4, <1>5, <1>6, <1>7, <1>8, <1>10, <2>2
    <3> QED BY <2>2, <3>1
  <2>3. CASE k \in {5, 8, 11, 14, 17}
    <3>1. row[k] \in {10, 11, 12}
      BY <1>10, <2>3
    <3> QED BY <2>3, <3>1
  <2> QED BY <2>1, <2>2, <2>3
<1>12. /\ 100 * (10 * row[1] + row[1 + 1]) + (10 * row[3] + row[3 + 1]) = y
       /\ 10 * row[6] + row[6 + 1] = o /\ 10 * row[9] + row[9 + 1] = d
       /\ 10 * row[12] + row[12 + 1] = h /\ 10 * row[15] + row[15 + 1] = m
       /\ 10 * row[18] + row[18 + 1] = s
  BY <1>3, <1>4, <1>5, <1>6, <1>7, <1>8, <1>10
<1>13. Reads(row, time)
  BY <1>10, <1>11, <1>12 DEF Reads, Number, srcNum, y, o, d, h, m, s
<1> QED BY <1>13 DEF row

\* While icons are shown all of them are loaded, and they are those of a time.
Shows ==
  /\ now \in Times
  /\ phase \in {"ready", "bright", "blend"} => loaded = 0 .. (srcNum - 1)
  /\ phase \in {"bright", "blend"} => id_list = Row(now)

\* The row and the icons are those of a time at every step
\* (water_mark.c:379-397, 434-467).
LEMMA ShowsNext == Shows /\ [Next]_vars => Shows'
<1> SUFFICES ASSUME Shows, [Next]_vars PROVE Shows'
  OBVIOUS
<1> USE DEF Shows, icon, stamp, pointers
<1>1. CASE IconDone
  <2>1. PICK n \in 0 .. (srcNum - 1) :
          /\ loaded = 0 .. (n - 1)
          /\ loaded' = loaded \cup {n}
          /\ phase' = IF n = srcNum - 1 THEN "ready" ELSE "init"
    BY <1>1 DEF IconDone
  <2>2. phase' = "ready" => loaded' = 0 .. (srcNum - 1)
    BY <2>1 DEF srcNum
  <2>3. phase' \in {"ready", "init"}
    BY <2>1
  <2> QED BY <1>1, <2>2, <2>3 DEF IconDone
<1>2. ASSUME NEW adjust, ShowRow(adjust) PROVE Shows'
  <2>1. phase' \in {"ready", "bright"} /\ phase = "ready"
    BY <1>2 DEF ShowRow
  <2> QED BY <1>2, <2>1 DEF ShowRow
<1>3. CASE \/ LoadIcon \/ ConvertPixel \/ ConvertEndOfLine \/ LoadFails
           \/ waterMarkExit
  <2>1. /\ now' = now /\ phase' \notin {"ready", "bright", "blend"}
    BY <1>3 DEF LoadIcon, ConvertPixel, ConvertEndOfLine, LoadFails,
                waterMarkExit
  <2> QED BY <2>1
<1>4. CASE \/ MeasureLine \/ StartBlending \/ BlendPixel \/ EndOfLine
           \/ EndOfIcon
  <2>1. /\ UNCHANGED <<now, loaded, id_list>> /\ phase \in {"bright", "blend"}
    BY <1>4 DEF MeasureLine, StartBlending, BlendPixel, EndOfLine, EndOfIcon
  <2> QED BY <2>1
<1>5. CASE UNCHANGED vars
  BY <1>5 DEF vars
<1> QED BY <1>1, <1>2, <1>3, <1>4, <1>5
        DEF Next, waterMarkShowTime, watermark_blending

\* So they are throughout.
LEMMA ShowsInvariant == Spec => []Shows
<1>1. Init => Shows
  BY DEF Init, Shows
<1> QED BY <1>1, ShowsNext, PTL DEF Spec

\* What is shown reads as the time, for every time (water_mark.c:18-40,
\* 434-467).
THEOREM TimeReads == Spec => []TimeIsShown
<1>1. Shows => TimeIsShown
  <2> SUFFICES ASSUME Shows, Blending
               PROVE  Reads(id_list, now)
    BY DEF TimeIsShown, Reads
  <2>1. id_list = Row(now) /\ now \in Clock
    BY WaterMarkAssumption DEF Shows, Blending
  <2> QED BY <2>1, RowReads
<1> QED BY <1>1, ShowsInvariant, PTL

-----------------------------------------------------------------------------
(***************************************************************************)
(* Where the row is.                                                       *)
(***************************************************************************)

\* More lines are no fewer places.
LEMMA Monotone ==
  ASSUME NEW k \in Nat, NEW l \in Nat, NEW w \in Nat, k <= l
  PROVE  k * w <= l * w
<1>1. PICK d \in Nat : l = k + d
  <2>1. l - k \in Nat /\ l = k + (l - k)
    OBVIOUS
  <2> QED BY <2>1
<1>2. (k + d) * w = k * w + d * w
  OBVIOUS
<1>3. k * w \in Nat /\ d * w \in Nat
  OBVIOUS
<1> QED BY <1>1, <1>2, <1>3

\* A column of a line of a plane lies in it.
LEMMA InsideLuma ==
  ASSUME NEW w \in Nat, NEW h \in Nat, NEW k \in Nat, NEW m \in Nat,
         k < h, m < w
  PROVE  k * w + m < w * h
<1>1. (k + 1) * w <= h * w
  BY Monotone
<1>2. /\ (k + 1) * w = k * w + w /\ h * w = w * h
      /\ k * w \in Nat /\ w * h \in Nat
  OBVIOUS
<1> QED BY <1>1, <1>2

\* Half as many lines are chroma.
LEMMA InsideChroma ==
  ASSUME NEW w \in Nat, NEW h \in Nat, NEW k \in Nat, NEW m \in Nat,
         k % 2 = 0, k + 2 <= h, m < w
  PROVE  (k \div 2) * w + m < (w * h) \div 2
<1>1. PICK q \in Nat : k \div 2 = q /\ k = 2 * q
  <2>1. k \div 2 \in Nat /\ k = 2 * (k \div 2)
    OBVIOUS
  <2> QED BY <2>1
<1>2. (2 * q + 2) * w <= h * w
  BY <1>1, Monotone
<1>3. /\ (2 * q + 2) * w = 2 * (q * w + w) /\ h * w = w * h
      /\ q * w \in Nat /\ w * h \in Nat
  OBVIOUS
<1>4. PICK x \in Nat, y \in Nat : x = q * w /\ y = w * h
  BY <1>3
<1>5. 2 * (x + w) <= y
  BY <1>2, <1>3, <1>4
<1>6. x + w <= y \div 2
  BY <1>5
<1>7. x + m < y \div 2
  <2>1. y \div 2 \in Nat
    OBVIOUS
  <2> QED BY <1>6, <2>1
<1> QED BY <1>1, <1>4, <1>7

\* A product with an even number is even.
LEMMA EvenProduct ==
  ASSUME NEW w \in Nat, NEW k \in Nat, w % 2 = 0
  PROVE  (k * w) % 2 = 0 /\ (w * k) % 2 = 0
<1>1. PICK u \in Nat : w = 2 * u
  <2>1. w \div 2 \in Nat /\ w = 2 * (w \div 2)
    OBVIOUS
  <2> QED BY <2>1
<1>2. k * w = 2 * (k * u) /\ w * k = 2 * (k * u) /\ k * u \in Nat
  BY <1>1
<1>3. \A x \in Nat : (2 * x) % 2 = 0
  OBVIOUS
<1>4. PICK x \in Nat : x = k * u
  BY <1>2
<1>5. k * w = 2 * x /\ w * k = 2 * x
  BY <1>2, <1>4
<1> QED BY <1>3, <1>5

\* Only the icon and the picture are touched, and only icons that were loaded,
\* for icons and pictures of every size (water_mark.c:42-84, 101-143, 370-372,
\* 434-467).
THEOREM StampStaysInside == Spec => []StampInside
<1>1. Typed /\ Walk /\ Shows => StampInside
  <2> SUFFICES ASSUME Typed, Walk, Shows, Converting \/ Blending,
                      j < fgWidth, EvenIcon
               PROVE  /\ fg_y < fgWidth * fgHeight
                      /\ i % 2 = 0 => fg_c < (fgWidth * fgHeight) \div 2
                      /\ Blending /\ RowFits =>
                           /\ bg_y_p < BgWidth * BgHeight
                           /\ i % 2 = 0 =>
                                /\ bg_c_p < (BgWidth * BgHeight) \div 2
                                /\ BgWidth % 2 = 0 => bg_c_p % 2 = j % 2
                           /\ id_list[shown + 1] \in loaded
    BY DEF StampInside
  <2>1. /\ BgWidth \in Nat /\ BgHeight \in Nat /\ fgWidth \in Nat
        /\ fgHeight \in Nat /\ i \in Nat /\ j \in Nat /\ shown \in Nat
        /\ PosY + i \in Nat /\ fgWidth * shown \in Nat /\ i < fgHeight
    BY WaterMarkAssumption DEF Typed, Converting, Blending, PosY
  <2>2. fgWidth % 2 = 0 /\ fgHeight % 2 = 0
    BY DEF EvenIcon
  <2>3. i % 2 = 0 => i + 2 <= fgHeight
    BY <2>1, <2>2
  <2>4. i % 2 = 0 => /\ ChromaLines(i) = i \div 2
                     /\ ChromaLines(PosY + i) = (PosY + i) \div 2
                     /\ ChromaColumn(i, j) = j
                     /\ (PosY + i) % 2 = 0
    BY <2>1, NextLine DEF ChromaLines, ChromaColumn
  <2>5. fg_y < fgWidth * fgHeight
    BY <2>1, InsideLuma DEF Walk, Converting, Blending
  <2>6. ASSUME i % 2 = 0 PROVE fg_c < (fgWidth * fgHeight) \div 2
    <3>1. fg_c = (i \div 2) * fgWidth + j
      BY <2>4, <2>6 DEF Walk, Converting, Blending
    <3> QED BY <2>1, <2>3, <2>6, <3>1, InsideChroma
  <2>7. ASSUME Blending, RowFits
        PROVE  /\ bg_y_p < BgWidth * BgHeight
               /\ i % 2 = 0 =>
                    /\ bg_c_p < (BgWidth * BgHeight) \div 2
                    /\ BgWidth % 2 = 0 => bg_c_p % 2 = j % 2
               /\ id_list[shown + 1] \in loaded
    <3>1. shown + 1 \in 1..Number
      BY <2>1, <2>7 DEF Typed, Blending, Number
    <3>2. left + j \in Nat /\ left + j < BgWidth
      <4>1. fgWidth * (shown + 1) = fgWidth * shown + fgWidth
        BY <2>1
      <4>2. (shown + 1) * fgWidth <= Number * fgWidth
        BY <2>1, <3>1, Monotone DEF Number
      <4>3. fgWidth * (shown + 1) = (shown + 1) * fgWidth
        BY <2>1
      <4>4. Number * fgWidth \in Nat /\ PosX + Number * fgWidth <= BgWidth
        BY <2>1, <2>7 DEF RowFits, Number
      <4> QED BY <2>1, <4>1, <4>2, <4>3, <4>4 DEF left, PosX
    <3>3. PosY + i < BgHeight /\ (i % 2 = 0 => (PosY + i) + 2 <= BgHeight)
      BY <2>1, <2>3, <2>7 DEF RowFits, PosY
    <3>4. bg_y_p < BgWidth * BgHeight
      <4>1. bg_y_p = (PosY + i) * BgWidth + (left + j)
        <5>1. (PosY + i) * BgWidth \in Nat /\ left \in Nat
          BY <2>1 DEF left, PosX
        <5> QED BY <2>1, <2>7, <5>1 DEF Walk, Blending
      <4> QED BY <2>1, <3>2, <3>3, <4>1, InsideLuma
    <3>5. ASSUME i % 2 = 0
          PROVE  /\ bg_c_p < (BgWidth * BgHeight) \div 2
                 /\ BgWidth % 2 = 0 => bg_c_p % 2 = j % 2
      <4>1. bg_c_p = ((PosY + i) \div 2) * BgWidth + (left + j)
        <5>1. ((PosY + i) \div 2) * BgWidth \in Nat /\ left \in Nat
          BY <2>1 DEF left, PosX
        <5> QED BY <2>1, <2>4, <2>7, <3>5, <5>1 DEF Walk, Blending
      <4>2. bg_c_p < (BgWidth * BgHeight) \div 2
        BY <2>1, <2>4, <3>2, <3>3, <3>5, <4>1, InsideChroma
      <4>3. ASSUME BgWidth % 2 = 0 PROVE bg_c_p % 2 = j % 2
        <5>1. PICK x \in Nat, y \in Nat :
                x = ((PosY + i) \div 2) * BgWidth /\ y = fgWidth * shown
          BY <2>1
        <5>2. x % 2 = 0 /\ y % 2 = 0
          <6>1. (PosY + i) \div 2 \in Nat
            BY <2>1
          <6> QED BY <2>1, <2>2, <4>3, <5>1, <6>1, EvenProduct
        <5>3. bg_c_p = x + (32 + y + j)
          BY <4>1, <5>1 DEF left, PosX
        <5> QED BY <2>1, <5>2, <5>3
      <4> QED BY <4>2, <4>3
    <3>6. id_list[shown + 1] \in loaded
      <4>1. id_list = Row(now) /\ now \in Clock /\ loaded = 0 .. (srcNum - 1)
        BY <2>7, WaterMarkAssumption DEF Shows, Blending
      <4>2. Reads(id_list, now)
        BY <4>1, RowReads
      <4> QED BY <3>1, <4>1, <4>2 DEF Reads
    <3> QED BY <3>4, <3>5, <3>6
  <2> QED BY <2>5, <2>6, <2>7
<1> QED BY <1>1, TypedInvariant, WalkInvariant, ShowsInvariant, PTL
====
