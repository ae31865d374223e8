---------------------------- MODULE ImageCropper ----------------------------
(***************************************************************************)
(* The image cropper of the client: ImageCropperLabel and the modal dialog *)
(* around it (src/client/imagecropperlabel.cpp, imagecropperdialog.h).     *)
(* A rectangle is a function of its four edges, the right and the bottom   *)
(* edge included, as a QRect is; the handle under the cursor is the set of *)
(* edges it drags.  scaledRate is kept as an exact fraction.               *)
(***************************************************************************)
EXTENDS Integers

CONSTANTS
    LabelW, LabelH,         \* size of the label that shows the image
    Images,                 \* sizes <<width, height>> of the images loaded
    Shapes,                 \* shapes asked for
    FixedSizes,             \* sizes asked for a cropper of fixed size
    Points,                 \* cursor positions, some outside the label
    dragSquareEdge,
    cropperMinimumWidth,
    cropperMinimumHeight,
    Slack                   \* bound: how far an edge may leave the label

Edges == {"l", "t", "r", "b"}

Free  == {"RECT", "ELLIPSE"}
Equal == {"SQUARE", "CIRCLE"}
Fixed == {"FIXED_RECT", "FIXED_ELLIPSE"}
CropperShape == Free \cup Equal \cup Fixed \cup {"UNDEFINED"}

Corners == {{"r", "b"}, {"l", "b"}, {"l", "t"}, {"r", "t"}}
Sides   == {{"r"}, {"b"}, {"l"}, {"t"}}
OUTSIDE == {}
INSIDE  == Edges
Handles == Corners \cup Sides \cup {OUTSIDE, INSIDE}

Rects == [Edges -> Int]
Sized(l, t, w, h) == [l |-> l, t |-> t, r |-> l + w - 1, b |-> t + h - 1]
Width(q)  == q.r - q.l + 1
Height(q) == q.b - q.t + 1
Within(q, area) ==
    area.l <= q.l /\ q.r <= area.r /\ area.t <= q.t /\ q.b <= area.b
Contains(area, p) ==
    area.l <= p[1] /\ p[1] <= area.r /\ area.t <= p[2] /\ p[2] <= area.b

\* Division of C++, which rounds towards zero.
Quotient(a, b) == IF a >= 0 THEN a \div b ELSE -((-a) \div b)

-----------------------------------------------------------------------------
(* The geometry of an image in the label.                                  *)

Tall(img) == img[1] * LabelH < img[2] * LabelW
Rate(img) == IF Tall(img) THEN <<LabelH, img[2]>> ELSE <<LabelW, img[1]>>
Scaled(x, rate) == Quotient(x * rate[1], rate[2])
Unscaled(x, rate) == Quotient(x * rate[2], rate[1])

ImageRect(img) ==
    LET w == Scaled(img[1], Rate(img))
        h == Scaled(img[2], Rate(img))
    IN  IF Tall(img) THEN Sized((LabelW - w) \div 2, 0, w, LabelH)
                     ELSE Sized(0, (LabelH - h) \div 2, LabelW, h)

\* The pixmap shown keeps the ratio of the image inside imageRect.
TempWidth(img) == (Height(ImageRect(img)) * img[1]) \div img[2]
TempHeight(img) == Height(ImageRect(img))

DefaultEdge(img) ==
    LET w == TempWidth(img)
        h == TempHeight(img)
    IN  ((IF w > h THEN h ELSE w) * 3) \div 4

Centred(w, h) ==
    Sized(Quotient(LabelW - w, 2), Quotient(LabelH - h, 2), w, h)

ASSUME SizesAssumption ==
    /\ LabelW \in Nat \ {0} /\ LabelH \in Nat \ {0}
    /\ Images \subseteq (Nat \ {0}) \X (Nat \ {0})
    /\ Shapes \subseteq CropperShape
    /\ FixedSizes \subseteq (Nat \ {0}) \X (Nat \ {0})
    /\ Points \subseteq Int \X Int
    /\ dragSquareEdge \in Nat /\ dragSquareEdge >= 3
    /\ cropperMinimumWidth \in Nat /\ cropperMinimumHeight \in Nat
    /\ Slack \in Nat

ASSUME ScaledAssumption ==
    \A img \in Images : /\ Scaled(img[1], Rate(img)) \in 1 .. LabelW
                        /\ Scaled(img[2], Rate(img)) \in 1 .. LabelH
                        /\ TempWidth(img) \in 0 .. Width(ImageRect(img))

-----------------------------------------------------------------------------
VARIABLES
    open,           \* the modal dialog exists
    image,          \* originalImage, by its size
    cropperShape,
    cropperSize,    \* cropperRect_, the real size of a fixed cropper
    cropperRect,
    isLButtonPressed,
    isCursorPosCalculated,
    handle,         \* cursorPosInCropperRect
    cursor,         \* the handle whose cursor is shown; OUTSIDE is the arrow
    lastPos

\* A value that is never read before it is written again is reset to these.
Origin == CHOOSE p \in Points : TRUE
Idle == OUTSIDE

mouse == <<isLButtonPressed, isCursorPosCalculated, handle, lastPos>>
vars == <<open, image, cropperShape, cropperSize, cropperRect, mouse, cursor>>

TypeOK ==
    /\ open \in BOOLEAN
    /\ image \in Images
    /\ cropperShape \in Shapes \cup {"UNDEFINED"}
    /\ cropperSize \in FixedSizes
    /\ cropperRect \in Rects
    /\ isLButtonPressed \in BOOLEAN
    /\ isCursorPosCalculated \in BOOLEAN
    /\ handle \in Handles
    /\ cursor \in Handles
    /\ lastPos \in Points

ImageRects == [img \in Images |-> ImageRect(img)]
imageRect == ImageRects[image]
scaledRate == Rate(image)

\* The cropper of a shape at its default place; "old" stays if UNDEFINED.
resetCropperPos(shape, size, img, old) ==
    IF shape \in Fixed
    THEN Centred(Scaled(size[1], Rate(img)), Scaled(size[2], Rate(img)))
    ELSE IF shape = "UNDEFINED" THEN old
    ELSE Centred(DefaultEdge(img), DefaultEdge(img))

NullRect == Sized(0, 0, 0, 0)

Init ==
    /\ open = FALSE
    /\ image \in Images
    /\ cropperShape = "UNDEFINED"
    /\ cropperSize \in FixedSizes
    /\ cropperRect = NullRect
    /\ isLButtonPressed = FALSE
    /\ isCursorPosCalculated = FALSE
    /\ handle = Idle
    /\ cursor = OUTSIDE
    /\ lastPos = Origin

-----------------------------------------------------------------------------
(* The dialog.                                                             *)

\* ImageCropperDialog::getCroppedImage: a fresh label for the chosen image.
\* (An image that cannot be loaded opens no dialog.)
Open(img, shape, size) ==
    /\ ~open
    /\ open' = TRUE
    /\ image' = img
    /\ cropperShape' = shape
    /\ cropperSize' = size
    /\ cropperRect' = resetCropperPos(shape, size, img, NullRect)
    /\ isLButtonPressed' = FALSE
    /\ isCursorPosCalculated' = FALSE
    /\ handle' = Idle
    /\ cursor' = OUTSIDE
    /\ lastPos' = Origin

\* Mutant: the cropper's place in the label is taken for that in the image.
Requested_InLabel ==
    <<Unscaled(cropperRect.l, scaledRate), Unscaled(cropperRect.t, scaledRate),
      Unscaled(Width(cropperRect), scaledRate),
      Unscaled(Height(cropperRect), scaledRate)>>

\* The part of the original image under the cropper.  QPixmap::copy takes the
\* whole image for an empty rectangle and clips any other one to the image.
Requested ==
    <<Unscaled(cropperRect.l - imageRect.l, scaledRate),
      Unscaled(cropperRect.t - imageRect.t, scaledRate),
      Unscaled(Width(cropperRect), scaledRate),
      Unscaled(Height(cropperRect), scaledRate)>>

Least(a, b) == IF a <= b THEN a ELSE b
Greatest(a, b) == IF a >= b THEN a ELSE b

getCroppedImage ==
    LET x == Greatest(Requested[1], 0)
        y == Greatest(Requested[2], 0)
        right  == Least(Requested[1] + Requested[3], image[1])
        bottom == Least(Requested[2] + Requested[4], image[2])
    IN  IF Requested[3] <= 0 \/ Requested[4] <= 0
        THEN <<0, 0, image[1], image[2]>>
        ELSE IF right <= x \/ bottom <= y THEN <<>>
        ELSE <<x, y, right - x, bottom - y>>

\* OK hands getCroppedImage to the caller, Cancel a null pixmap; closing the
\* dialog deletes the label (WA_DeleteOnClose).
Close ==
    /\ open
    /\ open' = FALSE
    /\ cropperShape' = "UNDEFINED"
    /\ cropperRect' = NullRect
    /\ isLButtonPressed' = FALSE
    /\ isCursorPosCalculated' = FALSE
    /\ handle' = Idle
    /\ cursor' = OUTSIDE
    /\ lastPos' = Origin
    /\ UNCHANGED <<image, cropperSize>>

\* The set...Cropper and setCropper...Size functions all end in
\* resetCropperPos, whatever the mouse is doing.
setCropper(shape, size) ==
    /\ open
    /\ cropperShape' = shape
    /\ cropperSize' = size
    /\ cropperRect' = resetCropperPos(shape, size, image, cropperRect)
    /\ UNCHANGED <<open, image, mouse, cursor>>

-----------------------------------------------------------------------------
(* The mouse.                                                              *)

mousePressEvent(p) ==
    /\ open /\ ~isLButtonPressed
    /\ isLButtonPressed' = TRUE
    /\ lastPos' = p
    /\ UNCHANGED <<open, image, cropperShape, cropperSize, cropperRect, handle,
                   isCursorPosCalculated, cursor>>

mouseReleaseEvent ==
    /\ open /\ isLButtonPressed
    /\ isLButtonPressed' = FALSE
    /\ isCursorPosCalculated' = FALSE
    /\ handle' = Idle
    /\ lastPos' = Origin
    /\ cursor' = OUTSIDE
    /\ UNCHANGED <<open, image, cropperShape, cropperSize, cropperRect>>

MidX == Quotient(cropperRect.l + cropperRect.r, 2)
MidY == Quotient(cropperRect.t + cropperRect.b, 2)

\* Where the drag square of a handle is drawn and felt.
Square(h) ==
    <<IF "l" \in h THEN cropperRect.l
      ELSE IF "r" \in h THEN cropperRect.r ELSE MidX,
      IF "t" \in h THEN cropperRect.t
      ELSE IF "b" \in h THEN cropperRect.b ELSE MidY>>

Near(p, q) ==
    /\ dragSquareEdge >= 2 * (p[1] - q[1]) /\ dragSquareEdge >= 2 * (q[1] - p[1])
    /\ dragSquareEdge >= 2 * (p[2] - q[2]) /\ dragSquareEdge >= 2 * (q[2] - p[2])

\* The order in which getPosInCropperRect tries the drag squares.
Order == <<{"r"}, {"r", "b"}, {"b"}, {"l", "b"}, {"l"}, {"l", "t"}, {"t"},
           {"r", "t"}>>

StrictlyInside(p) ==
    /\ Least(cropperRect.l, cropperRect.r) < p[1]
    /\ p[1] < Greatest(cropperRect.l, cropperRect.r)
    /\ Least(cropperRect.t, cropperRect.b) < p[2]
    /\ p[2] < Greatest(cropperRect.t, cropperRect.b)

\* Mutant: every drag square under the cursor counts, not the first.
getPosInCropperRect_All(p) ==
    LET hit == {i \in 1 .. 8 : Near(p, Square(Order[i]))}
    IN  IF hit # {} THEN UNION {Order[i] : i \in hit}
        ELSE IF StrictlyInside(p) THEN INSIDE ELSE OUTSIDE

getPosInCropperRect(p) ==
    LET hit == {i \in 1 .. 8 : Near(p, Square(Order[i]))}
    IN  IF hit # {} THEN Order[CHOOSE i \in hit : \A j \in hit : i <= j]
        ELSE IF StrictlyInside(p) THEN INSIDE ELSE OUTSIDE

\* A shape that cannot be resized at a handle keeps the cursor it had.
Resizes(shape, h) ==
    h \in Corners \cup Sides
        /\ shape \in (IF h \in Corners THEN Free \cup Equal ELSE Free)
changeCursor(h) ==
    IF h \in {OUTSIDE, INSIDE} \/ Resizes(cropperShape, h) THEN h ELSE cursor

\* disX or disY: how large the cropper would be with edge e at p.
Dis(e, p) ==
    CASE e = "r" -> p[1] - cropperRect.l
      [] e = "l" -> cropperRect.r - p[1]
      [] e = "b" -> p[2] - cropperRect.t
      [] e = "t" -> cropperRect.b - p[2]
At(e, p) == IF e \in {"l", "r"} THEN p[1] ELSE p[2]
Minimum(e) ==
    IF e \in {"l", "r"} THEN cropperMinimumWidth ELSE cropperMinimumHeight

\* A corner of a free cropper: each edge follows the cursor on its own.
FreeCorner(h, p) ==
    [e \in Edges |-> IF e \in h /\ Dis(e, p) >= Minimum(e) THEN At(e, p)
                     ELSE cropperRect[e]]

\* A side of a free cropper: the right one follows the cursor, the others
\* move by the cursor's offset; the left one is held to the minimum HEIGHT.
FreeSide(e, p, off) ==
    IF e = "r"
    THEN IF Dis(e, p) >= cropperMinimumWidth
         THEN [cropperRect EXCEPT !.r = p[1]] ELSE cropperRect
    ELSE IF Dis(e, p) >= cropperMinimumHeight
         THEN [cropperRect EXCEPT ![e] = @ + At(e, off)] ELSE cropperRect

\* A corner of a square: the longer distance d becomes the edge, if the edge
\* that does not follow the cursor still fits into the image.
Reach(e, d) ==
    CASE e = "r" -> cropperRect.l + d
      [] e = "l" -> cropperRect.r - d
      [] e = "b" -> cropperRect.t + d
      [] e = "t" -> cropperRect.b - d
Fits(e, d) ==
    IF e \in {"r", "b"} THEN Reach(e, d) <= imageRect[e]
                        ELSE Reach(e, d) >= imageRect[e]
\* Mutant: the other edge is not held inside the image.
Stretch_Unchecked(lead, other, d, p) ==
    [cropperRect EXCEPT ![lead] = At(lead, p), ![other] = Reach(other, d)]

Stretch(lead, other, d, p) ==
    IF Fits(other, d)
    THEN [cropperRect EXCEPT ![lead] = At(lead, p), ![other] = Reach(other, d)]
    ELSE cropperRect
EqualCorner(x, y, p) ==
    LET disX == Dis(x, p)
        disY == Dis(y, p)
        wide == IF x = "r" /\ y = "t" THEN disX >= disY ELSE disX > disY
    IN  IF disX < cropperMinimumWidth \/ disY < cropperMinimumHeight
        THEN cropperRect
        ELSE IF wide THEN Stretch(x, y, disX, p)
                     ELSE Stretch(y, x, disY, p)

\* Mutant: only the right and the bottom edge are held.
Kept_High(off, low, high) ==
    IF off > 0 /\ cropperRect[high] + off > imageRect[high] THEN 0 ELSE off

\* The whole cropper: an offset that would leave the image is dropped.
Kept(off, low, high) ==
    IF off > 0 /\ cropperRect[high] + off > imageRect[high] THEN 0
    ELSE IF off < 0 /\ cropperRect[low] + off < imageRect[low] THEN 0
    ELSE off
Moved(off) ==
    LET dx == Kept(off[1], "l", "r")
        dy == Kept(off[2], "t", "b")
    IN  [e \in Edges |-> cropperRect[e] + At(e, <<dx, dy>>)]

\* BOTTOM_LEFT is the one corner that also resizes a fixed cropper.
Dragged(h, p, off) ==
    IF h = OUTSIDE THEN cropperRect
    ELSE IF h = INSIDE THEN Moved(off)
    ELSE IF h \in Sides
    THEN IF cropperShape \in Free
         THEN FreeSide(CHOOSE e \in h : TRUE, p, off) ELSE cropperRect
    ELSE IF cropperShape \in (IF h = {"l", "b"} THEN Free \cup Fixed ELSE Free)
    THEN FreeCorner(h, p)
    ELSE IF cropperShape \in Equal
    THEN EqualCorner(IF "l" \in h THEN "l" ELSE "r",
                     IF "t" \in h THEN "t" ELSE "b", p)
    ELSE cropperRect

InBounds(q) ==
    Within(q, [l |-> -Slack, t |-> -Slack, r |-> LabelW + Slack,
               b |-> LabelH + Slack])

mouseMoveEvent(p) ==
    LET h == IF isCursorPosCalculated THEN handle ELSE getPosInCropperRect(p)
        drag == isLButtonPressed /\ Contains(imageRect, p)
        rect == IF drag
                THEN Dragged(h, p, <<p[1] - lastPos[1], p[2] - lastPos[2]>>)
                ELSE cropperRect
    IN  /\ open
        /\ InBounds(rect)
        /\ handle' = IF isCursorPosCalculated \/ drag THEN h ELSE Idle
        /\ cursor' = IF isCursorPosCalculated THEN cursor ELSE changeCursor(h)
        /\ cropperRect' = rect
        /\ lastPos' = IF drag THEN p ELSE lastPos
        /\ isCursorPosCalculated' = (isCursorPosCalculated \/ drag)
        /\ UNCHANGED <<open, image, cropperShape, cropperSize,
                       isLButtonPressed>>

Mouse ==
    \/ \E p \in Points : mousePressEvent(p) \/ mouseMoveEvent(p)
    \/ mouseReleaseEvent

Next ==
    \/ \E img \in Images, shape \in Shapes, size \in FixedSizes :
            Open(img, shape, size)
    \/ Close
    \/ \E shape \in Shapes, size \in FixedSizes : setCropper(shape, size)
    \/ Mouse

Spec == Init /\ [][Next]_vars

-----------------------------------------------------------------------------
(* Properties.                                                             *)

IsSquare(q) == Width(q) = Height(q)

\* A square or circular cropper is square and inside the image in every state,
\* however its corners are dragged, although each corner moves two edges and
\* checks only one of them against the image.
SquareInside ==
    open /\ cropperShape \in Equal
        => IsSquare(cropperRect) /\ Within(cropperRect, imageRect)

\* "Make sure the cropperRect is entirely inside the imageRect": a move of the
\* whole cropper keeps its size, and keeps it inside if it was inside.
MoveKeepsInside ==
    [][(handle' = INSIDE /\ open /\ open' /\ cropperShape' = cropperShape
            /\ lastPos' # lastPos /\ isLButtonPressed')
        => /\ Width(cropperRect') = Width(cropperRect)
           /\ Height(cropperRect') = Height(cropperRect)
           /\ (Within(cropperRect, imageRect) => Within(cropperRect', imageRect))
      ]_vars

\* What is cut out of the original image is exactly what the frame covers: no
\* part of a frame that lies inside the image falls off the original.
NothingClipped ==
    (/\ open /\ Within(cropperRect, imageRect)
     /\ Width(cropperRect) >= 1 /\ Height(cropperRect) >= 1)
        => \/ getCroppedImage = Requested
           \/ Requested[3] = 0 \/ Requested[4] = 0
=============================================================================
