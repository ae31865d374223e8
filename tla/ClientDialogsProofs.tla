-------------------------- MODULE ClientDialogsProofs --------------------------
(***************************************************************************)
(* Proofs about the two dialogs.  The cropper, for every size of label and *)
(* image (whose scaled sizes are as ScaledAssumption says), every cursor   *)
(* position and every sequence of mouse events and calls: a square cropper *)
(* is square and inside the image, a move keeps a cropper inside, and what *)
(* is cut out of the original lies inside it.  SquareInside is inductive   *)
(* once the edges are known to be integers; what is cut out is a matter of *)
(* quotients (SharesFit).                                                  *)
(*                                                                         *)
(* Then both dialogs together: what is shown of the cropper holds beside   *)
(* the friend request dialog too, and in that dialog hints and labels go   *)
(* together and labels do not overlap.  HintsFollowLabels is inductive     *)
(* once hint_labels_ is known to say yes or no of each of its keys; where  *)
(* a label goes depends on all those before it, so that there the          *)
(* induction is over the labels (FriendFlow), and the steps need only keep *)
(* the container as high as the flow is (Roomy).                           *)
(***************************************************************************)
EXTENDS ClientDialogs, WellFoundedInduction, TLAPS

\* The parts of TypeOK that the geometry needs.
Typed ==
  /\ image \in Images
  /\ cropperSize \in FixedSizes
  /\ cropperRect \in Rects
  /\ Points # {} => lastPos \in Points

Inv == Typed /\ SquareInside

LEMMA SizedIsRect ==
  ASSUME NEW l \in Int, NEW t \in Int, NEW w \in Int, NEW h \in Int
  PROVE  /\ Sized(l, t, w, h) \in Rects
         /\ Sized(l, t, w, h).l = l /\ Sized(l, t, w, h).r = l + w - 1
         /\ Sized(l, t, w, h).t = t /\ Sized(l, t, w, h).b = t + h - 1
  BY DEF Sized, Rects, Edges

LEMMA SizedSizes ==
  ASSUME NEW l \in Int, NEW t \in Int, NEW w \in Int, NEW h \in Int
  PROVE  Width(Sized(l, t, w, h)) = w /\ Height(Sized(l, t, w, h)) = h
  BY DEF Sized, Width, Height

LEMMA QuotientIsInt ==
  ASSUME NEW a \in Int, NEW b \in Nat \ {0} PROVE Quotient(a, b) \in Int
  BY DEF Quotient

\* The image is shown in the middle of the label: its sizes, and the smaller one.
LEMMA Geometry ==
  ASSUME NEW img \in Images
  PROVE  \E w \in 1..LabelW, h \in 1..LabelH :
           /\ ImageRect(img) = Sized((LabelW - w) \div 2, (LabelH - h) \div 2, w, h)
           /\ TempHeight(img) = h /\ TempWidth(img) \in 0..w
<1> DEFINE w == Scaled(img[1], Rate(img))
           h == Scaled(img[2], Rate(img))
           rect == ImageRect(img)
<1>1. w \in 1..LabelW /\ h \in 1..LabelH /\ TempWidth(img) \in 0 .. Width(rect)
  BY ScaledAssumption
<1>2. LabelW \in Nat \ {0} /\ LabelH \in Nat \ {0}
  BY SizesAssumption DEF SizesAssumption
<1>3. rect = IF Tall(img) THEN Sized((LabelW - w) \div 2, 0, w, LabelH)
                          ELSE Sized(0, (LabelH - h) \div 2, LabelW, h)
  BY DEF ImageRect
<1>4. TempHeight(img) = Height(rect)
  BY DEF TempHeight
<1> HIDE DEF w, h, rect
<1>5. CASE Tall(img)
  <2>1. rect = Sized((LabelW - w) \div 2, (LabelH - LabelH) \div 2, w, LabelH)
    BY <1>2, <1>3, <1>5
  <2>2. Width(rect) = w /\ Height(rect) = LabelH
    <3>1. (LabelW - w) \div 2 \in Int /\ (LabelH - LabelH) \div 2 \in Int /\ w \in Int /\ LabelH \in Int
      BY <1>1, <1>2
    <3> QED
      BY ONLY <2>1, <3>1, SizedSizes
  <2> QED
    BY <1>1, <1>2, <1>4, <2>1, <2>2 DEF rect
<1>6. CASE ~Tall(img)
  <2>1. rect = Sized((LabelW - LabelW) \div 2, (LabelH - h) \div 2, LabelW, h)
    BY <1>2, <1>3, <1>6
  <2>2. Width(rect) = LabelW /\ Height(rect) = h
    <3>1. (LabelW - LabelW) \div 2 \in Int /\ (LabelH - h) \div 2 \in Int /\ LabelW \in Int /\ h \in Int
      BY <1>1, <1>2
    <3> QED
      BY ONLY <2>1, <3>1, SizedSizes
  <2> QED
    BY <1>1, <1>2, <1>4, <2>1, <2>2 DEF rect
<1> QED
  BY <1>5, <1>6

LEMMA ImageRectTyped == ASSUME NEW img \in Images PROVE ImageRect(img) \in Rects
<1>1. PICK w \in 1..LabelW, h \in 1..LabelH :
        ImageRect(img) = Sized((LabelW - w) \div 2, (LabelH - h) \div 2, w, h)
  BY Geometry
<1>2. /\ (LabelW - w) \div 2 \in Int /\ (LabelH - h) \div 2 \in Int
      /\ w \in Int /\ h \in Int
  BY SizesAssumption DEF SizesAssumption
<1> QED
  BY <1>1, <1>2, SizedIsRect

\* The default cropper is square, and as it is centred like the image and smaller
\* than its shorter edge, inside the image.
LEMMA DefaultInside ==
  ASSUME NEW img \in Images
  PROVE  LET q == Centred(DefaultEdge(img), DefaultEdge(img))
         IN  q \in Rects /\ IsSquare(q) /\ Within(q, ImageRect(img))
<1>1. PICK w \in 1..LabelW, h \in 1..LabelH :
        /\ ImageRect(img) = Sized((LabelW - w) \div 2, (LabelH - h) \div 2, w, h)
        /\ TempHeight(img) = h /\ TempWidth(img) \in 0..w
  BY Geometry
<1>2. LabelW \in Nat /\ LabelH \in Nat
  BY SizesAssumption DEF SizesAssumption
<1> DEFINE e == DefaultEdge(img)
<1>3. e \in Nat /\ e <= w /\ e <= h
  BY <1>1, <1>2 DEF DefaultEdge
<1> HIDE DEF e
<1>4. /\ (LabelW - w) \div 2 \in Int /\ (LabelH - h) \div 2 \in Int
      /\ (LabelW - e) \div 2 \in Int /\ (LabelH - e) \div 2 \in Int
      /\ (LabelW - w) \div 2 <= (LabelW - e) \div 2
      /\ (LabelW - e) \div 2 + e <= (LabelW - w) \div 2 + w
      /\ (LabelH - h) \div 2 <= (LabelH - e) \div 2
      /\ (LabelH - e) \div 2 + e <= (LabelH - h) \div 2 + h
  BY <1>2, <1>3
<1>5. Centred(e, e) = Sized((LabelW - e) \div 2, (LabelH - e) \div 2, e, e)
  BY <1>2, <1>3 DEF Centred, Quotient
<1>6. Centred(e, e) \in Rects /\ IsSquare(Centred(e, e)) /\ Within(Centred(e, e), ImageRect(img))
  <2> DEFINE x == (LabelW - w) \div 2
             y == (LabelH - h) \div 2
             cx == (LabelW - e) \div 2
             cy == (LabelH - e) \div 2
  <2>1. /\ x \in Int /\ y \in Int /\ cx \in Int /\ cy \in Int
        /\ x <= cx /\ cx + e <= x + w /\ y <= cy /\ cy + e <= y + h
        /\ w \in Int /\ h \in Int /\ e \in Int
        /\ ImageRect(img) = Sized(x, y, w, h) /\ Centred(e, e) = Sized(cx, cy, e, e)
    BY <1>1, <1>2, <1>3, <1>4, <1>5
  <2> HIDE DEF x, y, cx, cy
  <2>2. Sized(cx, cy, e, e) \in Rects /\ IsSquare(Sized(cx, cy, e, e))
    <3>1. Sized(cx, cy, e, e) \in Rects
      BY ONLY <2>1, SizedIsRect
    <3>2. Width(Sized(cx, cy, e, e)) = e /\ Height(Sized(cx, cy, e, e)) = e
      BY ONLY <2>1, SizedSizes
    <3> QED
      BY ONLY <3>1, <3>2 DEF IsSquare
  <2>3. Within(Sized(cx, cy, e, e), Sized(x, y, w, h))
    BY ONLY <2>1 DEF Within, Sized
  <2> QED
    BY ONLY <2>1, <2>2, <2>3
<1> QED
  BY <1>6 DEF e

\* Whatever the shape, the cropper that is reset has integer edges.
LEMMA ResetTyped ==
  ASSUME NEW img \in Images, NEW size \in FixedSizes, NEW shape, NEW old \in Rects
  PROVE  resetCropperPos(shape, size, img, old) \in Rects
<1> DEFINE rate == Rate(img)
<1>1. rate \in (Nat \ {0}) \X (Nat \ {0}) /\ size \in (Nat \ {0}) \X (Nat \ {0})
  BY SizesAssumption DEF SizesAssumption, Rate
<1>2. LabelW \in Int /\ LabelH \in Int
  BY SizesAssumption DEF SizesAssumption
<1> HIDE DEF rate
<1>3. Scaled(size[1], rate) \in Int /\ Scaled(size[2], rate) \in Int
  <2>1. \A i \in Int, r \in Nat \ {0} : i * r \in Int
    OBVIOUS
  <2>2. size[1] \in Int /\ size[2] \in Int /\ rate[1] \in Nat \ {0} /\ rate[2] \in Nat \ {0}
    BY <1>1
  <2>3. size[1] * rate[1] \in Int /\ size[2] * rate[1] \in Int
    BY ONLY <2>1, <2>2, Zenon
  <2> QED
    BY ONLY <2>2, <2>3, QuotientIsInt, Zenon DEF Scaled
<1>4. ASSUME NEW w \in Int, NEW h \in Int PROVE Centred(w, h) \in Rects
  <2>1. Quotient(LabelW - w, 2) \in Int /\ Quotient(LabelH - h, 2) \in Int
    BY <1>2 DEF Quotient
  <2> QED
    BY <2>1, SizedIsRect DEF Centred
<1>5. Centred(Scaled(size[1], rate), Scaled(size[2], rate)) \in Rects
  BY <1>3, <1>4
<1>6. Centred(DefaultEdge(img), DefaultEdge(img)) \in Rects
  BY DefaultInside
<1> QED
  BY <1>5, <1>6 DEF resetCropperPos, rate

LEMMA ResetInside ==
  ASSUME NEW img \in Images, NEW size, NEW shape \in Equal, NEW old
  PROVE  LET q == resetCropperPos(shape, size, img, old)
         IN  IsSquare(q) /\ Within(q, ImageRect(img))
<1>1. shape \notin Fixed /\ shape # "UNDEFINED"
  BY DEF Equal, Fixed
<1> QED
  BY <1>1, DefaultInside DEF resetCropperPos

LEMMA InvInit == Init => Inv
<1> SUFFICES ASSUME Init PROVE Inv
  OBVIOUS
<1>1. NullRect \in Rects
  BY SizedIsRect DEF NullRect
<1>2. Points # {} => Origin \in Points
  BY DEF Origin
<1> QED
  BY <1>1, <1>2 DEF Init, Inv, Typed, SquareInside

\* The cropper between the mouse's old and new position.
LEMMA MovedKeeps ==
  ASSUME Typed, NEW dx \in Int, NEW dy \in Int
  PROVE  /\ Moved(<<dx, dy>>) \in Rects
         /\ Width(Moved(<<dx, dy>>)) = Width(cropperRect)
         /\ Height(Moved(<<dx, dy>>)) = Height(cropperRect)
         /\ Within(cropperRect, imageRect) => Within(Moved(<<dx, dy>>), imageRect)
<1> DEFINE x == Kept(dx, "l", "r")
           y == Kept(dy, "t", "b")
           q == Moved(<<dx, dy>>)
<1>1. imageRect \in Rects /\ cropperRect \in Rects
  BY ImageRectTyped DEF Typed, imageRect, ImageRects
<1>2. /\ x \in Int
      /\ x > 0 => cropperRect.r + x <= imageRect.r
      /\ x < 0 => cropperRect.l + x >= imageRect.l
  BY <1>1 DEF Kept, Rects, Edges
<1>3. /\ y \in Int
      /\ y > 0 => cropperRect.b + y <= imageRect.b
      /\ y < 0 => cropperRect.t + y >= imageRect.t
  BY <1>1 DEF Kept, Rects, Edges
<1>4. q = [e \in Edges |-> cropperRect[e] + At(e, <<x, y>>)]
  BY DEF Moved
<1> HIDE DEF x, y, q
<1>5. /\ q \in Rects
      /\ q.l = cropperRect.l + x /\ q.r = cropperRect.r + x
      /\ q.t = cropperRect.t + y /\ q.b = cropperRect.b + y
  BY <1>1, <1>2, <1>3, <1>4 DEF Rects, Edges, At
<1>6. Width(q) = Width(cropperRect) /\ Height(q) = Height(cropperRect)
  BY <1>1, <1>2, <1>3, <1>5 DEF Rects, Edges, Width, Height
<1>7. Within(cropperRect, imageRect) => Within(q, imageRect)
  BY <1>1, <1>2, <1>3, <1>5 DEF Rects, Edges, Within
<1> QED
  BY <1>5, <1>6, <1>7 DEF q

\* A corner of a square, dragged to p in the image: the edge that leads is where p
\* is, the other one is checked.
LEMMA CornerInside ==
  ASSUME Typed, IsSquare(cropperRect), Within(cropperRect, imageRect),
         NEW x \in {"l", "r"}, NEW y \in {"t", "b"},
         NEW p \in Points, Contains(imageRect, p)
  PROVE  LET q == EqualCorner(x, y, p)
         IN  q \in Rects /\ IsSquare(q) /\ Within(q, imageRect)
<1> DEFINE q == EqualCorner(x, y, p)
<1>1. imageRect \in Rects /\ cropperRect \in Rects /\ p[1] \in Int /\ p[2] \in Int
  BY ImageRectTyped, SizesAssumption DEF SizesAssumption, Typed, imageRect, ImageRects
<1>2. cropperMinimumWidth \in Nat /\ cropperMinimumHeight \in Nat
  BY SizesAssumption DEF SizesAssumption
<1>3. \/ q = cropperRect
      \/ Dis(x, p) >= 0 /\ Fits(y, Dis(x, p))
           /\ q = [cropperRect EXCEPT ![x] = p[1], ![y] = Reach(y, Dis(x, p))]
      \/ Dis(y, p) >= 0 /\ Fits(x, Dis(y, p))
           /\ q = [cropperRect EXCEPT ![y] = p[2], ![x] = Reach(x, Dis(y, p))]
  <2>1. Dis(x, p) \in Int /\ Dis(y, p) \in Int
    BY <1>1 DEF Dis, Rects, Edges
  <2>2. At(x, p) = p[1] /\ At(y, p) = p[2]
    BY DEF At
  <2>3. \/ q = cropperRect
        \/ Dis(x, p) >= cropperMinimumWidth /\ q = Stretch(x, y, Dis(x, p), p)
        \/ Dis(y, p) >= cropperMinimumHeight /\ q = Stretch(y, x, Dis(y, p), p)
    BY <1>2, <2>1 DEF EqualCorner
  <2> QED
    BY <1>2, <2>1, <2>2, <2>3 DEF Stretch
<1> HIDE DEF q
<1>4. CASE q = cropperRect
  BY <1>1, <1>4 DEF q
<1>5. CASE Dis(x, p) >= 0 /\ Fits(y, Dis(x, p))
           /\ q = [cropperRect EXCEPT ![x] = p[1], ![y] = Reach(y, Dis(x, p))]
  <2>1. Reach(y, Dis(x, p)) \in Int
    BY <1>1 DEF Reach, Dis, Rects, Edges
  <2>2. q \in Rects
    BY <1>1, <1>5, <2>1 DEF Rects, Edges
  <2>3. IsSquare(q)
    BY <1>1, <1>5 DEF IsSquare, Width, Height, Reach, Dis, Rects, Edges
  <2>4. Within(q, imageRect)
    BY <1>1, <1>5 DEF Within, Contains, Fits, Reach, Dis, Rects, Edges
  <2> QED
    BY <2>2, <2>3, <2>4 DEF q
<1>6. CASE Dis(y, p) >= 0 /\ Fits(x, Dis(y, p))
           /\ q = [cropperRect EXCEPT ![y] = p[2], ![x] = Reach(x, Dis(y, p))]
  <2>1. Reach(x, Dis(y, p)) \in Int
    BY <1>1 DEF Reach, Dis, Rects, Edges
  <2>2. q \in Rects
    BY <1>1, <1>6, <2>1 DEF Rects, Edges
  <2>3. IsSquare(q)
    BY <1>1, <1>6 DEF IsSquare, Width, Height, Reach, Dis, Rects, Edges
  <2>4. Within(q, imageRect)
    BY <1>1, <1>6 DEF Within, Contains, Fits, Reach, Dis, Rects, Edges
  <2> QED
    BY <2>2, <2>3, <2>4 DEF q
<1> QED
  BY <1>3, <1>4, <1>5, <1>6 DEF q

\* What a move of the mouse does to the cropper while the left button is down.
LEMMA DraggedInside ==
  ASSUME Typed, NEW h, NEW p \in Points, Contains(imageRect, p), NEW off \in Int \X Int,
         cropperShape \in Equal, IsSquare(cropperRect), Within(cropperRect, imageRect)
  PROVE  IsSquare(Dragged(h, p, off)) /\ Within(Dragged(h, p, off), imageRect)
<1>1. cropperShape \notin Free /\ cropperShape \notin Free \cup Fixed
  BY DEF Equal, Free, Fixed
<1> DEFINE x == IF "l" \in h THEN "l" ELSE "r"
           y == IF "t" \in h THEN "t" ELSE "b"
<1>2. \/ Dragged(h, p, off) = cropperRect
      \/ Dragged(h, p, off) = Moved(off)
      \/ Dragged(h, p, off) = EqualCorner(x, y, p)
  BY <1>1 DEF Dragged
<1>3. IsSquare(Moved(off)) /\ Within(Moved(off), imageRect)
  <2>1. PICK dx \in Int, dy \in Int : off = <<dx, dy>>
    OBVIOUS
  <2> QED
    BY <2>1, MovedKeeps DEF IsSquare
<1>4. IsSquare(EqualCorner(x, y, p)) /\ Within(EqualCorner(x, y, p), imageRect)
  <2>1. x \in {"l", "r"} /\ y \in {"t", "b"}
    OBVIOUS
  <2> HIDE DEF x, y
  <2> QED
    BY <2>1, CornerInside
<1> QED
  BY <1>2, <1>3, <1>4

\* Whatever the shape, dragging leaves the edges integers.
LEMMA DraggedTyped ==
  ASSUME Typed, NEW h, NEW p \in Points, NEW off \in Int \X Int
  PROVE  Dragged(h, p, off) \in Rects
<1>1. /\ cropperRect \in [Edges -> Int] /\ imageRect \in Rects /\ p[1] \in Int /\ p[2] \in Int
      /\ off[1] \in Int /\ off[2] \in Int
  BY ImageRectTyped, SizesAssumption DEF SizesAssumption, Typed, Rects, imageRect, ImageRects
<1>2. Moved(off) \in Rects
  <2>1. PICK dx \in Int, dy \in Int : off = <<dx, dy>>
    OBVIOUS
  <2> QED
    BY <2>1, MovedKeeps
<1>3. FreeCorner(h, p) \in Rects
  BY <1>1 DEF FreeCorner, At, Rects
<1>4. \A e \in Edges : FreeSide(e, p, off) \in Rects
  BY <1>1 DEF FreeSide, At, Rects, Edges
<1>5. \A x \in {"l", "r"}, y \in {"t", "b"} : EqualCorner(x, y, p) \in Rects
  <2> SUFFICES ASSUME NEW x \in {"l", "r"}, NEW y \in {"t", "b"} PROVE EqualCorner(x, y, p) \in Rects
    OBVIOUS
  <2>1. \A a \in Edges, b \in Edges, d \in Int : Stretch(a, b, d, p) \in Rects
    BY <1>1 DEF Stretch, At, Reach, Rects, Edges
  <2>2. Dis(x, p) \in Int /\ Dis(y, p) \in Int /\ x \in Edges /\ y \in Edges
    BY <1>1 DEF Dis, Edges
  <2> QED
    BY <1>1, <2>1, <2>2 DEF EqualCorner, Rects
<1>6. h \in Sides => (CHOOSE e \in h : TRUE) \in Edges
  BY DEF Sides, Edges
<1> QED
  BY <1>1, <1>2, <1>3, <1>4, <1>5, <1>6 DEF Dragged, Rects

LEMMA InvMove == ASSUME Inv, NEW p \in Points, mouseMoveEvent(p) PROVE Inv'
<1>1. /\ UNCHANGED <<open, image, cropperShape, cropperSize>> /\ imageRect' = imageRect
      /\ lastPos' \in Points
  BY DEF Inv, Typed, mouseMoveEvent, imageRect, ImageRects
<1> DEFINE off == <<p[1] - lastPos[1], p[2] - lastPos[2]>>
<1>2. off \in Int \X Int
  BY SizesAssumption DEF SizesAssumption, Inv, Typed
<1>3. \/ cropperRect' = cropperRect
      \/ Contains(imageRect, p) /\ \E h : cropperRect' = Dragged(h, p, off)
  BY DEF mouseMoveEvent
<1> HIDE DEF off
<1>4. cropperRect' \in Rects
  BY <1>2, <1>3, DraggedTyped DEF Inv, Typed
<1>5. Typed'
  BY <1>1, <1>4 DEF Inv, Typed
<1>6. SquareInside'
  BY <1>1, <1>2, <1>3, DraggedInside DEF Inv, SquareInside
<1> QED
  BY <1>5, <1>6 DEF Inv

LEMMA InvReset ==
  ASSUME Inv, NEW shape \in Shapes, NEW size \in FixedSizes,
         setCropper(shape, size) \/ \E img \in Images : Open(img, shape, size)
  PROVE  Inv'
<1>1. NullRect \in Rects
  BY SizedIsRect DEF NullRect
<1>2. Points # {} => Origin \in Points
  BY DEF Origin
<1>3. PICK old \in Rects : /\ cropperRect' = resetCropperPos(shape, size, image', old)
                           /\ image' \in Images
  BY <1>1 DEF Inv, Typed, setCropper, Open
<1>4. /\ cropperSize' = size /\ cropperShape' = shape /\ imageRect' = ImageRect(image')
      /\ Points # {} => lastPos' \in Points
  BY <1>2, <1>3 DEF Inv, Typed, setCropper, Open, mouse, imageRect, ImageRects
<1>5. Typed'
  BY <1>3, <1>4, ResetTyped DEF Typed
<1>6. SquareInside'
  BY <1>3, <1>4, ResetInside DEF SquareInside
<1> QED
  BY <1>5, <1>6 DEF Inv

LEMMA InvOthers ==
  ASSUME Inv,
         Close \/ mouseReleaseEvent \/ (\E p \in Points : mousePressEvent(p)) \/ UNCHANGED vars
  PROVE  Inv'
<1>1. NullRect \in Rects
  BY SizedIsRect DEF NullRect
<1>2. Points # {} => Origin \in Points
  BY DEF Origin
<1>3. Typed'
  BY <1>1, <1>2 DEF Inv, Typed, Close, mouseReleaseEvent, mousePressEvent, vars, mouse
<1>4. SquareInside'
  BY DEF Inv, SquareInside, Close, mouseReleaseEvent, mousePressEvent, vars, imageRect
<1> QED
  BY <1>3, <1>4 DEF Inv

LEMMA InvNext == Inv /\ [Next]_vars => Inv'
  BY InvMove, InvReset, InvOthers DEF Next, Mouse

LEMMA InvAlways == Spec => []Inv
  BY InvInit, InvNext, PTL DEF Spec

\* A square or circular cropper stays square and inside the image, whatever the
\* image, the label and the way the mouse moves.
THEOREM SquareStaysInside == Spec => []SquareInside
<1>1. Inv => SquareInside
  BY DEF Inv
<1> QED
  BY <1>1, InvAlways, PTL

\* A move of the whole cropper, of any shape, keeps its size, and keeps it inside
\* the image if it was.
THEOREM MoveStaysInside == Spec => MoveKeepsInside
<1> DEFINE A == (handle' = INSIDE /\ open /\ open' /\ cropperShape' = cropperShape
                   /\ lastPos' # lastPos /\ isLButtonPressed')
                => /\ Width(cropperRect') = Width(cropperRect)
                   /\ Height(cropperRect') = Height(cropperRect)
                   /\ (Within(cropperRect, imageRect) => Within(cropperRect', imageRect))
<1>1. Inv /\ [Next]_vars => [A]_vars
  <2> SUFFICES ASSUME Inv, Next, handle' = INSIDE, open, lastPos' # lastPos, isLButtonPressed'
               PROVE  /\ Width(cropperRect') = Width(cropperRect)
                      /\ Height(cropperRect') = Height(cropperRect)
                      /\ (Within(cropperRect, imageRect) => Within(cropperRect', imageRect))
    OBVIOUS
  <2>1. CASE \E p \in Points : mousePressEvent(p)
    BY <2>1 DEF mousePressEvent
  <2>2. CASE \E p \in Points : mouseMoveEvent(p)
    <3>1. PICK p \in Points : mouseMoveEvent(p)
      BY <2>2
    <3> DEFINE off == <<p[1] - lastPos[1], p[2] - lastPos[2]>>
    <3>2. cropperRect' = Dragged(INSIDE, p, off)
      BY <3>1 DEF mouseMoveEvent
    <3>3. cropperRect' = Moved(off)
      BY <3>2 DEF Dragged, INSIDE, OUTSIDE, Edges
    <3>4. p[1] - lastPos[1] \in Int /\ p[2] - lastPos[2] \in Int
      BY SizesAssumption DEF SizesAssumption, Inv, Typed
    <3> QED
      BY <3>3, <3>4, MovedKeeps DEF Inv
  <2>3. ASSUME ~\E p \in Points : mousePressEvent(p) \/ mouseMoveEvent(p) PROVE FALSE
    BY <2>3 DEF Next, Mouse, Open, Close, setCropper, mouse, mouseReleaseEvent
  <2> QED
    BY <2>1, <2>2, <2>3
<1> QED
  BY <1>1, InvAlways, PTL DEF Spec, MoveKeepsInside

-------------------------------------------------------------------------------
(* The types of the cropper, and what it cuts out.                         *)

\* The first drag square under the cursor is one of the eight.
LEMMA HandleTyped == ASSUME NEW p PROVE getPosInCropperRect(p) \in Handles
<1> DEFINE hit == {i \in 1 .. 8 : Near(p, Square(Order[i]))}
           c == CHOOSE i \in hit : \A j \in hit : i <= j
<1>1. \A i \in 1 .. 8 : Order[i] \in Handles
  BY DEF Order, Handles, Corners, Sides
<1>2. INSIDE \in Handles /\ OUTSIDE \in Handles
  BY DEF Handles
<1>3. getPosInCropperRect(p) =
        IF hit # {} THEN Order[c] ELSE IF StrictlyInside(p) THEN INSIDE ELSE OUTSIDE
  BY DEF getPosInCropperRect
<1>4. hit \subseteq 1 .. 8
  OBVIOUS
<1> HIDE DEF hit
<1>5. hit # {} => \E i \in hit : \A j \in hit : i <= j
  <2>1. \A i \in hit : i \in {1, 2, 3, 4, 5, 6, 7, 8}
    BY <1>4
  <2> QED
    BY <2>1
<1>6. hit # {} => c \in 1 .. 8
  BY <1>4, <1>5
<1> HIDE DEF c
<1> QED
  BY <1>1, <1>2, <1>3, <1>6

\* The rest of TypeOK, beside Inv.
Modes ==
  /\ open \in BOOLEAN
  /\ cropperShape \in Shapes \cup {"UNDEFINED"}
  /\ isLButtonPressed \in BOOLEAN /\ isCursorPosCalculated \in BOOLEAN
  /\ handle \in Handles /\ cursor \in Handles

LEMMA IdleTyped == Idle \in Handles /\ OUTSIDE \in Handles
  BY DEF Idle, Handles

LEMMA ModesNext == ASSUME Modes, Next \/ UNCHANGED vars PROVE Modes'
<1>1. ASSUME NEW p \in Points, mouseMoveEvent(p) PROVE Modes'
  <2> DEFINE h == IF isCursorPosCalculated THEN handle ELSE getPosInCropperRect(p)
             drag == isLButtonPressed /\ Contains(imageRect, p)
  <2>1. h \in Handles
    BY HandleTyped DEF Modes
  <2>2. changeCursor(h) \in Handles
    BY <2>1 DEF changeCursor, Modes
  <2>3. /\ handle' = (IF isCursorPosCalculated \/ drag THEN h ELSE Idle)
        /\ cursor' = (IF isCursorPosCalculated THEN cursor ELSE changeCursor(h))
        /\ isCursorPosCalculated' = (isCursorPosCalculated \/ drag)
        /\ UNCHANGED <<open, cropperShape, isLButtonPressed>>
    BY <1>1 DEF mouseMoveEvent
  <2>4. isCursorPosCalculated' \in BOOLEAN
    BY <2>3
  <2> HIDE DEF h, drag
  <2> QED
    BY <2>1, <2>2, <2>3, <2>4, IdleTyped DEF Modes
<1>2. CASE Next /\ ~\E p \in Points : mouseMoveEvent(p)
  BY <1>2, IdleTyped
     DEF Next, Mouse, Modes, Open, Close, setCropper, mousePressEvent, mouseReleaseEvent, mouse
<1>3. CASE UNCHANGED vars
  BY <1>3 DEF vars, mouse, Modes
<1> QED
  BY <1>1, <1>2, <1>3

\* TypeOK holds; lastPos is one of the cursor's positions, if there are any.
LEMMA CropperTypes == ASSUME Points # {} PROVE Spec => []TypeOK
<1>1. Init => Modes
  BY IdleTyped DEF Init, Modes
<1>2. Modes /\ [Next]_vars => Modes'
  BY ModesNext
<1>3. Inv /\ Modes => TypeOK
  BY DEF Inv, Typed, Modes, TypeOK
<1> QED
  BY <1>1, <1>2, <1>3, InvAlways, PTL DEF Spec

\* Products and quotients of numbers.
LEMMA DivFloor ==
  ASSUME NEW a \in Nat, NEW b \in Nat \ {0}
  PROVE  a \div b \in Nat /\ b * (a \div b) <= a
  OBVIOUS

LEMMA TimesMonotone ==
  ASSUME NEW b \in Nat \ {0}, NEW m \in Nat, NEW n \in Nat, b * m <= b * n
  PROVE  m <= n
<1> SUFFICES ASSUME n < m PROVE FALSE
  OBVIOUS
<1>1. PICK k \in Nat \ {0} : m = n + k
  <2>1. m - n \in Nat \ {0} /\ m = n + (m - n)
    OBVIOUS
  <2> QED
    BY <2>1
<1>2. b * m = b * n + b * k
  BY <1>1
<1>3. b * k >= 1
  BY <1>1
<1>4. b * n \in Nat /\ b * k \in Nat
  BY <1>1
<1> QED
  BY <1>2, <1>3, <1>4

LEMMA ScaleMonotone ==
  ASSUME NEW a \in Nat, NEW m \in Nat, NEW n \in Nat, m <= n
  PROVE  m * a <= n * a
  OBVIOUS

\* Two shares x and w of n, scaled by a/b and cut, fit into what n is scaled to.
LEMMA SharesFit ==
  ASSUME NEW x \in Nat, NEW w \in Nat, NEW n \in Nat, NEW a \in Nat, NEW b \in Nat \ {0},
         NEW c \in Nat, x + w <= n, n * a <= b * c
  PROVE  /\ (x * a) \div b \in Nat /\ (w * a) \div b \in Nat
         /\ (x * a) \div b + (w * a) \div b <= c
<1>1. x * a \in Nat /\ w * a \in Nat
  OBVIOUS
<1> DEFINE p == (x * a) \div b
           q == (w * a) \div b
<1>2. p \in Nat /\ b * p <= x * a /\ q \in Nat /\ b * q <= w * a
  BY <1>1, DivFloor
<1> HIDE DEF p, q
<1>3. b * (p + q) = b * p + b * q /\ (x + w) * a = x * a + w * a
  BY <1>2
<1>4. (x + w) * a <= n * a
  BY ScaleMonotone
<1>5. b * (p + q) <= b * c
  <2>1. b * p \in Nat /\ b * q \in Nat /\ n * a \in Nat /\ b * c \in Nat
    BY <1>2
  <2> QED
    BY <1>1, <1>2, <1>3, <1>4, <2>1
<1>6. p + q <= c
  BY <1>2, <1>5, TimesMonotone
<1> QED
  BY <1>2, <1>6 DEF p, q

\* The image shown is, scaled back, not larger than the original, in both directions.
LEMMA ImageRectScales ==
  ASSUME NEW img \in Images
  PROVE  LET rate == Rate(img)
             rect == ImageRect(img)
         IN  /\ rate[1] \in Nat \ {0} /\ rate[2] \in Nat \ {0}
             /\ img[1] \in Nat /\ img[2] \in Nat
             /\ Width(rect) \in Nat /\ Width(rect) * rate[2] <= rate[1] * img[1]
             /\ Height(rect) \in Nat /\ Height(rect) * rate[2] <= rate[1] * img[2]
<1> DEFINE rate == Rate(img)
           rect == ImageRect(img)
           w == Scaled(img[1], rate)
           h == Scaled(img[2], rate)
<1>1. /\ LabelW \in Nat \ {0} /\ LabelH \in Nat \ {0}
      /\ img[1] \in Nat \ {0} /\ img[2] \in Nat \ {0}
  BY SizesAssumption DEF SizesAssumption
<1>2. w \in 1 .. LabelW /\ h \in 1 .. LabelH
  BY ScaledAssumption
<1>3. rect = IF Tall(img) THEN Sized((LabelW - w) \div 2, 0, w, LabelH)
                          ELSE Sized(0, (LabelH - h) \div 2, LabelW, h)
  BY DEF ImageRect
<1>4. CASE Tall(img)
  <2>1. rate[1] = LabelH /\ rate[2] = img[2]
    BY <1>4 DEF Rate
  <2>2. w = (img[1] * LabelH) \div img[2]
    <3>1. img[1] * LabelH \in Nat
      BY <1>1
    <3> QED
      BY <2>1, <3>1 DEF Scaled, Quotient
  <2>3. img[2] * w <= img[1] * LabelH
    <3>1. img[1] * LabelH \in Nat
      BY <1>1
    <3> QED
      BY <1>1, <2>2, <3>1, DivFloor
  <2> HIDE DEF w, rect, rate
  <2>4. Width(rect) = w /\ Height(rect) = LabelH
    <3>1. (LabelW - w) \div 2 \in Int /\ w \in Int /\ LabelH \in Int /\ 0 \in Int
      BY <1>1, <1>2
    <3> QED
      BY <1>3, <1>4, <3>1, SizedSizes
  <2> QED
    BY <1>1, <1>2, <2>1, <2>3, <2>4 DEF rate, rect
<1>5. CASE ~Tall(img)
  <2>1. rate[1] = LabelW /\ rate[2] = img[1]
    BY <1>5 DEF Rate
  <2>2. h = (img[2] * LabelW) \div img[1]
    <3>1. img[2] * LabelW \in Nat
      BY <1>1
    <3> QED
      BY <2>1, <3>1 DEF Scaled, Quotient
  <2>3. img[1] * h <= img[2] * LabelW
    <3>1. img[2] * LabelW \in Nat
      BY <1>1
    <3> QED
      BY <1>1, <2>2, <3>1, DivFloor
  <2> HIDE DEF h, rect, rate
  <2>4. Width(rect) = LabelW /\ Height(rect) = h
    <3>1. (LabelH - h) \div 2 \in Int /\ h \in Int /\ LabelW \in Int /\ 0 \in Int
      BY <1>1, <1>2
    <3> QED
      BY <1>3, <1>5, <3>1, SizedSizes
  <2> QED
    BY <1>1, <1>2, <2>1, <2>3, <2>4 DEF rate, rect
<1> QED
  BY <1>4, <1>5

\* A frame inside the image asks for a part that is inside the original.
LEMMA RequestedFits ==
  ASSUME Typed, Within(cropperRect, imageRect),
         Width(cropperRect) >= 1, Height(cropperRect) >= 1
  PROVE  /\ Requested \in Nat \X Nat \X Nat \X Nat
         /\ Requested[1] + Requested[3] <= image[1]
         /\ Requested[2] + Requested[4] <= image[2]
<1> DEFINE a == scaledRate[2]
           b == scaledRate[1]
           x == cropperRect.l - imageRect.l
           y == cropperRect.t - imageRect.t
           w == Width(cropperRect)
           h == Height(cropperRect)
           W == Width(imageRect)
           H == Height(imageRect)
<1>1. imageRect = ImageRect(image) /\ image \in Images
  BY DEF Typed, imageRect, ImageRects
<1>2. imageRect \in Rects /\ cropperRect \in Rects
  BY <1>1, ImageRectTyped DEF Typed
<1>3. /\ b \in Nat \ {0} /\ a \in Nat \ {0} /\ image[1] \in Nat /\ image[2] \in Nat
      /\ W \in Nat /\ W * a <= b * image[1]
      /\ H \in Nat /\ H * a <= b * image[2]
  BY <1>1, ImageRectScales DEF scaledRate
<1>4. /\ x \in Nat /\ w \in Nat /\ x + w <= W
      /\ y \in Nat /\ h \in Nat /\ y + h <= H
  BY <1>2 DEF Rects, Edges, Within, Width, Height
<1>5. Requested = <<Quotient(x * a, b), Quotient(y * a, b), Quotient(w * a, b),
                    Quotient(h * a, b)>>
  BY DEF Requested, Unscaled
<1> HIDE DEF a, b, x, y, w, h, W, H
<1>6. \A k \in Nat : Quotient(k * a, b) = (k * a) \div b
  <2>1. \A k \in Nat : k * a \in Nat
    BY <1>3
  <2> QED
    BY <2>1 DEF Quotient
<1>7. /\ (x * a) \div b \in Nat /\ (w * a) \div b \in Nat
      /\ (x * a) \div b + (w * a) \div b <= image[1]
  BY <1>3, <1>4, SharesFit
<1>8. /\ (y * a) \div b \in Nat /\ (h * a) \div b \in Nat
      /\ (y * a) \div b + (h * a) \div b <= image[2]
  BY <1>3, <1>4, SharesFit
<1>9. Requested = <<(x * a) \div b, (y * a) \div b, (w * a) \div b, (h * a) \div b>>
  BY <1>4, <1>5, <1>6
<1> QED
  BY <1>7, <1>8, <1>9

\* Nothing of a frame inside the image is lost: for every size of image and label and
\* every place of the frame, what is cut out is what the frame covers.
THEOREM NothingLostOfFrame == Spec => []NothingClipped
<1>1. Inv => NothingClipped
  <2> SUFFICES ASSUME Inv, Within(cropperRect, imageRect),
                      Width(cropperRect) >= 1, Height(cropperRect) >= 1,
                      Requested[3] # 0, Requested[4] # 0
               PROVE  getCroppedImage = Requested
    BY DEF NothingClipped
  <2>1. image[1] \in Nat /\ image[2] \in Nat
    BY SizesAssumption DEF SizesAssumption, Inv, Typed
  <2>2. PICK x \in Nat, y \in Nat, w \in Nat, h \in Nat :
          /\ Requested = <<x, y, w, h>>
          /\ x + w <= image[1] /\ y + h <= image[2] /\ w # 0 /\ h # 0
    <3>1. /\ Requested \in Nat \X Nat \X Nat \X Nat
          /\ Requested[1] + Requested[3] <= image[1]
          /\ Requested[2] + Requested[4] <= image[2]
      BY RequestedFits DEF Inv
    <3>2. PICK x \in Nat, y \in Nat, w \in Nat, h \in Nat : Requested = <<x, y, w, h>>
      BY <3>1
    <3>3. Requested[1] = x /\ Requested[2] = y /\ Requested[3] = w /\ Requested[4] = h
      BY <3>2
    <3> QED
      BY <3>1, <3>2, <3>3
  <2>3. Requested[1] = x /\ Requested[2] = y /\ Requested[3] = w /\ Requested[4] = h
    BY <2>2
  <2>4. /\ Greatest(x, 0) = x /\ Greatest(y, 0) = y
        /\ Least(x + w, image[1]) = x + w /\ Least(y + h, image[2]) = y + h
    BY <2>1, <2>2 DEF Greatest, Least
  <2>5. /\ ~(w <= 0 \/ h <= 0) /\ ~(x + w <= x \/ y + h <= y)
        /\ (x + w) - x = w /\ (y + h) - y = h
    BY <2>2
  <2>6. getCroppedImage = <<x, y, w, h>>
    BY <2>3, <2>4, <2>5 DEF getCroppedImage
  <2> QED
    BY <2>2, <2>6
<1> QED
  BY <1>1, InvAlways, PTL

-------------------------------------------------------------------------------
(* Both dialogs.                                                           *)

\* Both dialogs side by side are the cropper as far as the cropper goes.
LEMMA DialogsAreCropper == DialogsSpec => Spec
<1>1. DialogsInit => Init
  BY DEF DialogsInit
<1>2. [CropperStep \/ ApplyStep]_dialogVars => [Next]_vars
  BY DEF CropperStep, ApplyStep, dialogVars
<1> QED
  BY <1>1, <1>2, PTL DEF DialogsSpec, Spec

\* The square cropper of the run with both dialogs is inside its image as well.
THEOREM DialogsSquareStaysInside == DialogsSpec => []SquareInside
  BY DialogsAreCropper, SquareStaysInside, PTL

\* With both dialogs, too, nothing of a frame inside the image is lost.
THEOREM DialogsNothingLostOfFrame == DialogsSpec => []NothingClipped
  BY DialogsAreCropper, NothingLostOfFrame, PTL

-------------------------------------------------------------------------------
HintsTyped == hint_labels_ \in [DOMAIN hint_labels_ -> BOOLEAN]

Hints == HintsTyped /\ HintsFollowLabels

LEMMA HintsInit == DialogsInit => Hints
  BY DEF DialogsInit, ApplyInit, initData, Hints, HintsTyped, HintsFollowLabels

\* A click on a hint opens it and adds its label, or closes it and takes it away.
LEMMA HintsClickHint == ASSUME Hints, NEW k \in Keys, ClickHint(k) PROVE Hints'
<1>1. /\ k \in DOMAIN hint_labels_
      /\ hint_labels_' = [hint_labels_ EXCEPT ![k] = ~hint_labels_[k]]
  BY DEF ClickHint, ShownHints
<1>2. HintsTyped' /\ DOMAIN hint_labels_' = DOMAIN hint_labels_
  BY <1>1 DEF Hints, HintsTyped
<1>3. IF hint_labels_'[k] THEN friend_labels_' = friend_labels_ \cup {k}
                          ELSE friend_labels_' = friend_labels_ \ {k}
  BY DEF ClickHint, addFriendLabel, delFriendLabel, ShowFriendLabel
<1>4. \A h \in DOMAIN hint_labels_ : h # k => hint_labels_'[h] = hint_labels_[h]
  BY <1>1
<1>5. HintsFollowLabels'
  BY <1>1, <1>2, <1>3, <1>4 DEF Hints, HintsFollowLabels
<1> QED
  BY <1>2, <1>5 DEF Hints

\* The close button of a label takes it away and closes its hint.
LEMMA HintsFriendLabelClicked ==
  ASSUME Hints, NEW k \in Keys, onFriendLabelClicked(k) PROVE Hints'
<1>1. hint_labels_' = [h \in DOMAIN hint_labels_ |-> IF h = k THEN FALSE ELSE hint_labels_[h]]
  BY DEF onFriendLabelClicked
<1>2. friend_labels_' = friend_labels_ \ {k}
  BY DEF onFriendLabelClicked, delFriendLabel, ShowFriendLabel
<1>3. HintsTyped'
  BY <1>1 DEF Hints, HintsTyped
<1>4. HintsFollowLabels'
  BY <1>1, <1>2 DEF Hints, HintsFollowLabels
<1> QED
  BY <1>3, <1>4 DEF Hints

\* A label that is typed gets a hint, unless it has one.
LEMMA HintsEditLabelReturn == ASSUME Hints, editLabelReturn PROVE Hints'
<1> DEFINE k == edit_label
<1>1. hint_labels_' = [h \in DOMAIN hint_labels_ \cup {k} |->
                         IF h \in DOMAIN hint_labels_ THEN hint_labels_[h] ELSE TRUE]
  BY DEF editLabelReturn, addHintLabel
<1>2. friend_labels_' = friend_labels_ \cup {k}
  BY DEF editLabelReturn, addFriendLabel, ShowFriendLabel
<1>3. HintsTyped'
  BY <1>1 DEF Hints, HintsTyped
<1>4. HintsFollowLabels'
  BY <1>1, <1>2 DEF Hints, HintsFollowLabels
<1> QED
  BY <1>3, <1>4 DEF Hints

LEMMA HintsNext == Hints /\ [CropperStep \/ ApplyStep]_dialogVars => Hints'
<1> SUFFICES ASSUME Hints, [CropperStep \/ ApplyStep]_dialogVars PROVE Hints'
  OBVIOUS
<1>1. ASSUME UNCHANGED <<hint_labels_, friend_labels_>> PROVE Hints'
  BY <1>1 DEF Hints, HintsTyped, HintsFollowLabels
<1>2. CASE UNCHANGED dialogVars \/ CropperStep
  BY <1>1, <1>2 DEF dialogVars, applyVars, CropperStep
<1>3. ASSUME Finish PROVE Hints'
  BY <1>3 DEF Finish, initData, Hints, HintsTyped, HintsFollowLabels
<1>4. CASE ApplyNext
  BY <1>1, <1>3, <1>4, HintsClickHint, HintsFriendLabelClicked, HintsEditLabelReturn
     DEF ApplyNext, Exec, Type, ShowMore, Fill, Sure, Cancel
<1> QED
  BY <1>2, <1>4 DEF ApplyStep

\* However hints are clicked, labels closed and new ones typed, an open hint stands
\* for a chosen label and every chosen label has a hint: for any set of keys.
THEOREM HintsAndLabelsTogether == DialogsSpec => []HintsFollowLabels
<1>1. Hints => HintsFollowLabels
  BY DEF Hints
<1> QED
  BY <1>1, HintsInit, HintsNext, PTL DEF DialogsSpec

-------------------------------------------------------------------------------
(* Where the labels go.  FriendFlow is a recursive function: that it exists *)
(* and what it computes are shown by induction, in the form of a least      *)
(* counterexample.                                                          *)

\* A set of numbers with 0 and with the successor of each of its members below L.
LEMMA Induction ==
  ASSUME NEW L \in Nat, NEW T, 0 \in T, \A n \in 1 .. L : n - 1 \in T => n \in T
  PROVE  \A n \in 0 .. L : n \in T
<1> SUFFICES ASSUME NEW k \in 0 .. L, k \notin T PROVE FALSE
  OBVIOUS
<1> DEFINE Less == {ss \in Nat \X Nat : ss[1] < ss[2]}
           Bad  == {n \in 0 .. L : n \notin T}
<1>1. IsWellFoundedOn(Less, Nat)
  <2>1. OpToRel(<, Nat) = Less
    BY DEF OpToRel
  <2> QED
    BY <2>1, NatLessThanWellFounded
<1>2. Bad \subseteq Nat /\ Bad # {}
  OBVIOUS
<1>3. PICK m \in Bad : \A n \in Bad : ~(<<n, m>> \in Less)
  <2> HIDE DEF Less, Bad
  <2>1. \E m \in Bad : \A n \in Bad : ~(<<n, m>> \in Less)
    BY <1>1, <1>2, WFMin
  <2> QED
    BY <2>1
<1>4. m \in 1 .. L /\ m - 1 \in 0 .. L /\ m - 1 < m
  BY <1>3
<1>5. m - 1 \in T
  <2>1. <<m - 1, m>> \in Less
    BY <1>4
  <2>2. m - 1 \notin Bad
    BY <1>3, <2>1
  <2> QED
    BY <1>4, <2>2
<1> QED
  BY <1>3, <1>4, <1>5

\* One step of showFriendLabel from the places f of the labels before it.
FlowStep(keys, f, n) ==
  IF n = 0 THEN [at |-> <<2, 2>>, pos |-> <<2, 2>>]
  ELSE IF KeyOrder[n] \notin keys THEN f[n - 1]
  ELSE LET was  == f[n - 1].pos
           w    == LabelWidth(KeyOrder[n])
           at   == IF w + was[1] + 5 > ListWidth
                   THEN <<2, LabelHigh + was[2] + 5>> ELSE was
           next == <<at[1] + w + 5, at[2]>>
       IN  [at  |-> at,
            pos |-> IF next[1] + EditWidth > ListWidth
                    THEN <<2, EditHigh + next[2] + 5>> ELSE next]

IsFlow(keys, f, N) == f = [n \in 0 .. N |-> FlowStep(keys, f, n)]

LEMMA FlowStepLocal ==
  ASSUME NEW keys, NEW f, NEW g, NEW n \in Nat, n # 0 => f[n - 1] = g[n - 1]
  PROVE  FlowStep(keys, f, n) = FlowStep(keys, g, n)
  BY DEF FlowStep

LEMMA KeyOrderLen == Len(KeyOrder) \in Nat
  BY LayoutAssumption DEF LayoutAssumption

LEMMA FlowExists ==
  ASSUME NEW keys PROVE \E f : IsFlow(keys, f, Len(KeyOrder))
<1> DEFINE L == Len(KeyOrder)
           T == {N \in Nat : \E f : IsFlow(keys, f, N)}
<1>1. L \in Nat
  BY KeyOrderLen
<1>2. 0 \in T
  <2> DEFINE f == [n \in 0 .. 0 |-> FlowStep(keys, <<>>, 0)]
  <2>1. f = [n \in 0 .. 0 |-> FlowStep(keys, f, n)]
    <3>1. FlowStep(keys, f, 0) = FlowStep(keys, <<>>, 0)
      BY FlowStepLocal
    <3>2. \A n \in 0 .. 0 : n = 0
      OBVIOUS
    <3> HIDE DEF f
    <3>3. f = [n \in 0 .. 0 |-> FlowStep(keys, <<>>, 0)]
      BY DEF f
    <3> QED
      BY <3>1, <3>2, <3>3
  <2> HIDE DEF f
  <2> QED
    BY <2>1 DEF IsFlow
<1>3. ASSUME NEW N \in 1 .. L, N - 1 \in T PROVE N \in T
  <2>1. PICK f : f = [n \in 0 .. N - 1 |-> FlowStep(keys, f, n)]
    BY <1>3 DEF IsFlow
  <2> DEFINE g == [n \in 0 .. N |-> IF n = N THEN FlowStep(keys, f, N) ELSE f[n]]
  <2>2. N \in Nat /\ N - 1 \in 0 .. N - 1 /\ N # 0
    BY <1>1
  <2>3. \A n \in 0 .. N - 1 : g[n] = f[n]
    BY <2>2
  <2>4. \A n \in 0 .. N : g[n] = IF n = N THEN FlowStep(keys, f, N) ELSE f[n]
    OBVIOUS
  <2>5. DOMAIN g = 0 .. N /\ g = [n \in DOMAIN g |-> g[n]]
    OBVIOUS
  <2> HIDE DEF g
  <2>6. ASSUME NEW n \in 0 .. N PROVE g[n] = FlowStep(keys, g, n)
    <3>1. n \in Nat /\ (n # 0 => n - 1 \in 0 .. N - 1)
      BY <2>2
    <3>2. n # 0 => f[n - 1] = g[n - 1]
      BY <2>3, <3>1
    <3>3. FlowStep(keys, f, n) = FlowStep(keys, g, n)
      BY <3>1, <3>2, FlowStepLocal
    <3>4. n # N => n \in 0 .. N - 1
      BY <2>2
    <3>5. n # N => f[n] = FlowStep(keys, f, n)
      BY <2>1, <3>4
    <3> QED
      BY <2>4, <3>3, <3>5
  <2>7. g = [n \in 0 .. N |-> FlowStep(keys, g, n)]
    BY <2>5, <2>6
  <2> QED
    BY <2>2, <2>7 DEF IsFlow
<1>4. L \in 0 .. L
  BY <1>1
<1>5. \A n \in 0 .. L : n \in T
  <2> HIDE DEF L, T
  <2> QED
    BY <1>1, <1>2, <1>3, Induction
<1> QED
  BY <1>4, <1>5

\* FriendFlow(keys) is a place for every label, each found from the one before.
LEMMA FlowIs ==
  ASSUME NEW keys
  PROVE  \A n \in 0 .. Len(KeyOrder) :
           FriendFlow(keys)[n] = FlowStep(keys, FriendFlow(keys), n)
<1>1. FriendFlow(keys) =
        CHOOSE f : f = [n \in 0 .. Len(KeyOrder) |-> FlowStep(keys, f, n)]
  BY DEF FriendFlow, FlowStep
<1>2. FriendFlow(keys) = CHOOSE f : IsFlow(keys, f, Len(KeyOrder))
  BY <1>1 DEF IsFlow
<1>3. IsFlow(keys, FriendFlow(keys), Len(KeyOrder))
  BY <1>2, FlowExists
<1> DEFINE F == FriendFlow(keys)
<1>4. F = [n \in 0 .. Len(KeyOrder) |-> FlowStep(keys, F, n)]
  BY <1>3 DEF IsFlow
<1> HIDE DEF F
<1>5. \A n \in 0 .. Len(KeyOrder) : F[n] = FlowStep(keys, F, n)
  BY <1>4
<1> QED
  BY <1>5 DEF F
\* Labels of texts that are known have a width.
LEMMA LabelSizes ==
  /\ \A n \in 1 .. Len(KeyOrder) : LabelWidth(KeyOrder[n]) \in Nat
  /\ LabelHigh \in Nat /\ ListWidth \in Nat /\ ListHigh \in Nat
  /\ EditWidth \in Nat /\ EditHigh \in Nat
<1>1. /\ {TextHigh, CloseWidth, ListWidth, ListHigh, EditWidth, EditHigh} \subseteq Nat
      /\ TextWidth \in [Keys -> Nat \ {0}]
  BY LayoutAssumption DEF LayoutAssumption
<1>2. \A n \in 1 .. Len(KeyOrder) : KeyOrder[n] \in Keys
  BY DEF Keys
<1> QED
  BY <1>1, <1>2 DEF LabelWidth, LabelHigh

\* Where a label goes and where the editor goes after it.
Placed(at, pos, w, was) ==
  /\ at \in Nat \X Nat /\ pos \in Nat \X Nat
  /\ \/ at = was /\ w + was[1] + 5 <= ListWidth
     \/ at = <<2, LabelHigh + was[2] + 5>>
  /\ \/ pos = <<at[1] + w + 5, at[2]>> /\ at[1] + w + 5 + EditWidth <= ListWidth
     \/ pos = <<2, EditHigh + at[2] + 5>>

LEMMA StepPlaces ==
  ASSUME NEW keys, NEW f, NEW n \in 1 .. Len(KeyOrder), KeyOrder[n] \in keys,
         f[n - 1].pos \in Nat \X Nat
  PROVE  Placed(FlowStep(keys, f, n).at, FlowStep(keys, f, n).pos,
                LabelWidth(KeyOrder[n]), f[n - 1].pos)
<1> DEFINE w    == LabelWidth(KeyOrder[n])
           was  == f[n - 1].pos
           at   == IF w + was[1] + 5 > ListWidth
                   THEN <<2, LabelHigh + was[2] + 5>> ELSE was
           next == <<at[1] + w + 5, at[2]>>
           pos  == IF next[1] + EditWidth > ListWidth
                   THEN <<2, EditHigh + next[2] + 5>> ELSE next
<1>1. FlowStep(keys, f, n) = [at |-> at, pos |-> pos]
  BY DEF FlowStep
<1>2. FlowStep(keys, f, n).at = at /\ FlowStep(keys, f, n).pos = pos
  BY <1>1
<1>3. /\ w \in Nat /\ LabelHigh \in Nat /\ ListWidth \in Nat
      /\ EditWidth \in Nat /\ EditHigh \in Nat
  BY LabelSizes
<1>4. PICK x \in Nat, y \in Nat : was = <<x, y>>
  OBVIOUS
<1> HIDE DEF w, was
<1>5. was[1] = x /\ was[2] = y
  BY <1>4
<1>6. PICK ax \in Nat, ay \in Nat :
        /\ at = <<ax, ay>>
        /\ \/ at = was /\ w + was[1] + 5 <= ListWidth
           \/ at = <<2, LabelHigh + was[2] + 5>>
  <2>1. CASE w + was[1] + 5 > ListWidth
    <3>1. at = <<2, LabelHigh + y + 5>> /\ LabelHigh + y + 5 \in Nat
      BY <1>3, <1>5, <2>1
    <3> QED
      BY <1>5, <3>1
  <2>2. CASE ~(w + was[1] + 5 > ListWidth)
    <3>1. at = was /\ w + was[1] + 5 <= ListWidth
      BY <1>3, <1>5, <2>2
    <3> QED
      BY <1>4, <3>1
  <2> QED
    BY <2>1, <2>2
<1> HIDE DEF at
<1>7. next = <<ax + w + 5, ay>> /\ at[1] = ax /\ at[2] = ay
  BY <1>6
<1>8. \E px \in Nat, py \in Nat :
        /\ pos = <<px, py>>
        /\ \/ pos = <<at[1] + w + 5, at[2]>> /\ at[1] + w + 5 + EditWidth <= ListWidth
           \/ pos = <<2, EditHigh + at[2] + 5>>
  <2>1. CASE ax + w + 5 + EditWidth > ListWidth
    <3>1. pos = <<2, EditHigh + ay + 5>> /\ EditHigh + ay + 5 \in Nat
      BY <1>3, <1>7, <2>1
    <3> QED
      BY <1>7, <3>1
  <2>2. CASE ~(ax + w + 5 + EditWidth > ListWidth)
    <3>1. /\ pos = <<ax + w + 5, ay>> /\ ax + w + 5 \in Nat
          /\ ax + w + 5 + EditWidth <= ListWidth
      BY <1>3, <1>7, <2>2
    <3> QED
      BY <1>7, <3>1
  <2> QED
    BY <2>1, <2>2
<1> HIDE DEF pos, next
<1>9. at \in Nat \X Nat /\ pos \in Nat \X Nat
  BY <1>6, <1>8
<1> QED
  BY <1>2, <1>6, <1>8, <1>9 DEF Placed, w, was

\* Every place is one in the plane.
LEMMA FlowTyped ==
  ASSUME NEW keys
  PROVE  \A n \in 0 .. Len(KeyOrder) : FriendFlow(keys)[n].pos \in Nat \X Nat
<1> DEFINE L == Len(KeyOrder)
           F == FriendFlow(keys)
           T == {n \in Nat : F[n].pos \in Nat \X Nat}
<1>1. L \in Nat
  BY KeyOrderLen
<1>2. \A n \in 0 .. L : F[n] = FlowStep(keys, F, n)
  BY FlowIs
<1> HIDE DEF F
<1>3. 0 \in T
  <2>1. 0 \in 0 .. L
    BY <1>1
  <2>2. F[0] = [at |-> <<2, 2>>, pos |-> <<2, 2>>]
    BY <1>2, <2>1 DEF FlowStep
  <2> QED
    BY <2>2
<1>4. ASSUME NEW n \in 1 .. L, n - 1 \in T PROVE n \in T
  <2>1. n \in Nat /\ n # 0 /\ n \in 0 .. L
    BY <1>1
  <2>2. F[n] = FlowStep(keys, F, n) /\ F[n - 1].pos \in Nat \X Nat
    BY <1>2, <1>4, <2>1
  <2>3. CASE KeyOrder[n] \in keys
    BY <2>1, <2>2, <2>3, StepPlaces DEF Placed
  <2>4. CASE KeyOrder[n] \notin keys
    BY <2>1, <2>2, <2>4 DEF FlowStep
  <2> QED
    BY <2>3, <2>4
<1>5. \A n \in 0 .. L : n \in T
  <2> HIDE DEF L, T
  <2> QED
    BY <1>1, <1>3, <1>4, Induction
<1> QED
  BY <1>5 DEF F

\* Every label and the editor fit into a line of the container, and the editor is
\* not much lower than a label.
LabelsFit ==
  /\ \A n \in 1 .. Len(KeyOrder) : 2 + LabelWidth(KeyOrder[n]) <= ListWidth
  /\ 2 + EditWidth <= ListWidth
  /\ LabelHigh <= EditHigh + 5

\* A box that ends above the place p, or in its line and to its left.
Behind(b, p) ==
  /\ b.r \in Int /\ b.b \in Int
  /\ b.b <= p[2] \/ (b.b <= p[2] + LabelHigh /\ b.r <= p[1])

\* Whatever was behind the place before a label is behind the label and behind the
\* place after it, and so is the label.
LEMMA PlacedBehind ==
  ASSUME LabelsFit, NEW at, NEW pos, NEW w \in Nat, NEW was \in Nat \X Nat,
         Placed(at, pos, w, was), 2 + w <= ListWidth
  PROVE  /\ Behind(Box(at, w, LabelHigh), pos)
         /\ Box(at, w, LabelHigh).r <= ListWidth
         /\ pos[1] + EditWidth <= ListWidth
         /\ \A b : Behind(b, was) => Behind(b, pos) /\ Apart(b, Box(at, w, LabelHigh))
<1>1. /\ LabelHigh \in Nat /\ ListWidth \in Nat /\ EditWidth \in Nat /\ EditHigh \in Nat
      /\ LabelHigh <= EditHigh + 5 /\ 2 + EditWidth <= ListWidth
  BY LabelSizes DEF LabelsFit
<1>2. PICK x \in Nat, y \in Nat : at = <<x, y>>
  BY DEF Placed
<1>3. PICK u \in Nat, v \in Nat : was = <<u, v>>
  OBVIOUS
<1>4. PICK p \in Nat, q \in Nat : pos = <<p, q>>
  BY DEF Placed
<1>5. /\ at[1] = x /\ at[2] = y /\ was[1] = u /\ was[2] = v /\ pos[1] = p /\ pos[2] = q
  BY <1>2, <1>3, <1>4
<1>6. \/ x = u /\ y = v /\ w + u + 5 <= ListWidth
      \/ x = 2 /\ y = LabelHigh + v + 5
  <2>1. \/ at = was /\ w + was[1] + 5 <= ListWidth
        \/ at = <<2, LabelHigh + was[2] + 5>>
    BY DEF Placed
  <2> QED
    BY <1>2, <1>3, <1>5, <2>1
<1>7. \/ p = x + w + 5 /\ q = y /\ x + w + 5 + EditWidth <= ListWidth
      \/ p = 2 /\ q = EditHigh + y + 5
  <2>1. \/ pos = <<at[1] + w + 5, at[2]>> /\ at[1] + w + 5 + EditWidth <= ListWidth
        \/ pos = <<2, EditHigh + at[2] + 5>>
    BY DEF Placed
  <2> QED
    BY <1>4, <1>5, <2>1
<1>8. Box(at, w, LabelHigh) = [l |-> x, t |-> y, r |-> x + w, b |-> y + LabelHigh]
  BY <1>5 DEF Box
<1>9. Behind(Box(at, w, LabelHigh), pos)
  BY <1>1, <1>5, <1>7, <1>8 DEF Behind
<1>10. Box(at, w, LabelHigh).r <= ListWidth /\ pos[1] + EditWidth <= ListWidth
  BY <1>1, <1>5, <1>6, <1>7, <1>8
<1>11. ASSUME NEW b, Behind(b, was) PROVE Behind(b, pos) /\ Apart(b, Box(at, w, LabelHigh))
  <2>1. /\ b.r \in Int /\ b.b \in Int
        /\ b.b <= v \/ (b.b <= v + LabelHigh /\ b.r <= u)
    BY <1>5, <1>11 DEF Behind
  <2>2. b.b <= y \/ (b.b <= y + LabelHigh /\ b.r <= x)
    BY <1>1, <1>6, <2>1
  <2>3. b.b <= q \/ (b.b <= q + LabelHigh /\ b.r <= p)
    BY <1>1, <1>7, <2>1, <2>2
  <2>4. b.b <= y \/ b.r <= x
    BY <2>2
  <2> QED
    BY <1>5, <1>8, <2>1, <2>3, <2>4 DEF Behind, Apart
<1> QED
  BY <1>9, <1>10, <1>11

\* The box of the label of the n-th key.
LabelBox(keys, n) == Box(FriendFlow(keys)[n].at, LabelWidth(KeyOrder[n]), LabelHigh)

\* What a label that is shown does to the places before and after it.
LEMMA ShownBehind ==
  ASSUME LabelsFit, NEW keys, NEW n \in 1 .. Len(KeyOrder), KeyOrder[n] \in keys
  PROVE  LET F == FriendFlow(keys)
         IN  /\ Behind(LabelBox(keys, n), F[n].pos)
             /\ LabelBox(keys, n).r <= ListWidth
             /\ F[n].pos[1] + EditWidth <= ListWidth
             /\ \A b : Behind(b, F[n - 1].pos)
                         => Behind(b, F[n].pos) /\ Apart(b, LabelBox(keys, n))
<1> DEFINE F == FriendFlow(keys)
<1>1. n \in 0 .. Len(KeyOrder) /\ n - 1 \in 0 .. Len(KeyOrder)
  BY KeyOrderLen
<1>2. F[n - 1].pos \in Nat \X Nat /\ F[n] = FlowStep(keys, F, n)
  BY <1>1, FlowTyped, FlowIs
<1> HIDE DEF F
<1>3. Placed(F[n].at, F[n].pos, LabelWidth(KeyOrder[n]), F[n - 1].pos)
  BY <1>2, StepPlaces
<1>4. LabelWidth(KeyOrder[n]) \in Nat /\ 2 + LabelWidth(KeyOrder[n]) <= ListWidth
  BY LabelSizes DEF LabelsFit
<1>5. /\ Behind(Box(F[n].at, LabelWidth(KeyOrder[n]), LabelHigh), F[n].pos)
      /\ Box(F[n].at, LabelWidth(KeyOrder[n]), LabelHigh).r <= ListWidth
      /\ F[n].pos[1] + EditWidth <= ListWidth
      /\ \A b : Behind(b, F[n - 1].pos)
           => /\ Behind(b, F[n].pos)
              /\ Apart(b, Box(F[n].at, LabelWidth(KeyOrder[n]), LabelHigh))
  <2> DEFINE at  == F[n].at
             pos == F[n].pos
             was == F[n - 1].pos
             w   == LabelWidth(KeyOrder[n])
  <2>1. was \in Nat \X Nat /\ Placed(at, pos, w, was) /\ w \in Nat /\ 2 + w <= ListWidth
    BY <1>2, <1>3, <1>4
  <2> HIDE DEF at, pos, was, w
  <2>2. /\ Behind(Box(at, w, LabelHigh), pos)
        /\ Box(at, w, LabelHigh).r <= ListWidth
        /\ pos[1] + EditWidth <= ListWidth
        /\ \A b : Behind(b, was) => Behind(b, pos) /\ Apart(b, Box(at, w, LabelHigh))
    BY ONLY <2>1, LabelsFit, PlacedBehind
  <2> QED
    BY <2>2 DEF at, pos, was, w
<1> QED
  BY <1>5 DEF F, LabelBox

LEMMA SkippedStays ==
  ASSUME NEW keys, NEW n \in 1 .. Len(KeyOrder), KeyOrder[n] \notin keys
  PROVE  FriendFlow(keys)[n] = FriendFlow(keys)[n - 1]
<1>1. n \in 0 .. Len(KeyOrder) /\ n # 0
  BY KeyOrderLen
<1> QED
  BY <1>1, FlowIs DEF FlowStep

\* A label is behind every place after it.
LEMMA LabelStaysBehind ==
  ASSUME LabelsFit, NEW keys, NEW m \in 1 .. Len(KeyOrder), KeyOrder[m] \in keys,
         NEW n \in m .. Len(KeyOrder)
  PROVE  Behind(LabelBox(keys, m), FriendFlow(keys)[n].pos)
<1> DEFINE L == Len(KeyOrder)
           b == LabelBox(keys, m)
           pos(k) == FriendFlow(keys)[k].pos
           T == {k \in Nat : m <= k => Behind(b, pos(k))}
<1>1. L \in Nat /\ m \in Nat /\ m >= 1 /\ n \in 0 .. L /\ m <= n
  BY KeyOrderLen
<1>2. 0 \in T
  BY <1>1
<1>3. ASSUME NEW k \in 1 .. L, k - 1 \in T PROVE k \in T
  <2>1. k \in Nat
    OBVIOUS
  <2> SUFFICES ASSUME m <= k PROVE Behind(b, pos(k))
    BY <2>1
  <2>2. CASE m = k
    BY <2>2, ShownBehind
  <2>3. CASE m # k
    <3>1. m <= k - 1
      BY <1>1, <2>1, <2>3
    <3>2. Behind(b, pos(k - 1))
      BY <1>3, <3>1
    <3>3. CASE KeyOrder[k] \in keys
      BY <3>2, <3>3, ShownBehind
    <3>4. CASE KeyOrder[k] \notin keys
      BY <3>2, <3>4, SkippedStays
    <3> QED
      BY <3>3, <3>4
  <2> QED
    BY <2>2, <2>3
<1>4. n \in T
  <2> HIDE DEF L, T
  <2> QED
    BY <1>1, <1>2, <1>3, Induction
<1> QED
  BY <1>1, <1>4
\* A label is behind the place before any later label that is shown: they are apart.
LEMMA LabelsAreApart ==
  ASSUME LabelsFit, NEW keys, NEW m \in 1 .. Len(KeyOrder), KeyOrder[m] \in keys,
         NEW n \in 1 .. Len(KeyOrder), KeyOrder[n] \in keys, m < n
  PROVE  Apart(LabelBox(keys, m), LabelBox(keys, n))
<1>1. n - 1 \in m .. Len(KeyOrder)
  BY KeyOrderLen
<1>2. Behind(LabelBox(keys, m), FriendFlow(keys)[n - 1].pos)
  BY <1>1, LabelStaysBehind
<1> QED
  BY <1>2, ShownBehind

\* The editor always fits into the rest of the line.
LEMMA EditorFits ==
  ASSUME LabelsFit, NEW keys
  PROVE  \A n \in 0 .. Len(KeyOrder) : FriendFlow(keys)[n].pos[1] + EditWidth <= ListWidth
<1> DEFINE L == Len(KeyOrder)
           pos(k) == FriendFlow(keys)[k].pos
           T == {k \in Nat : pos(k)[1] + EditWidth <= ListWidth}
<1>1. L \in Nat
  BY KeyOrderLen
<1>2. 0 \in T
  <2>1. 0 \in 0 .. L
    BY <1>1
  <2>2. FriendFlow(keys)[0] = [at |-> <<2, 2>>, pos |-> <<2, 2>>]
    BY <2>1, FlowIs DEF FlowStep
  <2>3. pos(0)[1] = 2
    BY <2>2
  <2> QED
    BY <2>3 DEF LabelsFit
<1>3. ASSUME NEW k \in 1 .. L, k - 1 \in T PROVE k \in T
  <2>1. CASE KeyOrder[k] \in keys
    BY <2>1, ShownBehind
  <2>2. CASE KeyOrder[k] \notin keys
    BY <1>3, <2>2, SkippedStays
  <2> QED
    BY <2>1, <2>2
<1>4. \A n \in 0 .. L : n \in T
  <2> HIDE DEF L, T
  <2> QED
    BY <1>1, <1>2, <1>3, Induction
<1> QED
  BY <1>4

-------------------------------------------------------------------------------
(* The friend request dialog: types, and room for the labels.              *)

\* The container is at least as high as the labels in it need.
Roomy ==
  /\ list_high \in Nat /\ ListHigh <= list_high
  /\ friend_labels_ # {} => EditPos(friend_labels_)[2] + LabelHigh + 5 <= list_high

ApplyInv == ApplyTypeOK /\ HintsTyped /\ Roomy

LEMMA EditPosTyped == ASSUME NEW keys PROVE EditPos(keys)[2] \in Nat
<1>1. Len(KeyOrder) \in 0 .. Len(KeyOrder)
  BY KeyOrderLen
<1>2. EditPos(keys) \in Nat \X Nat
  BY <1>1, FlowTyped DEF EditPos
<1> QED
  BY <1>2

LEMMA RoomyNext ==
  Roomy' = (/\ list_high' \in Nat /\ ListHigh <= list_high'
            /\ friend_labels_' # {}
                 => EditPos(friend_labels_')[2] + LabelHigh + 5 <= list_high')
  BY DEF Roomy, EditPos, FriendFlow, LabelWidth, LabelHigh

LEMMA RoomyStays == Roomy /\ UNCHANGED <<friend_labels_, list_high>> => Roomy'
  BY RoomyNext DEF Roomy

\* showFriendLabel makes room for what it shows, and closing the last label leaves
\* the height as it is.
LEMMA RoomyShown ==
  ASSUME Roomy, NEW keys, ShowFriendLabel(keys) PROVE Roomy'
<1> DEFINE need == EditPos(keys)[2] + LabelHigh + 5
<1>1. need \in Nat /\ ListHigh \in Nat
  BY EditPosTyped, LabelSizes
<1>2. /\ friend_labels_' = keys
      /\ list_high' = IF keys # {} /\ need > ListHigh THEN need ELSE list_high
  BY DEF ShowFriendLabel, ListHighFor
<1>3. list_high \in Nat /\ ListHigh <= list_high
  BY DEF Roomy
<1> HIDE DEF need
<1>4. /\ list_high' \in Nat /\ ListHigh <= list_high'
      /\ keys # {} => need <= list_high'
  BY <1>1, <1>2, <1>3
<1> QED
  BY <1>2, <1>4, RoomyNext DEF need
\* The labels and hints of a dialog that is not open.
LEMMA InitDataTyped ==
  /\ DOMAIN initData = HintKeys /\ initData \in [HintKeys -> BOOLEAN]
  /\ HintKeys \subseteq Keys /\ ListHigh \in Nat
<1>1. ListHigh \in Nat
  BY LabelSizes
<1>2. HintKeys \subseteq Keys
  BY LayoutAssumption DEF LayoutAssumption
<1> QED
  BY <1>1, <1>2 DEF initData

LEMMA ApplyInvInit == ASSUME ApplyInit PROVE ApplyInv
<1>1. Roomy
  BY InitDataTyped DEF ApplyInit, Roomy
<1>2. ApplyTypeOK /\ HintsTyped
  BY InitDataTyped DEF ApplyInit, ApplyTypeOK, HintsTyped
<1> QED
  BY <1>1, <1>2 DEF ApplyInv

\* Adding and taking a label away, in the dialog's own way.
LEMMA RoomyLabels ==
  ASSUME Roomy, NEW k, addFriendLabel(k) \/ delFriendLabel(k)
  PROVE  Roomy' /\ friend_labels_' \subseteq friend_labels_ \cup {k}
<1>1. CASE UNCHANGED <<friend_labels_, list_high>>
  BY <1>1, RoomyStays
<1>2. CASE ShowFriendLabel(friend_labels_ \cup {k}) \/ ShowFriendLabel(friend_labels_ \ {k})
  BY <1>2, RoomyShown DEF ShowFriendLabel
<1> QED
  BY <1>1, <1>2 DEF addFriendLabel, delFriendLabel

LEMMA ApplyInvNext == ASSUME ApplyInv, ApplyNext \/ UNCHANGED applyVars PROVE ApplyInv'
<1> USE DEF ApplyInv
<1>1. ASSUME UNCHANGED <<friend_labels_, list_high>> PROVE Roomy'
  BY <1>1, RoomyStays
<1>2. ASSUME NEW k \in Keys, ClickHint(k) PROVE ApplyInv'
  <2>1. Roomy' /\ friend_labels_' \subseteq Keys /\ list_high' \in Nat
    BY <1>2, RoomyLabels DEF ClickHint, ApplyTypeOK, Roomy
  <2>2. hint_labels_' = [hint_labels_ EXCEPT ![k] = ~hint_labels_[k]]
    BY <1>2 DEF ClickHint
  <2>3. k \in DOMAIN hint_labels_
    BY <1>2 DEF ClickHint, ShownHints
  <2>4. DOMAIN hint_labels_' = DOMAIN hint_labels_ /\ HintsTyped'
    BY <2>2, <2>3 DEF HintsTyped
  <2>5. \A h \in DOMAIN hint_labels_' : hint_labels_'[h] \in BOOLEAN
    BY <2>4 DEF HintsTyped
  <2> QED
    BY <1>2, <2>1, <2>4, <2>5 DEF ClickHint, ApplyTypeOK
<1>3. ASSUME NEW k \in Keys, onFriendLabelClicked(k) PROVE ApplyInv'
  <2>1. Roomy' /\ friend_labels_' \subseteq Keys /\ list_high' \in Nat
    BY <1>3, RoomyLabels DEF onFriendLabelClicked, ApplyTypeOK, Roomy
  <2>2. hint_labels_' = [h \in DOMAIN hint_labels_ |-> IF h = k THEN FALSE ELSE hint_labels_[h]]
    BY <1>3 DEF onFriendLabelClicked
  <2>3. DOMAIN hint_labels_' = DOMAIN hint_labels_ /\ HintsTyped'
    BY <2>2 DEF HintsTyped
  <2>4. \A h \in DOMAIN hint_labels_' : hint_labels_'[h] \in BOOLEAN
    BY <2>3 DEF HintsTyped
  <2> QED
    BY <1>3, <2>1, <2>3, <2>4 DEF onFriendLabelClicked, ApplyTypeOK
<1>4. ASSUME editLabelReturn PROVE ApplyInv'
  <2>1. edit_label \in Keys
    BY <1>4 DEF editLabelReturn, ApplyTypeOK
  <2>2. Roomy' /\ friend_labels_' \subseteq Keys /\ list_high' \in Nat
    BY <1>4, <2>1, RoomyLabels DEF editLabelReturn, ApplyTypeOK, Roomy
  <2>3. hint_labels_' = [h \in DOMAIN hint_labels_ \cup {edit_label} |->
                           IF h \in DOMAIN hint_labels_ THEN hint_labels_[h] ELSE TRUE]
    BY <1>4 DEF editLabelReturn, addHintLabel
  <2>4. DOMAIN hint_labels_' = DOMAIN hint_labels_ \cup {edit_label} /\ HintsTyped'
    BY <2>3 DEF HintsTyped
  <2>5. \A h \in DOMAIN hint_labels_' : hint_labels_'[h] \in BOOLEAN
    BY <2>4 DEF HintsTyped
  <2> QED
    BY <1>4, <2>1, <2>2, <2>4, <2>5 DEF editLabelReturn, ApplyTypeOK
<1>5. ASSUME Finish PROVE ApplyInv'
  <2>1. Roomy'
    BY <1>5, InitDataTyped, RoomyNext DEF Finish
  <2>2. ApplyTypeOK' /\ HintsTyped'
    BY <1>5, InitDataTyped DEF Finish, ApplyTypeOK, HintsTyped
  <2> QED
    BY <2>1, <2>2
<1>6. ASSUME UNCHANGED <<hint_labels_, friend_labels_, list_high>>,
             \/ \E visible \in BOOLEAN : Exec(visible)
             \/ \E k \in Keys \cup {NoText} : Type(k)
             \/ ShowMore
             \/ \E remarks, apply \in BOOLEAN : Fill(remarks, apply)
             \/ UNCHANGED applyVars
      PROVE  ApplyInv'
  <2>1. Roomy' /\ HintsTyped'
    BY <1>1, <1>6 DEF HintsTyped
  <2>2. ApplyTypeOK'
    BY <1>6 DEF ApplyTypeOK, Exec, Type, ShowMore, Fill, applyVars
  <2> QED
    BY <2>1, <2>2
<1> QED
  BY <1>2, <1>3, <1>4, <1>5, <1>6
     DEF ApplyNext, Sure, Cancel, Exec, Type, ShowMore, Fill, applyVars

\* Both dialogs side by side are the friend request dialog as far as it goes.
LEMMA ApplyInvAlways == DialogsSpec => []ApplyInv
<1>1. DialogsInit => ApplyInv
  BY ApplyInvInit DEF DialogsInit
<1>2. ApplyInv /\ [CropperStep \/ ApplyStep]_dialogVars => ApplyInv'
  <2> SUFFICES ASSUME ApplyInv, [CropperStep \/ ApplyStep]_dialogVars PROVE ApplyInv'
    OBVIOUS
  <2>1. ApplyNext \/ UNCHANGED applyVars
    BY DEF CropperStep, ApplyStep, dialogVars
  <2> QED
    BY <2>1, ApplyInvNext
<1> QED
  BY <1>1, <1>2, PTL DEF DialogsSpec

\* Wherever labels are added and closed: the labels and the editor lie side by side
\* or below each other, inside the width of the container, and the labels inside its
\* height, for any texts that fit into a line.
THEOREM LabelsLieApart == ASSUME LabelsFit PROVE DialogsSpec => []LabelsApart
<1>1. ApplyInv => LabelsApart
  <2> SUFFICES ASSUME ApplyInv PROVE LabelsApart
    OBVIOUS
  <2> DEFINE keys  == friend_labels_
             L     == Len(KeyOrder)
             F     == FriendFlow(keys)
             shown == {n \in 1 .. L : KeyOrder[n] \in keys}
             boxes == [n \in {0} \cup shown |->
                         IF n = 0 THEN Box(EditPos(keys), EditWidth, EditHigh)
                         ELSE Box(F[n].at, LabelWidth(KeyOrder[n]), LabelHigh)]
             editor == Box(EditPos(keys), EditWidth, EditHigh)
  <2>1. L \in Nat /\ L \in 0 .. L
    BY KeyOrderLen
  <2>2. \A n \in shown : n # 0 /\ boxes[n] = LabelBox(keys, n)
    BY DEF LabelBox
  <2>3. DOMAIN boxes = {0} \cup shown /\ boxes[0] = editor
    OBVIOUS
  <2>4. EditPos(keys) = F[L].pos /\ F[L].pos \in Nat \X Nat
    BY <2>1, FlowTyped DEF EditPos
  <2>5. editor.r <= ListWidth
    <3>1. EditPos(keys)[1] + EditWidth <= ListWidth
      BY <2>1, <2>4, EditorFits
    <3> QED
      BY <3>1 DEF Box
  <2>6. \A n \in shown : /\ Behind(LabelBox(keys, n), EditPos(keys))
                         /\ LabelBox(keys, n).r <= ListWidth
    <3> SUFFICES ASSUME NEW n \in shown
                 PROVE  /\ Behind(LabelBox(keys, n), EditPos(keys))
                        /\ LabelBox(keys, n).r <= ListWidth
      OBVIOUS
    <3>1. L \in n .. L
      BY <2>1
    <3> QED
      BY <2>4, <3>1, LabelStaysBehind, ShownBehind
  <2>7. \A n \in shown : /\ Apart(LabelBox(keys, n), editor)
                         /\ Apart(editor, LabelBox(keys, n))
    BY <2>6 DEF Behind, Apart, Box
  <2>8. \A m, n \in shown : m # n => Apart(LabelBox(keys, m), LabelBox(keys, n))
    <3>1. ASSUME NEW m \in shown, NEW n \in shown, m < n
          PROVE  /\ Apart(LabelBox(keys, m), LabelBox(keys, n))
                 /\ Apart(LabelBox(keys, n), LabelBox(keys, m))
      BY <3>1, LabelsAreApart DEF Apart
    <3>2. \A m, n \in shown : m # n => m < n \/ n < m
      OBVIOUS
    <3> QED
      BY <3>1, <3>2
  <2>9. \A n \in shown : LabelBox(keys, n).b <= list_high
    <3> SUFFICES ASSUME NEW n \in shown PROVE LabelBox(keys, n).b <= list_high
      OBVIOUS
    <3>1. keys # {}
      OBVIOUS
    <3>2. EditPos(keys)[2] + LabelHigh + 5 <= list_high /\ list_high \in Nat
      BY <3>1 DEF ApplyInv, Roomy
    <3>3. EditPos(keys)[2] \in Nat /\ LabelHigh \in Nat
      BY EditPosTyped, LabelSizes
    <3> QED
      BY <2>6, <3>2, <3>3 DEF Behind
  <2>10. \A m, n \in DOMAIN boxes : m # n => Apart(boxes[m], boxes[n])
    <3> HIDE DEF boxes, editor, shown
    <3> QED
      BY <2>2, <2>3, <2>7, <2>8
  <2>11. \A n \in DOMAIN boxes : boxes[n].r <= ListWidth
    <3> HIDE DEF boxes, editor, shown
    <3> QED
      BY <2>2, <2>3, <2>5, <2>6
  <2>12. \A n \in shown : boxes[n].b <= list_high
    <3> HIDE DEF boxes, editor, shown
    <3> QED
      BY <2>2, <2>9
  <2> QED
    BY <2>10, <2>11, <2>12 DEF LabelsApart
<1> QED
  BY <1>1, ApplyInvAlways, PTL

\* The types of both dialogs, whatever the user does in which order; there are
\* places for the mouse.
THEOREM DialogsTypes == ASSUME Points # {} PROVE DialogsSpec => []DialogsTypeOK
<1>1. DialogsSpec => []TypeOK
  BY DialogsAreCropper, CropperTypes, PTL
<1>2. ApplyInv => ApplyTypeOK
  BY DEF ApplyInv
<1> QED
  BY <1>1, <1>2, ApplyInvAlways, PTL DEF DialogsTypeOK
===============================================================================
