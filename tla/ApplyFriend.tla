----------------------------- MODULE ApplyFriend -----------------------------
(***************************************************************************)
(* The friend request dialog of the client (src/client/applyfriend.cpp)    *)
(* with its two kinds of labels: the hint labels, switches that offer a    *)
(* tag (switchlabel.cpp), and the friend labels, the tags that are chosen  *)
(* (friendlabel.cpp).  Texts are keys with a width.                        *)
(***************************************************************************)
EXTENDS Integers, Sequences

CONSTANTS
    KeyOrder,       \* every key, in the order a QMap keeps them
    HintKeys,       \* the hints the dialog starts with
    TextWidth,      \* the width of a key's text
    TextHigh,       \* the height of a line of text
    CloseWidth,     \* the width of a friend label's close button
    ListWidth,      \* label_list_wid
    ListHigh,
    EditWidth,      \* edit_lable
    EditHigh,
    HintWidth       \* hint_lable_wid

Keys == {KeyOrder[i] : i \in 1 .. Len(KeyOrder)}
NoText == "no text"

ASSUME LayoutAssumption ==
    /\ KeyOrder \in Seq(Keys)
    /\ HintKeys \subseteq Keys /\ HintKeys # {}
    /\ NoText \notin Keys
    /\ TextWidth \in [Keys -> Nat \ {0}]
    /\ {TextHigh, CloseWidth, ListWidth, ListHigh, EditWidth, EditHigh,
        HintWidth} \subseteq Nat

VARIABLES
    applying,               \* the dialog runs its event loop
    hint_labels_,           \* hint label -> whether it is open
    hint_label_show_all_,   \* all lines of hints are shown, not only two
    show_more,              \* whether btn_show_more is open
    friend_labels_,         \* the labels chosen
    edit_label,             \* the text in the label editor
    edit_remarks,           \* whether the remark is filled in
    edit_apply_info,        \* whether the request's text is filled in
    list_high               \* the height of label_list_wid

applyVars == <<applying, hint_labels_, hint_label_show_all_, show_more,
               friend_labels_, edit_label, edit_remarks, edit_apply_info,
               list_high>>

ApplyTypeOK ==
    /\ applying \in BOOLEAN
    /\ HintKeys \subseteq DOMAIN hint_labels_ /\ DOMAIN hint_labels_ \subseteq Keys
    /\ \A k \in DOMAIN hint_labels_ : hint_labels_[k] \in BOOLEAN
    /\ hint_label_show_all_ \in BOOLEAN
    /\ show_more \in BOOLEAN
    /\ friend_labels_ \subseteq Keys
    /\ edit_label \in Keys \cup {NoText}
    /\ edit_remarks \in BOOLEAN
    /\ edit_apply_info \in BOOLEAN
    /\ list_high \in Nat

-----------------------------------------------------------------------------
(* Layout.                                                                 *)

LabelWidth(k) == TextWidth[k] + CloseWidth + 6
LabelHigh == TextHigh + 6

\* showFriendLabel, one label after the other: where the label of the n-th key
\* goes (at) and where the editor goes after it (pos).
FriendFlow(keys) ==
    LET flow[n \in 0 .. Len(KeyOrder)] ==
            IF n = 0 THEN [at |-> <<2, 2>>, pos |-> <<2, 2>>]
            ELSE IF KeyOrder[n] \notin keys THEN flow[n - 1]
            ELSE LET was  == flow[n - 1].pos
                     w    == LabelWidth(KeyOrder[n])
                     at   == IF w + was[1] + 5 > ListWidth
                             THEN <<2, LabelHigh + was[2] + 5>> ELSE was
                     next == <<at[1] + w + 5, at[2]>>
                 IN  [at  |-> at,
                      pos |-> IF next[1] + EditWidth > ListWidth
                              THEN <<2, EditHigh + next[2] + 5>> ELSE next]
    IN  flow

EditPos(keys) == FriendFlow(keys)[Len(KeyOrder)].pos

\* Mutant: the container does not grow.
ListHighFor_Fixed(keys) == list_high

\* The container grows with the labels; it never goes below its first height,
\* and keeps the height it has when they fit into that one.
ListHighFor(keys) ==
    LET need == EditPos(keys)[2] + LabelHigh + 5
    IN  IF keys # {} /\ need > ListHigh THEN need ELSE list_high

\* showHintLabel: only the first two lines are shown unless all are asked for.
HintLines(keys) ==
    LET flow[n \in 0 .. Len(KeyOrder)] ==
            IF n = 0 THEN [line |-> 1, x |-> 5]
            ELSE IF KeyOrder[n] \notin keys THEN flow[n - 1]
            ELSE LET was  == flow[n - 1]
                     w    == TextWidth[KeyOrder[n]]
                     wrap == was.x + w > HintWidth + 15
                 IN  [line |-> IF wrap THEN was.line + 1 ELSE was.line,
                      x |-> (IF wrap THEN 5 ELSE was.x) + w + 15]
    IN  [n \in 1 .. Len(KeyOrder) |-> flow[n].line]

ShownHints ==
    LET lines == HintLines(DOMAIN hint_labels_)
    IN  {k \in DOMAIN hint_labels_ :
            \E n \in 1 .. Len(KeyOrder) :
                KeyOrder[n] = k /\ (hint_label_show_all_ \/ lines[n] <= 2)}

-----------------------------------------------------------------------------
(* Labels.                                                                 *)

ShowFriendLabel(keys) ==
    /\ friend_labels_' = keys
    /\ list_high' = ListHighFor(keys)
addFriendLabel(k) ==
    IF k \in friend_labels_ THEN UNCHANGED <<friend_labels_, list_high>>
    ELSE ShowFriendLabel(friend_labels_ \cup {k})
delFriendLabel(k) ==
    IF k \notin friend_labels_ THEN UNCHANGED <<friend_labels_, list_high>>
    ELSE ShowFriendLabel(friend_labels_ \ {k})

\* A hint that exists already stays as it is, open or closed.
addHintLabel(k, isOpen) ==
    hint_labels_' = [h \in DOMAIN hint_labels_ \cup {k} |->
                        IF h \in DOMAIN hint_labels_ THEN hint_labels_[h]
                        ELSE isOpen]

-----------------------------------------------------------------------------
initData == [k \in HintKeys |-> FALSE]

ApplyInit ==
    /\ applying = FALSE
    /\ hint_labels_ = initData
    /\ hint_label_show_all_ = FALSE
    /\ show_more = FALSE
    /\ friend_labels_ = {}
    /\ edit_label = NoText
    /\ edit_remarks = FALSE
    /\ edit_apply_info = FALSE
    /\ list_high = ListHigh

\* A new dialog.  hint_label_show_all_ has no initial value.  Without its
\* editor (setApplyVisible(FALSE)) the request's text is filled in already.
Exec(applyVisible) ==
    /\ ~applying
    /\ applying' = TRUE
    /\ hint_label_show_all_' \in BOOLEAN
    /\ edit_apply_info' = ~applyVisible
    /\ UNCHANGED <<hint_labels_, show_more, friend_labels_, edit_label,
                   edit_remarks, list_high>>

\* SwitchLabel::mousePressEvent and onHintLabelClick.
ClickHint(k) ==
    /\ applying /\ k \in ShownHints
    /\ hint_labels_' = [hint_labels_ EXCEPT ![k] = ~@]
    /\ IF hint_labels_'[k] THEN addFriendLabel(k) ELSE delFriendLabel(k)
    /\ UNCHANGED <<applying, hint_label_show_all_, show_more, edit_label,
                   edit_remarks, edit_apply_info>>

\* Mutant: the hint stays open.
onFriendLabelClicked_KeepsHint(k) ==
    /\ applying /\ k \in friend_labels_
    /\ delFriendLabel(k)
    /\ UNCHANGED <<applying, hint_labels_, hint_label_show_all_, show_more,
                   edit_label, edit_remarks, edit_apply_info>>

\* The close button of a friend label closes its hint as well.
onFriendLabelClicked(k) ==
    /\ applying /\ k \in friend_labels_
    /\ hint_labels_' = [h \in DOMAIN hint_labels_ |->
                            IF h = k THEN FALSE ELSE hint_labels_[h]]
    /\ delFriendLabel(k)
    /\ UNCHANGED <<applying, hint_label_show_all_, show_more, edit_label,
                   edit_remarks, edit_apply_info>>

Type(k) ==
    /\ applying /\ edit_label' = k
    /\ UNCHANGED <<applying, hint_labels_, hint_label_show_all_, show_more,
                   friend_labels_, edit_remarks, edit_apply_info, list_high>>

\* Return, or a click on add_label, which is visible while there is a text.
editLabelReturn ==
    /\ applying /\ edit_label # NoText
    /\ edit_label' = NoText
    /\ addFriendLabel(edit_label)
    /\ addHintLabel(edit_label, TRUE)
    /\ UNCHANGED <<applying, hint_label_show_all_, show_more, edit_remarks,
                   edit_apply_info>>

ShowMore ==
    /\ applying
    /\ show_more' = ~show_more
    /\ hint_label_show_all_' = ~show_more
    /\ UNCHANGED <<applying, hint_labels_, friend_labels_, edit_label,
                   edit_remarks, edit_apply_info, list_high>>

Fill(remarks, apply) ==
    /\ applying
    /\ edit_remarks' = remarks
    /\ edit_apply_info' = apply
    /\ UNCHANGED <<applying, hint_labels_, hint_label_show_all_, show_more,
                   friend_labels_, edit_label, list_high>>

\* Both buttons end the event loop, and the caller deletes the dialog.  Sure
\* does nothing while a field is empty.
Finish ==
    /\ applying' = FALSE
    /\ hint_labels_' = initData
    /\ hint_label_show_all_' = FALSE
    /\ show_more' = FALSE
    /\ friend_labels_' = {}
    /\ edit_label' = NoText
    /\ edit_remarks' = FALSE
    /\ edit_apply_info' = FALSE
    /\ list_high' = ListHigh
Sure   == applying /\ edit_remarks /\ edit_apply_info /\ Finish
Cancel == applying /\ Finish

ApplyNext ==
    \/ \E visible \in BOOLEAN : Exec(visible)
    \/ \E k \in Keys : ClickHint(k)
    \/ \E k \in Keys : onFriendLabelClicked(k)
    \/ \E k \in Keys \cup {NoText} : Type(k)
    \/ editLabelReturn
    \/ ShowMore
    \/ \E remarks, apply \in BOOLEAN : Fill(remarks, apply)
    \/ Sure
    \/ Cancel

-----------------------------------------------------------------------------
(* Properties.                                                             *)

\* An open hint stands for a label that is chosen, and every label chosen has
\* a hint: clicks on hints, close buttons and typed labels keep the two lists
\* together although each handler updates them by a path of its own.
HintsFollowLabels ==
    /\ \A k \in DOMAIN hint_labels_ : hint_labels_[k] => k \in friend_labels_
    /\ friend_labels_ \subseteq DOMAIN hint_labels_

Box(at, w, h) == [l |-> at[1], t |-> at[2], r |-> at[1] + w, b |-> at[2] + h]
Apart(p, q) == p.r <= q.l \/ q.r <= p.l \/ p.b <= q.t \/ q.b <= p.t

\* However labels are added and removed, showFriendLabel puts the labels and
\* the editor side by side or below each other, never on top of each other,
\* inside the width of their container, and the labels inside its height.
LabelsApart ==
    LET flow  == FriendFlow(friend_labels_)
        shown == {n \in 1 .. Len(KeyOrder) : KeyOrder[n] \in friend_labels_}
        boxes == [n \in {0} \cup shown |->
                    IF n = 0 THEN Box(EditPos(friend_labels_), EditWidth, EditHigh)
                    ELSE Box(flow[n].at, LabelWidth(KeyOrder[n]), LabelHigh)]
    IN  /\ \A m, n \in DOMAIN boxes : m # n => Apart(boxes[m], boxes[n])
        /\ \A n \in DOMAIN boxes : boxes[n].r <= ListWidth
        /\ \A n \in shown : boxes[n].b <= list_high
=============================================================================
