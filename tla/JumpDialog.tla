----------------------------- MODULE JumpDialog -----------------------------
(* The list of the jump-to dialog of menuconfig.py: the nodes that match the search text, *)
(* with a cursor. The text is one of Searches, which gives the nodes each text matches:   *)
(* none for a bad regular expression.                                            *)
EXTENDS KconfigMenu

CONSTANTS
  SCROLL_OFFSET,  \* _SCROLL_OFFSET
  JUMP_HELP,      \* the lines of _JUMP_TO_HELP_LINES
  Searches, Terminals,
  MaxSel          \* bound: how far the cursor of an empty list goes, down or up

VARIABLES text, sel, scroll, height
vars == <<text, sel, scroll, height>>

matches == Found(LAMBDA n : n \in Searches[text])

\* Without matches the cursor is on no entry, and the keys move it all the same.
L == INSTANCE ScrollList WITH
       len <- Max2(1, Len(matches)),
       sel <- IF matches = <<>> THEN 0 ELSE sel, scroll <- IF matches = <<>> THEN 0 ELSE scroll

ListHeight(t) == Max2(1, t - JUMP_HELP - 4)
Init == text \in DOMAIN Searches /\ sel = 0 /\ scroll = 0 /\ height \in {ListHeight(t) : t \in Terminals}

To(c) == sel' = c[1] /\ scroll' = c[2] /\ UNCHANGED <<text, height>>

select_next_match ==
  /\ sel < MaxSel
  /\ To(IF sel = Len(matches) - 1 THEN <<sel, scroll>>
        ELSE IF /\ sel + 1 >= scroll + height - SCROLL_OFFSET
                /\ scroll < L!_max_scroll(Len(matches), height)
        THEN <<sel + 1, scroll + 1>> ELSE <<sel + 1, scroll>>)
select_prev_match ==
  /\ sel > -MaxSel
  /\ To(IF sel = 0 THEN <<sel, scroll>>
        ELSE IF sel - 1 < scroll + SCROLL_OFFSET THEN <<sel - 1, Max2(scroll - 1, 0)>>
        ELSE <<sel - 1, scroll>>)
End == To(<<Len(matches) - 1, L!_max_scroll(Len(matches), height)>>)
Home == To(<<0, 0>>)

_resize_jump_to_dialog ==
  /\ height' \in {ListHeight(t) : t \in Terminals}
  /\ scroll' = IF sel - scroll >= height' THEN sel - height' + 1 ELSE scroll
  /\ UNCHANGED <<text, sel>>

\* The search text changed: the list is another one.
Search_KeepsCursor(t) == text' = t /\ UNCHANGED <<sel, scroll, height>>
Search(t) == text' = t /\ sel' = 0 /\ scroll' = 0 /\ UNCHANGED height

Next ==
  \/ select_next_match \/ select_prev_match \/ End \/ Home \/ _resize_jump_to_dialog
  \/ \E t \in DOMAIN Searches \ {text} : Search(t)
Spec == Init /\ [][Next]_vars

\* ListScrolls: as long as something matches, the list behaves as one with a cursor that is
\* always on the screen: Enter and Ctrl-F find a node under the cursor.
ListScrolls == L!Spec
=============================================================================
