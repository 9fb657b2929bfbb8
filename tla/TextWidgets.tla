---------------------------- MODULE TextWidgets ----------------------------
(***************************************************************************)
(* The two text widgets of one tab, which share the clipboard of the       *)
(* window: the request in an editor, the response in a viewer.             *)
(***************************************************************************)
EXTENDS TextViewEntry, TextView

textVars == <<editorVars, viewVars, clipboard, left>>

TextInit == EditorInit /\ ViewInit /\ clipboard = EmptyText /\ left \in Sessions

TextNext ==
    \/ EditorNext /\ UNCHANGED viewVars
    \/ ViewNext /\ UNCHANGED editorVars

(* The goroutines that wrap texts end, and the main loop runs callbacks.   *)
TextSpec ==
    TextInit /\ [][TextNext]_textVars /\ WF_textVars(ViewLand /\ UNCHANGED editorVars)
=============================================================================
