-------------------------- MODULE MCDiagramEditor --------------------------
EXTENDS DiagramEditor
CONSTANTS w1, w2
\* Two windows that both edit, and one window that edits the diagram its page shows.
EditorsAndPage ==
    {[editors |-> {w1, w2}, pages |-> {}, strokes |-> 1],
     [editors |-> {w1}, pages |-> {w1}, strokes |-> 2]}
=============================================================================
