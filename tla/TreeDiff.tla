------------------------------ MODULE TreeDiff ------------------------------
(***************************************************************************)
(* The page of one tab and the server's warm view of it.  Every view          *)
(* response becomes the warm view when it is built; the browser gets only      *)
(* the difference to the previous warm view (view_diff.py), or the whole       *)
(* structure when it has forgotten its view, and changes its elements           *)
(* accordingly (differential-view-service.js).                                *)
(*                                                                         *)
(* The list a tab shows is a forest: an ordered list of notes under every     *)
(* note and under Root.  A note in no list is not shown: deleted, not yet      *)
(* created, or left out by the search.  Contents are left out: a note's hash    *)
(* is what of it depends on the hierarchy.                                     *)
(***************************************************************************)
EXTENDS Naturals, Sequences, FiniteSets, SequencesExt

CONSTANTS
    Notes,          \* identifiers of notes
    Root,           \* the parent of the notes without a parent
    Disturbances    \* what else may happen: a subset of {"bursts", "losses"}

ASSUME TreeDiffAssumption == Root \notin Notes

Parents == Notes \cup {Root}

VARIABLES
    lists, collapsed,   \* the hierarchy of the list's notes, and the collapsed notes
    news,               \* history: what changed since the last view was built
    warm,               \* the server's warm view of the tab
    forgotten,          \* the browser has dropped its note hashes
    response,           \* the answer under way to the browser
    page, shut,         \* the note elements, and those that show their note collapsed
    fading,             \* elements a collapse animation will remove: <<collapsed note, child>>
    inStep              \* history: every difference so far was of one change, applied to a still page

vars == <<lists, collapsed, news, warm, forgotten, response, page, shut, fading, inStep>>

\* --- Forests -----------------------------------------------------------------

\* The notes below p, each followed by those below it.
Preorder(f, p) ==
    LET below[q \in Parents] == FlattenSeq([i \in 1..Len(f[q]) |-> <<f[q][i]>> \o below[f[q][i]]])
    IN  below[p]

Below(f, p) ==
    LET below[q \in Parents] == ToSet(f[q]) \cup UNION {below[n] : n \in ToSet(f[q])}
    IN  below[p]

Shown(f) == Below(f, Root)

Without(s, n) == SelectSeq(s, LAMBDA m : m # n)
Position(s, n) == CHOOSE i \in 1..Len(s) : s[i] = n
ParentIn(f, n) == CHOOSE p \in Parents : n \in ToSet(f[p])
Unlisted == {n \in Notes : \A p \in Parents : n \notin ToSet(lists[p])}

Empty == [p \in Parents |-> <<>>]

\* --- The view of the list ------------------------------------------------------

\* The children of a collapsed note are not part of the view.
Forest ==
    LET open == [p \in Parents |-> IF p \in collapsed THEN <<>> ELSE lists[p]]
        visible == Shown(open) \cup {Root}
    IN  [p \in Parents |-> IF p \in visible THEN open[p] ELSE <<>>]

Absent == [parent |-> Root, prev |-> Root, next |-> Root, closed |-> FALSE, leaf |-> FALSE,
           known |-> FALSE]

Hash(forest, n) ==
    LET p == ParentIn(forest, n)
        i == Position(forest[p], n)
    IN  [parent |-> p,
         prev |-> IF i = 1 THEN Root ELSE forest[p][i - 1],
         next |-> IF i = Len(forest[p]) THEN Root ELSE forest[p][i + 1],
         closed |-> n \in collapsed, leaf |-> lists[n] = <<>>, known |-> TRUE]

BuildView ==
    LET forest == Forest
        visible == Shown(forest)
    IN  [forest |-> forest,
         hashes |-> [n \in Notes |-> IF n \in visible THEN Hash(forest, n) ELSE Absent]]

NoView == [forest |-> Empty, hashes |-> [n \in Notes |-> Absent]]

\* --- The server's difference of two views ----------------------------------------

Op(type, n, i) == [type |-> type, note |-> n, to |-> i]
Under(ops, p) ==
    [i \in 1..Len(ops) |->
        [type |-> ops[i].type, note |-> ops[i].note, to |-> ops[i].to, parent |-> p]]

Removals(s, kept) ==
    LET gone == SelectSeq(s, LAMBDA n : n \notin kept)
    IN  [i \in 1..Len(gone) |-> Op("remove", Reverse(gone)[i], 0)]

\* The position map always agrees with the working list here.
ServerSiblingOps(previous, desired) ==
    LET Next(done, i) ==
            LET n == desired[i]
                move == n \in ToSet(done.working)
            IN  IF i <= Len(done.working) /\ done.working[i] = n
                THEN done
                ELSE [working |-> InsertAt(Without(done.working, n), i, n),
                      ops |-> Append(done.ops, Op(IF move THEN "move" ELSE "insert", n, i))]
    IN  FoldLeftDomain(Next,
            [working |-> SelectSeq(previous, LAMBDA n : n \in ToSet(desired)),
             ops |-> Removals(previous, ToSet(desired))],
            desired).ops

\* Below a note the previous view does not have, everything counts as new.
GenerateDiffOps(previous, current) ==
    LET known == Shown(previous)
        new(p) == \E n \in Notes \ known : p = n \/ p \in Below(current, n)
        ops(p) == ServerSiblingOps(IF new(p) THEN <<>> ELSE previous[p], current[p])
        order == <<Root>> \o Preorder(current, Root)
    IN  FlattenSeq([i \in 1..Len(order) |-> Under(ops(order[i]), order[i])])

\* --- The browser's elements ---------------------------------------------------------

\* Node.insertBefore: the element goes before the one now at position i of p's children.
Placed(f, n, p, i) ==
    LET others == [q \in Parents |-> Without(f[q], n)]
        at == IF i > Len(f[p]) THEN Len(others[p]) + 1 ELSE Position(others[p], f[p][i])
    IN  IF i <= Len(f[p]) /\ f[p][i] = n
        THEN f
        ELSE [others EXCEPT ![p] = InsertAt(others[p], at, n)]

Dropped(f, n) ==
    LET gone == Below(f, n) \cup {n}
    IN  [q \in Parents |-> IF q \in gone THEN <<>> ELSE Without(f[q], n)]

\* Mutated RemoveElement: an element removed from the page still waits for its animation.
MutRemoveElement(dom, n, p, closing) ==
    IF n \notin Shown(dom.page) THEN dom
    ELSE IF p \in closing THEN [dom EXCEPT !.fading = dom.fading \cup {<<p, n>>}]
    ELSE [dom EXCEPT !.page = Dropped(dom.page, n)]

\* A removed element takes those below it along; the children of a note that is
\* being collapsed stay until its animation ends.
RemoveElement(dom, n, p, closing) ==
    IF n \notin Shown(dom.page) THEN dom
    ELSE IF p \in closing THEN [dom EXCEPT !.fading = dom.fading \cup {<<p, n>>}]
    ELSE [dom EXCEPT !.page = Dropped(dom.page, n),
                     !.fading = {e \in dom.fading : e[2] \notin Below(dom.page, n) \cup {n}}]

\* No element for the parent, none for the note and no payload, or a note under
\* itself: the rest of the response is not applied.
PlaceElement(dom, n, p, i, hasData) ==
    IF \/ p \notin Shown(dom.page) \cup {Root}
       \/ n \notin Shown(dom.page) /\ ~hasData
       \/ p = n \/ p \in Below(dom.page, n)
    THEN [dom EXCEPT !.threw = TRUE]
    ELSE [dom EXCEPT !.page = Placed(dom.page, n, p, i)]

Dom == [page |-> page, fading |-> fading, threw |-> FALSE]

Closing(payload) ==
    {n \in payload \cap Shown(page) : n \notin shut /\ warm.hashes[n].closed}

\* Mutated ApplyServerDiffOps: a note inserted elsewhere is removed like any other.
MutApplyServerDiffOps(ops, payload, closing) ==
    LET ApplyOp(dom, op) ==
            CASE dom.threw -> dom
              [] op.type = "remove" ->
                    RemoveElement(dom, op.note, op.parent, closing)
              [] op.type = "insert" ->
                    PlaceElement(dom, op.note, op.parent, op.to, op.note \in payload)
              [] op.type = "move" ->
                    IF op.note \notin Shown(dom.page) THEN dom
                    ELSE PlaceElement(dom, op.note, op.parent, op.to, TRUE)
        AppendNote(dom, n) ==
            IF dom.threw \/ n \notin payload \/ n \in Shown(dom.page) THEN dom
            ELSE [dom EXCEPT !.page[Root] = Append(dom.page[Root], n)]
    IN  FoldLeft(AppendNote, FoldLeft(ApplyOp, Dom, ops), Preorder(warm.forest, Root))

ApplyServerDiffOps(ops, payload, closing) ==
    LET inserted == {op.note : op \in {o \in ToSet(ops) : o.type = "insert"}}
        ApplyOp(dom, op) ==
            CASE dom.threw -> dom
              [] op.type = "remove" ->
                    IF op.note \in inserted THEN dom
                    ELSE RemoveElement(dom, op.note, op.parent, closing)
              [] op.type = "insert" ->
                    PlaceElement(dom, op.note, op.parent, op.to, op.note \in payload)
              [] op.type = "move" ->
                    IF op.note \notin Shown(dom.page) THEN dom
                    ELSE PlaceElement(dom, op.note, op.parent, op.to, TRUE)
        \* A note with a payload and no element goes to the end of the list.
        AppendNote(dom, n) ==
            IF dom.threw \/ n \notin payload \/ n \in Shown(dom.page) THEN dom
            ELSE [dom EXCEPT !.page[Root] = Append(dom.page[Root], n)]
    IN  FoldLeft(AppendNote, FoldLeft(ApplyOp, Dom, ops), Preorder(warm.forest, Root))

\* --- Rendering a whole structure -----------------------------------------------------

\* The browser's own sibling difference.  Its position map is not corrected
\* after the removals, so it may point elsewhere in the working list.
DiffSiblingOrder(current, desired) ==
    LET kept == SelectSeq(current, LAMBDA n : n \in ToSet(desired))
        Cut(s, i) == IF i <= Len(s) THEN RemoveAt(s, i) ELSE s
        Put(s, i, n) == IF i <= Len(s) THEN InsertAt(s, i, n) ELSE Append(s, n)
        Renumber(position, working, first, last) ==
            [n \in Notes |->
                LET at == {i \in first..last : i <= Len(working) /\ working[i] = n}
                IN  IF at = {} THEN position[n] ELSE CHOOSE i \in at : \A j \in at : j <= i]
        Next(done, i) ==
            LET n == desired[i]
                from == done.position[n]
                working == Put(IF from = 0 THEN done.working ELSE Cut(done.working, from), i, n)
                last == IF from > i THEN from ELSE IF from = 0 THEN Len(working) ELSE i
                first == IF from # 0 /\ from < i THEN from ELSE i
            IN  IF from = i THEN done
                ELSE [working |-> working,
                      position |-> Renumber(done.position, working, first, last),
                      ops |-> Append(done.ops, Op(IF from = 0 THEN "insert" ELSE "move", n, i))]
        before == [n \in Notes |-> IF n \in ToSet(kept) THEN Position(current, n) ELSE 0]
    IN  FoldLeftDomain(Next,
            [working |-> kept, position |-> before, ops |-> Removals(current, ToSet(desired))],
            desired).ops

\* The parents whose children are compared: those in the same place in both forests.
DiffNoteForest(current, desired) ==
    LET same[p \in Parents] ==
            p = Root \/ LET q == ParentIn(desired, p) IN p \in ToSet(current[q]) /\ same[q]
        order == SelectSeq(<<Root>> \o Preorder(desired, Root), LAMBDA p : same[p])
    IN  FlattenSeq([i \in 1..Len(order) |->
            Under(DiffSiblingOrder(current[order[i]], desired[order[i]]), order[i])])

\* A note that is not on the page gets new elements for everything below it.
CreateNoteSubtree(dom, n, p, i) ==
    LET made == Below(warm.forest, n) \cup {n}
        f == [q \in Parents |-> IF q \in made THEN warm.forest[q] ELSE dom.page[q]]
    IN  [dom EXCEPT !.page = Placed(f, n, p, i)]

RenderStructure(closing) ==
    LET RenderOp(dom, op) ==
            CASE dom.threw -> dom
              [] op.type = "remove" ->
                    IF op.note \in Shown(warm.forest) THEN dom
                    ELSE RemoveElement(dom, op.note, op.parent, closing)
              [] op.type = "insert" ->
                    IF op.note \in Shown(dom.page)
                    THEN PlaceElement(dom, op.note, op.parent, op.to, TRUE)
                    ELSE CreateNoteSubtree(dom, op.note, op.parent, op.to)
              [] op.type = "move" ->
                    PlaceElement(dom, op.note, op.parent, op.to, FALSE)
    IN  FoldLeft(RenderOp, Dom, DiffNoteForest(page, warm.forest))

\* --- State ---------------------------------------------------------------------------

Hashes == [parent: Parents, prev: Parents, next: Parents,
           closed: BOOLEAN, leaf: BOOLEAN, known: BOOLEAN]
News == {"none", "change", "rearranged", "many"}
NoResponse == [kind |-> "none", ops |-> <<>>, payload |-> {}, news |-> "none"]

TypeOK ==
    /\ lists \in [Parents -> Seq(Notes)] /\ page \in [Parents -> Seq(Notes)]
    /\ collapsed \subseteq Notes /\ shut \subseteq Notes
    /\ news \in News
    /\ warm.forest \in [Parents -> Seq(Notes)] /\ warm.hashes \in [Notes -> Hashes]
    /\ forgotten \in BOOLEAN /\ inStep \in BOOLEAN
    /\ response.kind \in {"none", "diff", "snapshot"} /\ response.payload \subseteq Notes
    /\ response.news \in News
    /\ \A op \in ToSet(response.ops) : op.note \in Notes /\ op.parent \in Parents
    /\ fading \subseteq Notes \X Shown(page)

Init ==
    /\ lists = Empty /\ collapsed = {} /\ news = "none"
    /\ warm = NoView /\ forgotten = TRUE /\ response = NoResponse
    /\ page = Empty /\ shut = {} /\ fading = {}
    /\ inStep = TRUE

browserVars == <<page, shut, fading, inStep>>

\* --- Changes of the list ----------------------------------------------------------------

\* Several changes between two views: another window's, or this window's when the
\* refresh after a command was ignored because a view request was under way.
Changed(kind) ==
    /\ news # "many" /\ ("bursts" \notin Disturbances => news = "none")
    /\ news' = IF news = "none" THEN kind ELSE "many"
    /\ UNCHANGED <<warm, forgotten, response, browserVars>>

\* A note, with the notes below it, comes or comes back to the list, or is moved.
PlaceNote(n, p, i) ==
    /\ Changed("change")
    /\ n \in Shown(lists) \cup Unlisted
    /\ p \in (Shown(lists) \cup {Root}) \ (Below(lists, n) \cup {n})
    /\ LET others == [q \in Parents |-> Without(lists[q], n)]
       IN  /\ i <= Len(others[p]) + 1
           /\ lists' = [others EXCEPT ![p] = InsertAt(others[p], i, n)]
    /\ lists' # lists
    /\ UNCHANGED collapsed

RemoveNote(n) ==
    /\ Changed("change")
    /\ n \in Shown(lists)
    /\ lists' = [q \in Parents |-> Without(lists[q], n)]
    /\ UNCHANGED collapsed

ToggleCollapsed(n) ==
    /\ Changed("change")
    /\ n \in Shown(lists) /\ (lists[n] # <<>> \/ n \in collapsed)
    /\ collapsed' = IF n \in collapsed THEN collapsed \ {n} ELSE collapsed \cup {n}
    /\ UNCHANGED lists

\* Another search, filter or sort order: other roots, in another order.
Rearrange ==
    /\ Changed("rearranged")
    /\ \E roots \in SetToAllKPermutations(ToSet(lists[Root]) \cup Unlisted) :
           roots # lists[Root] /\ lists' = [lists EXCEPT ![Root] = roots]
    /\ UNCHANGED collapsed

\* --- Views ----------------------------------------------------------------------------

\* ModeContext.resetTabDiffCache: the browser will ask for the whole structure.
ForgetView ==
    /\ ~forgotten /\ forgotten' = TRUE
    /\ UNCHANGED <<lists, collapsed, news, warm, response, browserVars>>

\* The server builds the view, records it as what the tab shows, and answers.
RequestView ==
    LET view == BuildView
        whole == forgotten \/ page[Root] = <<>>
    IN  /\ response = NoResponse
        /\ warm' = view
        /\ response' =
               [kind |-> IF whole THEN "snapshot" ELSE "diff",
                ops |-> IF whole THEN <<>> ELSE GenerateDiffOps(warm.forest, view.forest),
                payload |-> {n \in Shown(view.forest) : whole \/ view.hashes[n] # warm.hashes[n]},
                news |-> news]
        /\ news' = "none"
        /\ UNCHANGED <<lists, collapsed, forgotten, browserVars>>

\* applyDifferentialView, with the animations the caller and the user's preference allow.
ReceiveView ==
    /\ response # NoResponse
    /\ \E animate \in BOOLEAN :
           LET closing == IF animate THEN Closing(response.payload) ELSE {}
               dom == IF response.kind = "diff"
                      THEN ApplyServerDiffOps(response.ops, response.payload, closing)
                      ELSE RenderStructure(closing)
           IN  /\ page' = dom.page
               /\ fading' = dom.fading
               /\ shut' = {n \in Shown(dom.page) : IF n \in response.payload
                                                  THEN warm.hashes[n].closed ELSE n \in shut}
    /\ inStep' = /\ inStep /\ fading = {} /\ response.news # "many"
                 /\ response.kind = "snapshot" => response.news # "rearranged"
    /\ forgotten' = FALSE
    /\ response' = NoResponse
    /\ UNCHANGED <<lists, collapsed, news, warm>>

\* The connection fails after the server has recorded the view; the banner goes
\* away with the next answer, and the tab goes on with the elements it has.
LoseResponse ==
    /\ "losses" \in Disturbances
    /\ response # NoResponse
    /\ response' = NoResponse
    /\ inStep' = FALSE
    /\ UNCHANGED <<lists, collapsed, news, warm, forgotten, page, shut, fading>>

\* finishAnimation: the children of a collapsed note leave the page, wherever they are now.
EndAnimation(p) ==
    LET gone == {e[2] : e \in {f \in fading : f[1] = p}}
        below == UNION {Below(page, n) \cup {n} : n \in gone}
    IN  /\ gone # {}
        /\ page' = [q \in Parents |-> IF q \in below THEN <<>>
                                      ELSE SelectSeq(page[q], LAMBDA n : n \notin gone)]
        /\ fading' = {e \in fading : e[2] \notin below}
        /\ shut' = shut \ below
        /\ UNCHANGED <<lists, collapsed, news, warm, forgotten, response, inStep>>

Next ==
    \/ \E n \in Notes, p \in Parents, i \in 1..Cardinality(Notes) : PlaceNote(n, p, i)
    \/ \E n \in Notes : RemoveNote(n)
    \/ \E n \in Notes : ToggleCollapsed(n)
    \/ Rearrange
    \/ ForgetView
    \/ RequestView
    \/ ReceiveView
    \/ LoseResponse
    \/ \E p \in Notes : EndAnimation(p)

Spec == Init /\ [][Next]_vars

\* --- Properties -------------------------------------------------------------------------

\* The page as it will be when the animations have ended.
Settled ==
    LET gone == {e[2] : e \in fading}
        below == UNION {Below(page, n) \cup {n} : n \in gone}
    IN  [q \in Parents |-> IF q \in below THEN <<>> ELSE SelectSeq(page[q], LAMBDA n : n \notin gone)]

\* A difference of one change, or a new search shown as a difference, applied to a
\* page that showed the previous view, makes the page show the new view exactly,
\* and so does a structure rendered after one change.
PageFollowsView == inStep /\ response = NoResponse => Settled = warm.forest

\* The server's warm view is what the tab displays (notes.py:376, view_cache.py:12).
PageShowsWarmView == response = NoResponse /\ fading = {} => page = warm.forest
=============================================================================
