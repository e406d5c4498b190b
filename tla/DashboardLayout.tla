---------------------------- MODULE DashboardLayout ---------------------------
(***************************************************************************)
(* What the edits of the custom dashboard do to the widgets, against the   *)
(* schema the BFF checks on every save.  One user who waits for each save; *)
(* the races of saves are the subject of LayoutSync.  A widget is its      *)
(* geometry: which panel it shows is never looked at by an edit.           *)
(***************************************************************************)
EXTENDS Integers, Sequences

CONSTANTS
    Columns,      \* DASHBOARD_GRID.columns
    MaxWidgets,   \* DASHBOARD_GRID.maxWidgets
    MinW, MinH,   \* DASHBOARD_GRID.minW, minH
    MaxH,         \* DASHBOARD_GRID.maxH
    MaxY,         \* greatest y the schema accepts, 1000 in the source
    AddH,         \* height of an added widget, 3 in the source
    Start         \* DEFAULT_LAYOUT

Widget == [x : Int, y : Int, w : Int, h : Int]

\* WidgetSchema and LayoutSchema.
WidgetOk(g) ==
    /\ g.x \in 0..(Columns - 1)
    /\ g.y \in 0..MaxY
    /\ g.w \in MinW..Columns
    /\ g.h \in MinH..MaxH
    /\ g.x + g.w <= Columns

Accepts(widgets) ==
    /\ Len(widgets) <= MaxWidgets
    /\ \A i \in 1..Len(widgets) : WidgetOk(widgets[i])

ASSUME GridAssumption ==
    /\ Columns \in Nat \ {0} /\ MaxWidgets \in Nat
    /\ MinW \in 1..Columns /\ MinH \in Nat \ {0}
    /\ AddH \in MinH..MaxH /\ MaxH \in Nat
    /\ MaxY \in Nat
    /\ Start \in Seq(Widget) /\ Accepts(Start)

VARIABLES
    widgets,   \* the layout on the screen, saved unless refused
    refused    \* history: the edit whose save was refused, if any

gridVars == <<widgets, refused>>

GridTypeOK ==
    /\ widgets \in Seq(Widget)
    /\ refused \in {"none", "add", "remove", "move", "resize", "reset"}

GridInit == widgets = Start /\ refused = "none"

-------------------------------------------------------------------------------

\* The edit is shown, the BFF checks it, and a refusal reverts it.
Persist(edit, next) ==
    IF Accepts(next)
    THEN widgets' = next /\ refused' = "none"
    ELSE widgets' = widgets /\ refused' = edit

\* The bottom of the lowest widget.
Bottom ==
    LET bottoms == {0} \cup {widgets[i].y + widgets[i].h : i \in 1..Len(widgets)}
    IN  CHOOSE b \in bottoms : \A c \in bottoms : c <= b

\* Mutant: the cap on the number of widgets is the menu's, not the hook's.
AddUncapped ==
    Persist("add", Append(widgets, [x |-> 0, y |-> Bottom, w |-> Columns, h |-> AddH]))

Add ==
    Persist("add",
            IF Len(widgets) >= MaxWidgets THEN widgets
            ELSE Append(widgets, [x |-> 0, y |-> Bottom, w |-> Columns, h |-> AddH]))

Without(i) ==
    [j \in 1..(Len(widgets) - 1) |-> widgets[IF j < i THEN j ELSE j + 1]]

Remove(i) == Persist("remove", Without(i))

Swapped(i, j) == [widgets EXCEPT ![i] = widgets[j], ![j] = widgets[i]]

\* The buttons at the ends are disabled.
Move(i, j) ==
    /\ j \in {i - 1, i + 1} \cap DOMAIN widgets
    /\ Persist("move", Swapped(i, j))

Clamp(low, high, v) == IF v > high THEN high ELSE IF v < low THEN low ELSE v
AtMost(v, high) == IF v > high THEN high ELSE v
AtLeast(v, low) == IF v < low THEN low ELSE v

\* Mutant: a widened widget is not pulled back into the grid.
ResizedInPlace(g, w, h) ==
    [x |-> g.x, y |-> g.y, w |-> Clamp(MinW, Columns, w), h |-> Clamp(MinH, MaxH, h)]

Resized(g, w, h) ==
    LET nextW == Clamp(MinW, Columns, w)
    IN  [x |-> AtLeast(AtMost(g.x, Columns - nextW), 0), y |-> g.y,
         w |-> nextW, h |-> Clamp(MinH, MaxH, h)]

Resize(i, w, h) == Persist("resize", [widgets EXCEPT ![i] = Resized(@, w, h)])

\* The four size buttons and when they are disabled.
Narrow(i) == widgets[i].w > MinW
             /\ Resize(i, AtLeast(widgets[i].w - 2, MinW), widgets[i].h)
Widen(i)  == widgets[i].x + widgets[i].w < Columns
             /\ Resize(i, AtMost(widgets[i].w + 2, Columns), widgets[i].h)
Taller(i) == Resize(i, widgets[i].w, widgets[i].h + 1)
Shorter(i) == widgets[i].h > MinH
              /\ Resize(i, widgets[i].w, AtLeast(widgets[i].h - 1, MinH))

ResetLayout == widgets' = Start /\ refused' = "none"

GridNext ==
    \/ Add
    \/ \E i \in DOMAIN widgets :
         \/ Remove(i)
         \/ \E j \in DOMAIN widgets : Move(i, j)
         \/ Narrow(i) \/ Widen(i) \/ Taller(i) \/ Shorter(i)
    \/ ResetLayout

GridSpec == GridInit /\ [][GridNext]_gridVars

-------------------------------------------------------------------------------
(* Properties                                                              *)

\* useDashboardLayout.ts:102-147 against routes/dashboardLayout.ts:50-75: no
\* sequence of clicks leads to a layout whose removal, move or resize the BFF
\* refuses; only an add is ever refused.
OnlyAddsRefused == refused \in {"none", "add"}

\* The only reason is the depth of the stack: an add is refused when the
\* widgets already reach below the last row the schema accepts.
RefusedOnlyWhenDeep ==
    refused = "add" => \E i \in DOMAIN widgets : widgets[i].y + widgets[i].h > MaxY

\* The inductive invariant behind OnlyAddsRefused: what is on the screen is a
\* layout the BFF accepts.
GridInv == GridTypeOK /\ Accepts(widgets) /\ OnlyAddsRefused
===============================================================================
