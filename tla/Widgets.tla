------------------------------ MODULE Widgets ------------------------------
(***************************************************************************)
(* The widgets of the console's own menu (src/tools/game_probe.cpp:2567):  *)
(* one table of methods for nine classes, and state kept by the host under *)
(* the address of the widget, or under the pair of the widget and an item. *)
(* Widgets and the children an item asks for come from one counter that    *)
(* never goes back.                                                        *)
(*                                                                         *)
(* A title installs a handler by passing a block {function, context,       *)
(* destructor}; the player writes the handler it replaces back into that   *)
(* block, where the new handler finds whom to call next.  The three words  *)
(* travel together and are one value here, named like the block it stood   *)
(* in at first.  The title may pass any block again, as it is or filled    *)
(* anew, and store any value in an item.                                   *)
(***************************************************************************)
EXTENDS Integers, FiniteSets, Vectors

CONSTANTS
  MaxWidgets,        \* the instances the region holds
  Handlers,          \* the handlers of the title, each with a block of its own
  Items,             \* the items asked for: objects and numbers
  ObjectItems,       \* those from 0x5000 on, which hold objects
  Edge,              \* the largest coordinate a position may have (4096)
  Positions,         \* the blocks of position the title passes: x and width
  MaxCalls

VARIABLES
  widgets,           \* refs, children, props, parent, place, image, by address
  next,              \* the next free address
  handler, draws,    \* the handler installed by each slot, of each widget
  block,             \* what the block of each handler holds
  registered,        \* registered_widget_handlers: object and handler, never erased
  title,             \* what the title did: the handlers it filled anew or wrote over,
                     \* the values it stored in items, the widgets it created
  calls

widgetVars == <<widgets, next, handler, draws, block, registered, title, calls>>

None == 0
Absent == -1         \* no entry in the map of the children
Addresses == 1 .. MaxWidgets
Slots == {"event", "draw"}

WidgetsInit ==
  /\ widgets = [refs     |-> [w \in Addresses |-> 0],
                children |-> [w \in Addresses |-> [i \in Items |-> Absent]],
                props    |-> [w \in Addresses |-> [i \in Items |-> 0]],
                parent   |-> [w \in Addresses |-> None],
                place    |-> [w \in Addresses |-> [c \in Addresses |-> <<0, 0>>]],
                image    |-> [w \in Addresses |-> None],
                visible  |-> [w \in Addresses |-> TRUE]]
  /\ next = 1
  /\ handler = [w \in Addresses |-> None]
  /\ draws = [w \in Addresses |-> None]
  /\ block = [h \in Handlers |-> h]
  /\ registered = <<>>
  /\ title = [filled |-> {}, stored |-> {}, created |-> {}]
  /\ calls = 0

Calling == calls < MaxCalls /\ calls' = calls + 1
Made == 1 .. next - 1
KeepHandlers == UNCHANGED <<handler, draws, block, registered>>

\* allocate_widget: an identity of its own for every CreateInstance
CreateWidget ==
  /\ Calling
  /\ next <= MaxWidgets
  /\ widgets' = [widgets EXCEPT !.refs[next] = 1]
  /\ title' = [title EXCEPT !.created = @ \cup {next}]
  /\ next' = next + 1
  /\ KeepHandlers

\* slots 0, 1 and 2: the count starts at one and never falls below it
AddRef(w) ==
  /\ Calling
  /\ widgets' = [widgets EXCEPT !.refs[w] = (IF @ = 0 THEN 1 ELSE @) + 1]
  /\ UNCHANGED <<next, title>>
  /\ KeepHandlers
Release(w) ==
  /\ Calling
  /\ widgets' = [widgets EXCEPT !.refs[w] = IF @ > 1 THEN @ - 1 ELSE @]
  /\ UNCHANGED <<next, title>>
  /\ KeepHandlers
QueryInterface(w) ==
  /\ Calling
  /\ widgets' = [widgets EXCEPT !.refs[w] = @ + 1]
  /\ UNCHANGED <<next, title>>
  /\ KeepHandlers

(* Slot 3, selector 0x800: the child an object item holds is made when the *)
(* item is asked for and has no entry, a null one included; a number item  *)
(* only answers its property.                                              *)
GetItem(w, i) ==
  /\ Calling
  /\ KeepHandlers
  /\ UNCHANGED title
  /\ IF i \in ObjectItems /\ widgets.children[w][i] = Absent /\ next <= MaxWidgets
     THEN /\ widgets' = [widgets EXCEPT !.refs[next] = 1, !.children[w][i] = next]
          /\ next' = next + 1
     ELSE UNCHANGED <<widgets, next>>

(* Selector 0x801 stores what it is given, a child of another item too;    *)
(* 0x711 is always a property.                                             *)
SetItem(w, i, value) ==
  /\ Calling
  /\ IF i \in ObjectItems
     THEN /\ widgets' = [widgets EXCEPT !.children[w][i] = value]
          /\ title' = [title EXCEPT !.stored = @ \cup {value}]
     ELSE /\ widgets' = [widgets EXCEPT !.props[w][i] = value]
          /\ UNCHANGED title
  /\ UNCHANGED next
  /\ KeepHandlers
SetProperty(w, i, value) ==
  /\ Calling
  /\ widgets' = [widgets EXCEPT !.props[w][i] = value]
  /\ UNCHANGED <<next, title>>
  /\ KeepHandlers

(* Slots 4 and 16: what the block holds is installed, and the block        *)
(* receives the handler from before.                                       *)
WrittenBack_Itself(installed, previous) == installed
WrittenBack(installed, previous) == previous

SetHandler(slot, w, h) ==
  /\ Calling
  /\ IF slot = "event"
     THEN /\ block' = [block EXCEPT ![h] = WrittenBack(block[h], handler[w])]
          /\ handler' = [handler EXCEPT ![w] = block[h]]
          /\ registered' = Append(registered, [object |-> w, handler |-> block[h]])
          /\ UNCHANGED draws
     ELSE /\ block' = [block EXCEPT ![h] = WrittenBack(block[h], draws[w])]
          /\ draws' = [draws EXCEPT ![w] = block[h]]
          /\ UNCHANGED <<handler, registered>>
  /\ UNCHANGED <<widgets, next, title>>

(* The title writes its handler into the block anew, where it may still be *)
(* installed, over the handler that was written back there.                *)
FillBlock(h) ==
  /\ Calling
  /\ block[h] # h
  /\ block' = [block EXCEPT ![h] = h]
  /\ title' = [title EXCEPT !.filled = @ \cup {h, block[h]}]
  /\ UNCHANGED <<widgets, next, handler, draws, registered>>

(* Slot 5: with the identifier of IImage it hangs the image; otherwise it  *)
(* names the parent, and a block of position counts when it is plausible,  *)
(* for the child under this parent.                                        *)
Plausible(x, width) ==
  x <= Edge /\ width <= Edge /\ (width = 0 \/ x + width <= Edge)

SetImage(w, image) ==
  /\ Calling
  /\ widgets' = [widgets EXCEPT !.image[w] = image]
  /\ UNCHANGED <<next, title>>
  /\ KeepHandlers

AddChild(w, child, position) ==
  /\ Calling
  /\ widgets' = [widgets EXCEPT !.parent[child] = w,
                                !.place[w][child] = IF Plausible(position[1], position[2])
                                                    THEN position ELSE @]
  /\ UNCHANGED <<next, title>>
  /\ KeepHandlers

SetVisible(w, shown) ==
  /\ Calling
  /\ widgets' = [widgets EXCEPT !.visible[w] = shown]
  /\ UNCHANGED <<next, title>>
  /\ KeepHandlers

WidgetsNext ==
  \/ CreateWidget
  \/ \E h \in Handlers : FillBlock(h)
  \/ \E w \in Made :
       \/ AddRef(w) \/ Release(w) \/ QueryInterface(w)
       \/ \E i \in Items : GetItem(w, i)
       \/ \E i \in Items, v \in Made \cup {None} : SetItem(w, i, v) \/ SetProperty(w, i, v)
       \/ \E slot \in Slots, h \in Handlers : SetHandler(slot, w, h)
       \/ SetImage(w, 1)
       \/ \E child \in Made, p \in Positions : AddChild(w, child, p)
       \/ SetVisible(w, FALSE)
WidgetsSpec == WidgetsInit /\ [][WidgetsNext]_widgetVars

WidgetsTypeOK ==
  /\ next \in 1 .. MaxWidgets + 1
  /\ \A w \in Addresses : widgets.refs[w] \in 0 .. 1 + MaxCalls
  /\ handler \in [Addresses -> Handlers \cup {None}]
  /\ draws \in [Addresses -> Handlers \cup {None}]
  /\ block \in [Handlers -> Handlers \cup {None}]

(* Where a handler can be: installed by a slot, or written back to a block. *)
Places == (Slots \X Addresses) \cup ({"block"} \X Handlers)
HeldAt(p) ==
  CASE p[1] = "event" -> handler[p[2]]
    [] p[1] = "draw" -> draws[p[2]]
    [] OTHER -> block[p[2]]

(* Whatever blocks the title passes again, and wherever, every handler is   *)
(* in one place: none is lost, none is in two.  Only what the title itself  *)
(* filled anew or wrote over may be.                                        *)
HeldOnce ==
  \A h \in Handlers \ title.filled :
     \E p \in Places : \A q \in Places : HeldAt(q) = h <=> q = p

(* The handlers met from an installed one by following the blocks.          *)
Before(h) == IF h = None THEN None ELSE block[h]
Met(first) ==
  LET met[n \in 0 .. Cardinality(Handlers)] == IF n = 0 THEN first ELSE Before(met[n - 1])
  IN  met

(* The tail call of a handler that does not want an event never comes back  *)
(* to a handler that already saw it, though blocks are passed again (the    *)
(* loop that game_probe.cpp:2712 tells of), unless the title filled the     *)
(* block of one of them anew: with finitely many handlers, it ends.         *)
NeverBack(first) ==
  \A a, b \in 0 .. Cardinality(Handlers) :
     /\ a < b /\ Met(first)[a] = Met(first)[b]
     /\ \A n \in 0 .. b : Met(first)[n] \notin title.filled
     => Met(first)[a] = None

(* Every installed handler is one a key is offered to (game_probe.cpp:6678).*)
KeysFind ==
  \A w \in Addresses :
     handler[w] # None => [object |-> w, handler |-> handler[w]] \in Elems(registered)

HandlersChained ==
  /\ \A w \in Addresses : NeverBack(handler[w]) /\ NeverBack(draws[w])
  /\ HeldOnce
  /\ KeysFind

(* A child the player made for an item is held by that item alone and is no *)
(* widget of CreateInstance, so one widget's contents never turn up under   *)
(* another but by the title's own storing; and every position kept lies on  *)
(* the screen.                                                              *)
ChildrenApart ==
  /\ \A w, v \in Addresses, i, j \in Items :
       LET child == widgets.children[w][i] IN
       child \notin {Absent, None} \cup title.stored =>
         /\ child \notin title.created
         /\ child = widgets.children[v][j] => w = v /\ i = j
  /\ \A w, c \in Addresses : widgets.place[w][c][1] + widgets.place[w][c][2] <= Edge

WidgetBounds ==
  /\ MaxWidgets \in Nat /\ None \notin Handlers /\ Cardinality(Handlers) \in Nat
  /\ MaxCalls \in Nat /\ Edge \in Nat /\ Positions \subseteq Int \X Int

AllOfWidgets ==
  [refs : [Addresses -> Nat], children : [Addresses -> [Items -> Int]],
   props : [Addresses -> [Items -> Int]], parent : [Addresses -> Nat],
   place : [Addresses -> [Addresses -> Int \X Int]], image : [Addresses -> Nat],
   visible : [Addresses -> BOOLEAN]]
WidgetsKept ==
  /\ next \in 1 .. MaxWidgets + 1 /\ calls \in 0 .. MaxCalls
  /\ widgets \in AllOfWidgets
  /\ title \in [filled : SUBSET (Handlers \cup {None}), stored : SUBSET Int,
               created : SUBSET Addresses]
  /\ \A w \in Addresses : widgets.refs[w] <= 1 + calls
  /\ \A w \in Addresses, i \in Items : widgets.children[w][i] < next
  /\ \A w \in title.created : w < next
  /\ ChildrenApart
HandlersKept ==
  /\ block \in [Handlers -> Handlers \cup {None}]
  /\ handler \in [Addresses -> Handlers \cup {None}]
  /\ draws \in [Addresses -> Handlers \cup {None}]
  /\ registered \in Seq([object : Addresses, handler : Handlers \cup {None}])
  /\ HeldOnce
  /\ KeysFind
WidgetsInv == WidgetsKept /\ HandlersKept
=============================================================================
