------------------------------ MODULE HidDevice ------------------------------
(***************************************************************************)
(* The pad: IHID and its one IHIDDevice, as the player builds them         *)
(* (src/tools/game_probe.cpp:3776) and as the class does                   *)
(* (src/core/brew/hid_hle.cpp).  Edges of buttons wait in a queue until    *)
(* the title fetches them; the state of a button can be asked for at any   *)
(* time; the four axes rest at their centre.                               *)
(***************************************************************************)
EXTENDS Integers, Sequences

CONSTANTS
  Buttons,           \* how many entries the table of buttons has
  MaxEvents

VARIABLES
  down,              \* hid_button_state, last_buttons_
  events,            \* the queue of edges
  view,              \* the buttons that are down as the title was told
  registered,        \* RegisterForButtonEvent gave a live signal
  notices,           \* how often that signal was queued
  told,              \* the last answer
  sent               \* the edges so far

hidVars == <<down, events, view, registered, notices, told, sent>>

Table == 1 .. Buttons
Failed == [result |-> "EFAILED", words |-> <<>>]
Told(words) == told' = [result |-> "SUCCESS", words |-> words]

HidInit ==
  /\ down = {} /\ events = <<>> /\ view = {}
  /\ registered = FALSE /\ notices = 0
  /\ told = Failed
  /\ sent = 0

Queued(edges) ==
  /\ events' = events \o edges
  /\ sent' = sent + Len(edges)
  /\ sent' <= MaxEvents
  /\ UNCHANGED <<view, registered, told>>

\* UpdateState of the class: the edges between two states, in the table's order
TableOrder(buttons) ==
  {order \in UNION {[1 .. n -> buttons] : n \in 0 .. Buttons} :
     /\ \A b \in buttons : \E n \in DOMAIN order : order[n] = b
     /\ \A m, n \in DOMAIN order : m < n => order[m] < order[n]}
UpdateState(pad) ==
  /\ \E order \in TableOrder({b \in Table : (b \in pad) # (b \in down)}) :
       Queued([n \in DOMAIN order |-> [id |-> order[n], pressed |-> order[n] \in pad]])
  /\ down' = pad
  /\ UNCHANGED notices

\* InjectHidButtonEvent of the player: one edge, and the registered signal
Held_Unrecorded(b, pressed) == down
Held(b, pressed) == IF pressed THEN down \cup {b} ELSE down \ {b}
InjectHidButtonEvent(b, pressed) ==
  /\ pressed # (b \in down)
  /\ Queued(<<[id |-> b, pressed |-> pressed]>>)
  /\ down' = Held(b, pressed)
  /\ notices' = IF registered THEN notices + 1 ELSE notices

RegisterForButtonEvent(live) ==
  /\ registered' = live
  /\ Told(<<>>)
  /\ UNCHANGED <<down, events, view, notices, sent>>

Moved(buttons, edge) ==
  IF edge.pressed THEN buttons \cup {edge.id} ELSE buttons \ {edge.id}
GetNextButtonEvent ==
  /\ IF events = <<>>
     THEN told' = Failed /\ UNCHANGED <<events, view>>
     ELSE LET event == Head(events)
          IN  /\ events' = Tail(events)
              /\ view' = Moved(view, event)
              /\ Told(<<event.id, IF event.pressed THEN 1 ELSE 0>>)
  /\ UNCHANGED <<down, registered, notices, sent>>

Answers == UNCHANGED <<down, events, view, registered, notices, sent>>

\* a button by its UID or by its place in the table
GetButtonInfo(b) ==
  /\ IF b \in Table THEN Told(<<b, IF b \in down THEN 1 ELSE 0>>) ELSE told' = Failed
  /\ Answers
GetNumberOfButtons == Told(<<Buttons>>) /\ Answers

(* The enumeration: only a question for joysticks finds the pad, and no    *)
(* connection is ever pending, so that a title that fetches connections    *)
(* until there is none ends its loop.                                      *)
GetConnectedDevices(joysticks, room) ==
  /\ Told(<<IF joysticks THEN 1 ELSE 0, IF joysticks /\ room THEN 1 ELSE 0>>)
  /\ Answers
GetNextConnectEvent == told' = Failed /\ Answers
CreateDevice == Told(<<1>>) /\ Answers

(* Word 0 says that the axes are absolute; the others hold a position, or  *)
(* the UIDs of the axes at the words where they are.                       *)
Words == 25
AxisWords == {1, 2, 3, 6}
Position == [centre |-> 128, least |-> 0, most |-> 255]
GetPosition(kind) ==
  /\ Told([w \in 1 .. Words |-> IF w = 1 THEN 0 ELSE Position[kind]])
  /\ Answers
GetAxesInfo ==
  /\ Told([w \in 1 .. Words |-> IF w - 1 \in AxisWords THEN w - 1 ELSE 0])
  /\ Answers

HidNext ==
  \/ \E pad \in SUBSET Table : UpdateState(pad)
  \/ \E b \in Table, pressed \in BOOLEAN : InjectHidButtonEvent(b, pressed)
  \/ \E live \in BOOLEAN : RegisterForButtonEvent(live)
  \/ GetNextButtonEvent
  \/ \E b \in 0 .. Buttons + 1 : GetButtonInfo(b)
  \/ GetNumberOfButtons \/ GetNextConnectEvent \/ CreateDevice \/ GetAxesInfo
  \/ \E joysticks, room \in BOOLEAN : GetConnectedDevices(joysticks, room)
  \/ \E kind \in DOMAIN Position : GetPosition(kind)
HidSpec == HidInit /\ [][HidNext]_hidVars

HidTypeOK ==
  /\ down \subseteq Table /\ view \subseteq Table
  /\ sent \in 0 .. MaxEvents /\ notices \in 0 .. sent

(* The edges a title has fetched and those still queued tell the pad: from  *)
(* what the title was told, each queued edge moves a button that had not   *)
(* moved so yet, and the last leaves the buttons as they are now, so that  *)
(* a key released between two fetches is neither lost nor stuck.           *)
Replayed ==
  LET pad[n \in 0 .. Len(events)] == IF n = 0 THEN view ELSE Moved(pad[n - 1], events[n])
  IN  pad
EventsTellThePad ==
  /\ Replayed[Len(events)] = down
  /\ \A n \in DOMAIN events : events[n].pressed <=> events[n].id \notin Replayed[n - 1]

HidBounds == Buttons \in Nat

(* It holds since there are buttons between any two edges, and adding an    *)
(* edge at the end or fetching the first leaves those of the others.       *)
Edges == [id : Table, pressed : BOOLEAN]
Replays(pads) ==
  /\ pads[0] = view /\ pads[Len(events)] = down
  /\ \A n \in DOMAIN events :
       /\ pads[n] = Moved(pads[n - 1], events[n])
       /\ events[n].pressed <=> events[n].id \notin pads[n - 1]
PadInv ==
  /\ events \in Seq(Edges)
  /\ \E pads \in [0 .. Len(events) -> SUBSET Table] : Replays(pads)
=============================================================================
