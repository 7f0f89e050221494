---------------------------- MODULE ObjectLayout ----------------------------
(***************************************************************************)
(* Where the player puts the objects it hands to the guest.  Every         *)
(* interface is a table of traps and an object whose first word points at  *)
(* the table (BuildInterfaceObject, src/core/brew/interface_object.cpp).   *)
(* src/tools/game_probe.cpp gives each class its addresses by hand, page   *)
(* by page above 0x80000000, and carves the objects made while the title   *)
(* runs from counters that start inside the same pages.  Nothing refuses   *)
(* two classes the same words: the later one simply overwrites them.       *)
(*                                                                         *)
(* An address is the number of a word above 0x80000000.                    *)
(***************************************************************************)
EXTENDS Integers, Sequences, FiniteSets

CONSTANTS MaxNew           \* objects made of one class while the title runs

VARIABLES
  at,                      \* objects of Boot built so far
  built,                   \* every area written: class, table, slots, object
  overwritten,             \* classes some of whose words another class wrote
  made                     \* the class the title asks for, and how many times

layoutVars == <<at, built, overwritten, made>>

Word(page) == page * 1024
None == 0 - 1

(* BuildInterfaceObject: the slots of the table, then the object's word.   *)
Area(class, table, slots, object) ==
  [class |-> class, table |-> table, slots |-> slots, object |-> object]

\* the usual pair: the table in a page, the object in the next one
Paged(class, page, slots) == Area(class, Word(page), slots, Word(page + 1))
TableOnly(class, page, slots) == Area(class, Word(page), slots, None)

Overlap(a, b) ==
  \/ a.object # None /\ a.object = b.object
  \/ a.object # None /\ a.object \in b.table .. b.table + b.slots - 1
  \/ b.object # None /\ b.object \in a.table .. a.table + a.slots - 1
  \/ a.table < b.table + b.slots /\ b.table < a.table + a.slots

(* The eleven font classes: a table for each, both addresses a page up.    *)
Font(n) == [class |-> <<"font", n>>, table |-> Word(\h7B + n - 1), slots |-> 16,
            object |-> Word(\h7C + n - 1)]
Fonts == [n \in 1..11 |-> Font(n)]
Named(name) == <<name, 0>>

(* The objects of the boot in the order main() builds them.                *)
UpToFonts ==
  << Paged(Named("context 0x68"), \h68, 8),   Paged(Named("IDisplay"), \h02, 26),
     Paged(Named("0x01002001"), \h0C, 40),    Paged(Named("IShell"), \h00, 52),
     Paged(Named("resource image"), \h30, 16), Paged(Named("0x01001045"), \h18, 20),
     Paged(Named("compat bitmap"), \h8C, 20), Paged(Named("device bitmap"), \h0E, 20),
     Paged(Named("IFileMgr"), \h04, 21),      TableOnly(Named("IFile"), \h06, 12),
     Paged(Named("last file"), \h12, 12),     TableOnly(Named("IUnzipAStream"), \h86, 8),
     Paged(Named("0x0100100c"), \h48, 40),    Paged(Named("ISQLMgr"), \hD0, 16),
     TableOnly(Named("ISQLDatabase"), \hD2, 16), Paged(Named("widget"), \h6C, 24),
     Paged(Named("0x01011810"), \h75, 32),    Paged(Named("IDOWNLOAD"), \h7D, 24),
     Paged(Named("IWEB"), \h7F, 8),           Paged(Named("sysctl"), \h77, 10) >>

AfterFonts ==
  << Paged(Named("typeface"), \h79, 10),      Paged(Named("ZEEBOMCP"), \h9A, 10),
     Paged(Named("CONFIG"), \h9C, 10),        Paged(Named("ISource"), \hA2, 10),
     Paged(Named("IGetLine"), \hA4, 12),      Paged(Named("ISourceUtil"), \h9E, 12),
     Paged(Named("IGL"), \h07, 80),           Paged(Named("IEGL"), \h09, 28),
     Paged(Named("IGLES11"), \h88, 150),      Paged(Named("surface manip"), \h8A, 22),
     Paged(Named("IForceFeed"), \h52, 20),    Paged(Named("image decoder"), \h54, 20),
     Paged(Named("IImage"), \h56, 20),        Paged(Named("ILicense"), \h58, 10),
     Paged(Named("ISound"), \h6E, 15),        Paged(Named("ITextCtl"), \hA0, 28),
     Paged(Named("IHIDDevice"), \h63, 40),    Paged(Named("IHID"), \h1C, 10),
     Area(Named("ISignal"), Word(\h65), 4, Word(\h65) + 64),
     Area(Named("ISignalCtl"), Word(\h65) + 128, 6, Word(\h65) + 192),
     Paged(Named("ISignalCBFactory"), \h1E, 20), Paged(Named("0x01005511"), \h60, 20),
     Paged(Named("0x0103d8ec"), \h40, 200),   Paged(Named("IHeap"), \h80, 9),
     Paged(Named("IHash"), \h82, 6),          TableOnly(Named("IMemAStream"), \h84, 7),
     Paged(Named("context 0x2c"), \h10, 20),  Paged(Named("context 0x28"), \h14, 20),
     Paged(Named("0x01030766"), \h44, 40),    TableOnly(Named("IMedia"), \h0B, 20),
     Area(Named("IMediaUtil"), Word(\h0B) + 256, 6, Word(\h0B) + 512) >>

Boot == UpToFonts \o Fonts \o AfterFonts

(* The counters of the objects made on request: the n-th object's area.    *)
Collection_OverSound(n) ==
  Area(Named("collection"), Word(\h6E), 24, Word(\h6F) + 64 * (n - 1))
Collection(n) ==
  Area(Named("collection"), Word(\h71), 24, Word(\h72) + 64 * (n - 1))

OnRequest(kind, n) ==
  CASE kind = "collection"  -> Collection(n)
    [] kind = "0x01028e3c"  -> Area(Named(kind), Word(\h73), 16, Word(\h74) + 64 * (n - 1))
    [] kind = "vector"      -> Area(Named(kind), Word(\h7D), 16, Word(\h7E) + 64 * (n - 1))
    [] kind = "self"        -> Area(Named(kind), Word(\hC0 + n - 1), 40,
                                    Word(\hC0 + n - 1) + 512)
    [] kind = "child"       -> Area(Named(kind), Word(\h90 + n - 1), 40,
                                    Word(\h90 + n - 1) + 512)
    [] kind = "renderer"    -> Area(Named(kind), Word(\hB0 + n - 1), 200,
                                    Word(\hB0 + n - 1) + 512)
    [] kind = "ISignal"     -> Area(Named(kind), Word(\h65), 4, Word(\h65) + 64 + n - 1)
    [] kind = "ISQLDatabase" -> Area(Named(kind), Word(\hD2), 16, Word(\hD3) + n - 1)
    [] kind = "IUnzipAStream" -> Area(Named(kind), Word(\h86), 8, Word(\h87) + n - 1)
    [] kind = "IMemAStream" -> Area(Named(kind), Word(\h84), 7, Word(\h85) + n - 1)
Kinds == {"collection", "0x01028e3c", "vector", "self", "child", "renderer",
          "ISignal", "ISQLDatabase", "IUnzipAStream", "IMemAStream"}

LayoutInit ==
  /\ at = 0
  /\ built = {}
  /\ overwritten = {}
  /\ made \in [kind : Kinds, count : {0}]

Place(area) ==
  /\ built' = built \cup {area}
  /\ overwritten' =
       overwritten \cup {b.class : b \in {x \in built : /\ x.class # area.class
                                                        /\ Overlap(x, area)}}

BuildNext ==
  /\ at < Len(Boot)
  /\ Place(Boot[at + 1])
  /\ at' = at + 1
  /\ UNCHANGED made

\* ISHELL_CreateInstance of a class with a factory
CreateAnother ==
  /\ at = Len(Boot)
  /\ made.count < MaxNew
  /\ Place(OnRequest(made.kind, made.count + 1))
  /\ made' = [made EXCEPT !.count = @ + 1]
  /\ UNCHANGED at

LayoutNext == BuildNext \/ CreateAnother
LayoutSpec == LayoutInit /\ [][LayoutNext]_layoutVars

(* The pages the fonts run through, 0x8007B000 to 0x80086000.              *)
Disputed(area) ==
  \/ area.table \in Word(\h7B) .. Word(\h87) - 1
  \/ area.object \in Word(\h7B) .. Word(\h87) - 1

(* The classes outside the fonts' pages keep their words: whatever object  *)
(* the title asks for, up to MaxNew of it, the tables of the other classes *)
(* still answer with their own methods.  The collection was first placed   *)
(* over ISound, which the comment at src/tools/game_probe.cpp:2953 tells.  *)
TablesKept ==
  \A area \in built : area.class \in overwritten => Disputed(area)
=============================================================================
