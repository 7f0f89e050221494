---------------------------- MODULE GlTextureLog ----------------------------
(***************************************************************************)
(* The texture calls of the guest, recorded so that a save state can be    *)
(* replayed on the GL context of a new process: GlTextureRecordingBackend, *)
(* CompactGlTextureLog and ReplayGlTextureLog (core/gl_texture_log.cpp),   *)
(* over the driver's texture objects.  The guest uses one target.          *)
(***************************************************************************)
EXTENDS Integers, Vectors

CONSTANTS
    Names,      \* the texture names the driver hands out, 1..n
    BootNames,  \* those the boot sequence created, before ClearLog
    Values,     \* the values of a parameter and the images of a level, > 0; one image
                \* is storage without pixels
    MaxLog      \* bound: entries of the log

VARIABLES
    gl,         \* the driver: the names in use, the bound one, their textures
    log,        \* log_
    unbound,    \* the guest has not bound since the last compaction
    lost        \* the fields of textures that the log does not tell, or tells wrong

logVars == <<gl, log, unbound, lost>>

Fresh == [param |-> 0, image |-> 0]

Booted ==
    [names |-> BootNames, bound |-> 0, tex |-> [n \in Names |-> Fresh]]

(***************************************************************************)
(* The driver: the lowest free name, and a deleted texture is unbound.     *)
(***************************************************************************)
NewName(g) == CHOOSE n \in Names \ g.names : \A m \in Names \ g.names : n <= m

GenTextures(g) ==
    IF g.names = Names THEN g
    ELSE [g EXCEPT !.names = @ \cup {NewName(g)}, !.tex[NewName(g)] = Fresh]

DeleteTextures(g, n) ==
    [g EXCEPT !.names = @ \ {n}, !.bound = IF @ = n THEN 0 ELSE @]

BindTexture(g, n) == [g EXCEPT !.bound = n]

(* TexImage2D without pixels. *)
Reserved == 1

FieldNames == {"param", "image"}

Set(texture, field, v) ==
    IF field = "param" THEN [texture EXCEPT !.param = v] ELSE [texture EXCEPT !.image = v]

(* A call that sets a field of the bound texture; the default texture is out
   of the model. *)
Write(g, field, v) ==
    IF g.bound \in g.names THEN [g EXCEPT !.tex[g.bound] = Set(@, field, v)] ELSE g

(***************************************************************************)
(* ReplayGlTextureLog.                                                     *)
(***************************************************************************)
Replayed(g, e) ==
    CASE e.op = "gen" -> GenTextures(g)
      [] e.op = "delete" -> DeleteTextures(g, e.name)
      [] e.op = "bind" -> BindTexture(g, e.name)
      [] OTHER -> Write(g, e.op, e.value)

\* the driver before the first of the entries and after each
Replays(entries) ==
    LET r[k \in 0..Len(entries)] ==
            IF k = 0 THEN Booted ELSE Replayed(r[k - 1], entries[k])
    IN r

ReplayGlTextureLog(entries) == Replays(entries)[Len(entries)]

(* The names come out as recorded. *)
IdsMatch(entries) ==
    \A k \in DOMAIN entries : entries[k].op = "gen" =>
        LET before == Replays(entries)[k - 1] IN
        before.names # Names /\ NewName(before) = entries[k].name

(***************************************************************************)
(* CompactGlTextureLog.  The walk keeps, for every name generated in the   *)
(* log and not deleted, the last value of each field; the generations and  *)
(* deletions stay, then one bind and the fields of each survivor follow,   *)
(* in the order the names were first seen.                                 *)
(***************************************************************************)
(* A generated name starts afresh, though it may be used again. *)
Born(w, n) ==
    [w EXCEPT !.live = @ \cup {n}, !.state[n] = Fresh,
              !.order = PushOnce(@, n)]

Walked(w, e) ==
    CASE e.op = "gen" -> [Born(w, e.name) EXCEPT !.kept = Append(@, e)]
      [] e.op = "delete" ->
            [w EXCEPT !.kept = Append(@, e), !.live = @ \ {e.name},
                      !.bound = IF @ = e.name THEN 0 ELSE @]
      [] e.op = "bind" -> [w EXCEPT !.bound = e.name]
      [] OTHER -> IF w.bound \in w.live
                    THEN [w EXCEPT !.state[w.bound] = Set(@, e.op, e.value)] ELSE w

Nothing ==
    [kept |-> <<>>, live |-> {}, state |-> [n \in Names |-> Fresh], order |-> <<>>, bound |-> 0]

Walks(entries) ==
    LET w[k \in 0..Len(entries)] ==
            IF k = 0 THEN Nothing ELSE Walked(w[k - 1], entries[k])
    IN w

Walk(entries) == Walks(entries)[Len(entries)]

Emitted(out, n, fields) ==
    LET bind == Append(out, [op |-> "bind", name |-> n])
        param == IF fields.param = 0 THEN bind
                 ELSE Append(bind, [op |-> "param", value |-> fields.param])
    IN CASE fields = Fresh -> out
         [] fields # Fresh /\ fields.image = 0 -> param
         [] OTHER -> Append(param, [op |-> "image", value |-> fields.image])

\* what is written out after each of the names in the order of the walk
Emissions(w) ==
    LET out[k \in 0..Len(w.order)] ==
            IF k = 0 THEN w.kept
            ELSE IF w.order[k] \in w.live
                 THEN Emitted(out[k - 1], w.order[k], w.state[w.order[k]]) ELSE out[k - 1]
    IN out

CompactGlTextureLog(entries) ==
    LET w == Walk(entries) IN Emissions(w)[Len(w.order)]

(***************************************************************************)
(* The session.  ClearLog ran when the boot sequence ended.                *)
(***************************************************************************)
LogInit ==
    /\ gl \in {[Booted EXCEPT !.bound = n] : n \in BootNames \cup {0}}
    /\ log = <<>>
    /\ unbound = TRUE /\ lost = {}

Recorded(e) == Len(log) < MaxLog /\ log' = Append(log, e)

RecordGen ==
    /\ gl.names # Names
    /\ Recorded([op |-> "gen", name |-> NewName(gl)])
    /\ gl' = GenTextures(gl)
    /\ lost' = lost \ ({NewName(gl)} \X FieldNames)
    /\ UNCHANGED unbound

RecordDelete ==
    \E n \in gl.names :
        /\ Recorded([op |-> "delete", name |-> n])
        /\ gl' = DeleteTextures(gl, n)
        /\ UNCHANGED <<unbound, lost>>

RecordBind ==
    \E n \in gl.names \cup {0} :
        /\ Recorded([op |-> "bind", name |-> n])
        /\ gl' = BindTexture(gl, n) /\ unbound' = FALSE
        /\ UNCHANGED lost

(* What goes into the log of a value: of an image that is too large only that
   there is one. *)
Copies(field, v) == IF field = "image" THEN {v, Reserved} ELSE {v}

(* A write before the next bind is lost on the bound texture, and its entry goes
   to the one the log ends with. *)
LostBy(field, v, copy) ==
    CASE unbound -> lost \cup ({gl.bound, Walk(log).bound} \X {field})
      [] ~unbound /\ copy = v -> lost \ {<<gl.bound, field>>}
      [] OTHER -> lost \cup {<<gl.bound, field>>}

RecordWrite ==
    \E f \in FieldNames, v \in Values : \E copy \in Copies(f, v) :
        /\ Recorded([op |-> f, value |-> copy])
        /\ gl' = Write(gl, f, v)
        /\ lost' = LostBy(f, v, copy)
        /\ UNCHANGED unbound

(* A part of an image is replaced, and not recorded. *)
TexSubImage2D ==
    \E v \in Values :
        /\ gl.bound \in gl.names /\ gl.tex[gl.bound].image # 0
        /\ gl' = Write(gl, "image", v)
        /\ lost' = lost \cup {<<gl.bound, "image">>}
        /\ UNCHANGED <<log, unbound>>

(* Every 1800 ticks, and before a state is written. *)
CompactLog ==
    /\ log' = CompactGlTextureLog(log) /\ unbound' = TRUE
    /\ UNCHANGED <<gl, lost>>

LogNext ==
    RecordGen \/ RecordDelete \/ RecordBind \/ RecordWrite \/ TexSubImage2D \/ CompactLog

LogSpec == LogInit /\ [][LogNext]_logVars

LogTypeOK ==
    /\ gl.names \subseteq Names /\ gl.bound \in gl.names \cup {0}
    /\ DOMAIN gl.tex = Names
    /\ unbound \in BOOLEAN /\ lost \subseteq (Names \cup {0}) \X FieldNames

Created == {n \in gl.names : \E k \in DOMAIN log : log[k].op = "gen" /\ log[k].name = n}

(* Two textures that differ only where the log could not know. *)
Alike(n, s, t, gone) ==
    /\ <<n, "param">> \in gone \/ s.param = t.param
    /\ <<n, "image">> \in gone \/ s.image = t.image

(* A state written now, replayed after the boot sequence of a new process,
   gives every texture made since boot its name, and every field that was last
   written by a call the log holds in full its value, whatever was deleted,
   reused, bound and compacted meanwhile (CompactGlTextureLog,
   ReplayGlTextureLog).  Not held are sub-images, the pixels of large images, and
   what is written after a compaction before the next bind: such an entry goes to
   another texture, though CompactLog calls itself safe at any time. *)
TexturesReturn ==
    LET saved == CompactGlTextureLog(log) IN
    /\ IdsMatch(saved)
    /\ \A n \in Created : Alike(n, ReplayGlTextureLog(saved).tex[n], gl.tex[n], lost)

LogBounds ==
    /\ Names \subseteq Nat \ {0} /\ BootNames \subseteq Names
    /\ Values \subseteq Nat \ {0} /\ Reserved \in Values /\ MaxLog \in Nat

Fields == [param : Values \cup {0}, image : Values \cup {0}]
Drivers == [names : SUBSET Names, bound : Names \cup {0}, tex : [Names -> Fields]]
Entries == [op : {"gen", "delete"}, name : Names] \cup [op : {"bind"}, name : Names \cup {0}]
           \cup [op : {"param", "image"}, value : Values]
WalkStates == [kept : Seq(Entries), live : SUBSET Names, state : [Names -> Fields],
               order : Seq(Names), bound : Names \cup {0}]

Generated(entries) ==
    {n \in Names : \E k \in DOMAIN entries : entries[k].op = "gen" /\ entries[k].name = n}

(* The entries replay under the names recorded and leave `names' in use; the replay
   and a walk over them both find the textures that w found live, as state says. *)
Restores(entries, names, w, state) ==
    LET g == ReplayGlTextureLog(entries)  v == Walk(entries) IN
    /\ entries \in Seq(Entries) /\ IdsMatch(entries) /\ g.names = names
    /\ Generated(entries) = Generated(w.kept)
    /\ v.kept = w.kept /\ v.live = w.live /\ w.live \subseteq Elems(v.order)
    /\ \A n \in w.live : g.tex[n] = state[n] /\ v.state[n] = state[n]

Sound(entries, w, g, isUnbound, gone) ==
    /\ entries \in Seq(Entries) /\ g \in Drivers /\ g.bound \in g.names \cup {0}
    /\ w.live = g.names \cap Generated(entries) /\ w.live \subseteq Elems(w.order)
    /\ Generated(entries) = Generated(w.kept)
    /\ Restores(w.kept, g.names, w, [n \in Names |-> Fresh])
    /\ isUnbound \/ w.bound = g.bound
    /\ \A n \in w.live : Alike(n, w.state[n], g.tex[n], gone)

LogInv ==
    /\ unbound \in BOOLEAN /\ lost \subseteq (Names \cup {0}) \X FieldNames
    /\ Sound(log, Walk(log), gl, unbound, lost)
=============================================================================
