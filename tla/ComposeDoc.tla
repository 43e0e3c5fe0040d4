----------------------------- MODULE ComposeDoc -----------------------------
(***************************************************************************)
(* The custom-app builder's document (ui/src/lib/utils/compose-mutate.ts): *)
(* one YAML text is the only state; the form shows a view computed from it *)
(* and every keystroke in a field replaces the text by the result of one   *)
(* pure setter.  The text pane may break and mend the syntax at any time.  *)
(* A setter's duty is to change the field it is named for and nothing else *)
(* of what the document MEANS to compose.                                  *)
(***************************************************************************)
EXTENDS Naturals, Sequences, FiniteSets, SequencesExt

CONSTANTS
    Text,          \* what a YAML scalar can say
    Vals,          \* non-empty field values the user types
    ServiceKeys,   \* non-empty service names the user types
    EntryKinds,    \* the entry lists offered: "ports", "volumes", "devices"
    Scalars,       \* the scalar fields of a service that are offered
    InitialTexts,  \* documents the page may start from
    MaxRows,       \* bound: rows of one list
    MaxEdits       \* bound: edits of one session

VARIABLES
    text,          \* [valid, doc]: the YAML text; doc is what it said when it last parsed
    fork,          \* the document was opened as a fork of a store app
    edits          \* edits made, for the bound

docVars == <<text, fork, edits>>

Absent == ""       \* a deleted or empty scalar: the view shows both as ""
Bare == "<bare>"   \* KEY without "=" in a list, KEY: null in a map: taken from the host

Input == Vals \cup {""}
ExtKeys == <<"x-powerlab", "x-web", "x-casaos">>

----------------------------------------------------------------------------
(* Shapes.  Only what the setters tell apart is kept: an entry's form and   *)
(* its colon-separated parts, the form of environment and labels, and       *)
(* whether a mapping holds anything besides the field the form edits.       *)

Short(parts) == [form |-> "short", parts |-> parts]
Long(host, container, rest) ==
    [form |-> "long", host |-> host, container |-> container, rest |-> rest]

NoPairs == [form |-> "none", e |-> <<>>]
Pairs(form, e) == [form |-> form, e |-> e]
Pair(k, v) == [key |-> k, val |-> v]

Blank(key) ==
    [key |-> key, scalar |-> [f \in Scalars |-> Absent], rows |-> [k \in EntryKinds |-> <<>>],
     env |-> NoPairs, labels |-> NoPairs, mem |-> 0, memLimit |-> 0, deployRest |-> FALSE]

NoExt == [on |-> FALSE, port |-> Absent, id |-> FALSE, rest |-> FALSE]

(* The elements of s that are in S, in their order (Array.filter).          *)
Where(s, S) ==
    LET kept == {i \in DOMAIN s : s[i] \in S}
        upTo(i) == Cardinality({j \in kept : j <= i})
    IN  [n \in 1..Cardinality(kept) |-> s[CHOOSE i \in kept : upTo(i) = n]]

EmptyDoc ==
    [name |-> Absent, icon |-> Absent, ext |-> [k \in ToSet(ExtKeys) |-> NoExt], services |-> <<>>]

(* loadDoc: a text that does not parse is an empty document.                *)
LoadDoc(t) == IF t.valid THEN t.doc ELSE EmptyDoc

(* ensureService(doc, firstSvcKey ?? 'app').                                *)
EnsureService(d) == IF d.services = <<>> THEN Blank("app") ELSE d.services[1]

Stored(d, s) ==
    [d EXCEPT !.services = IF @ = <<>> THEN <<s>> ELSE [@ EXCEPT ![1] = s]]

----------------------------------------------------------------------------
(* Scalar setters.                                                          *)

SetProjectName(d, v) == [d EXCEPT !.name = v]

SetIcon(d, v) == [d EXCEPT !.icon = v]

(* The services object is rebuilt under the new key; a later service of     *)
(* that key is assigned over the renamed one, at its place.                 *)
SetServiceName(d, k) ==
    IF d.services = <<>> \/ d.services[1].key = "" THEN [d EXCEPT !.services = <<Blank(k)>>]
    ELSE LET others == Tail(d.services)
             clash == {i \in DOMAIN others : others[i].key = k}
             first == IF clash = {} THEN [d.services[1] EXCEPT !.key = k]
                      ELSE others[CHOOSE i \in clash : TRUE]
         IN  IF k = d.services[1].key THEN d
             ELSE [d EXCEPT !.services = <<first>> \o Where(others, {s \in ToSet(others) : s.key # k})]

(* setImage assigns what it is given, setRestart never leaves the field     *)
(* empty, setNetwork drops the default, the others drop an empty value.     *)
ScalarValue(f, v) ==
    CASE f = "restart" /\ v = "" -> "no"
      [] f = "network_mode" /\ v = "bridge" -> Absent
      [] OTHER -> v

SetScalar(d, f, v) == Stored(d, [EnsureService(d) EXCEPT !.scalar[f] = ScalarValue(f, v)])

(* The whole deploy mapping is replaced, and mem_limit deleted.             *)
SetMemLimitMb(d, mb) ==
    Stored(d, [EnsureService(d) EXCEPT !.mem = mb, !.memLimit = 0, !.deployRest = FALSE])

(* The port is always written under x-powerlab, which goes when it is empty. *)
SetWebPort(d, v) ==
    LET ext == [d.ext["x-powerlab"] EXCEPT !.port = v]
        keep == v # "" \/ ext.id \/ ext.rest
    IN  [d EXCEPT !.ext["x-powerlab"] = IF keep THEN [ext EXCEPT !.on = TRUE] ELSE NoExt]

----------------------------------------------------------------------------
(* Entries: ports, volumes, devices.                                        *)

\* Mutant: the form's model keeps strings only, so a mapping is flattened.
SetFieldFlattened(kind, entry, field, v) ==
    LET h == IF entry.form = "long" THEN entry.host ELSE entry.parts[1]
        c == IF entry.form = "long" THEN entry.container
             ELSE IF Len(entry.parts) > 1 THEN entry.parts[2] ELSE ""
    IN  Short(IF field = "host" THEN <<v, c>> ELSE <<h, v>>)

\* Mutant: the two halves of a string are put back in the wrong order.
SetFieldSwapped(kind, entry, field, v) ==
    IF entry.form = "long" THEN [entry EXCEPT ![field] = v]
    ELSE LET part(i) == IF Len(entry.parts) >= i THEN entry.parts[i] ELSE ""
         IN  Short(IF field = "host" THEN <<part(2), v>> ELSE <<v, part(1)>>)

(* setPortField, setVolumeField, setDeviceField: a string is split at ":"   *)
(* and rebuilt from its first two parts; a mapping keeps its other keys.    *)
SetField(kind, entry, field, v) ==
    LET part(i) == IF Len(entry.parts) >= i THEN entry.parts[i] ELSE ""
    IN  CASE entry.form = "short" /\ field = "host" -> Short(<<v, part(2)>>)
          [] entry.form = "short" /\ field = "container" -> Short(<<part(1), v>>)
          [] entry.form = "long" /\ kind = "devices" ->
                Short(IF field = "host" THEN <<v, "">> ELSE <<"", v>>)
          [] OTHER -> [entry EXCEPT ![field] = v]

SetEntryAt(d, kind, i, field, v) ==
    LET s == EnsureService(d)
    IN  Stored(d, [s EXCEPT !.rows[kind][i] = SetField(kind, @, field, v)])

AddEntry(d, kind) ==
    LET s == EnsureService(d)
    IN  Stored(d, [s EXCEPT !.rows[kind] = Append(@, Short(<<"">>))])

RemoveArrayItem(d, kind, i) == [d EXCEPT !.services[1].rows[kind] = RemoveAt(@, i)]

----------------------------------------------------------------------------
(* Environment and labels: read through the view, written back in one form. *)

ViewPairs(p) ==
    [i \in DOMAIN p.e |->
        [p.e[i] EXCEPT !.val = IF @ # Bare THEN @ ELSE IF p.form = "map" THEN "null" ELSE ""]]

Keyed(e) == Where(e, {p \in ToSet(e) : p.key # ""})

SetEnvAt(d, i, field, v) ==
    LET s == EnsureService(d)
        list == [ViewPairs(s.env) EXCEPT ![i][field] = v]
        filled == Where(list, {p \in ToSet(list) : p.key # "" \/ p.val # ""})
    IN  Stored(d, [s EXCEPT !.env = IF filled = <<>> THEN NoPairs ELSE Pairs("list", Keyed(filled))])

(* An environment that is not a list is replaced by an empty one.           *)
AddEnv(d) ==
    LET s == EnsureService(d)
        list == IF s.env.form = "list" THEN s.env.e ELSE <<>>
    IN  Stored(d, [s EXCEPT !.env = Pairs("list", Append(list, Pair("", "")))])

RemoveEnvAt(d, i) ==
    LET s == EnsureService(d)
        list == RemoveAt(ViewPairs(s.env), i)
    IN  Stored(d, [s EXCEPT !.env = IF list = <<>> THEN NoPairs ELSE Pairs("list", Keyed(list))])

(* obj[e.key] = e.value for each e: the first place, the last value.        *)
AsObject(list) ==
    LET lastOf(k) == Max({i \in DOMAIN list : list[i].key = k})
        firsts == {i \in DOMAIN list : \A j \in 1..(i - 1) : list[j].key # list[i].key}
        places == Where([i \in DOMAIN list |-> i], firsts)
    IN  [n \in DOMAIN places |-> Pair(list[places[n]].key, list[lastOf(list[places[n]].key)].val)]

\* Mutant: the pairs are written as they are, duplicates and all.
SetLabelAtPlain(d, i, field, v) ==
    LET s == EnsureService(d)
        list == Keyed([ViewPairs(s.labels) EXCEPT ![i][field] = v])
    IN  Stored(d, [s EXCEPT !.labels = IF list = <<>> THEN NoPairs ELSE Pairs("map", list)])

SetLabelAt(d, i, field, v) ==
    LET s == EnsureService(d)
        list == Keyed([ViewPairs(s.labels) EXCEPT ![i][field] = v])
    IN  Stored(d, [s EXCEPT !.labels = IF list = <<>> THEN NoPairs ELSE Pairs("map", AsObject(list))])

NewLabel(n) == "new.label." \o ToString(n)

(* Labels that are not a mapping are replaced by an empty one; the new key  *)
(* is numbered by how many labels there are.                                *)
AddLabel(d) ==
    LET s == EnsureService(d)
        list == IF s.labels.form = "map" THEN s.labels.e ELSE <<>>
    IN  Stored(d, [s EXCEPT !.labels =
                      Pairs("map", AsObject(Append(list, Pair(NewLabel(Len(list)), ""))))])

RemoveLabelAt(d, i) ==
    LET s == EnsureService(d)
        list == RemoveAt(ViewPairs(s.labels), i)
    IN  Stored(d, [s EXCEPT !.labels = IF list = <<>> THEN NoPairs ELSE Pairs("map", AsObject(list))])

----------------------------------------------------------------------------
(* The view the form renders, and the two readings of the host ports.       *)

\* Mutant: only strings are read.
EntryViewStrings(kind, entry) ==
    IF entry.form = "long" THEN [host |-> "", container |-> ""]
    ELSE [host |-> entry.parts[1], container |-> IF Len(entry.parts) = 1 THEN "" ELSE entry.parts[2]]

EntryView(kind, entry) ==
    LET one == IF kind = "volumes" THEN "" ELSE entry.parts[1]
    IN  CASE entry.form = "short" ->
                [host |-> entry.parts[1],
                 container |-> IF Len(entry.parts) = 1 THEN one ELSE entry.parts[2]]
          [] entry.form = "long" /\ kind = "devices" -> [host |-> "", container |-> ""]
          [] OTHER -> [host |-> entry.host, container |-> entry.container]

(* x-powerlab, x-casaos, x-web: the first that is there gives the port.     *)
ViewPort(d) ==
    LET order == <<"x-powerlab", "x-casaos", "x-web">>
        on == Where(order, {k \in ToSet(order) : d.ext[k].on})
    IN  IF on = <<>> THEN Absent ELSE d.ext[on[1]].port

(* A text that does not parse, has no service, or whose first service has   *)
(* an empty name shows no service fields.                                   *)
ViewFromYaml(t) ==
    LET d == LoadDoc(t)
        shown == d.services # <<>> /\ d.services[1].key # ""
        s == IF shown THEN d.services[1] ELSE Blank("")
        listed(kind) == [i \in DOMAIN s.rows[kind] |-> EntryView(kind, s.rows[kind][i])]
    IN  [projectName |-> d.name, icon |-> d.icon, serviceName |-> s.key, scalar |-> s.scalar,
         webPort |-> IF shown THEN ViewPort(d) ELSE Absent,
         rows |-> [kind \in EntryKinds |-> listed(kind)],
         env |-> ViewPairs(s.env), labels |-> ViewPairs(s.labels),
         memLimitMb |-> IF s.mem # 0 THEN s.mem ELSE s.memLimit]

(* The ports the form asks the server about: refreshPortChecks.             *)
FormProbes(t) ==
    LET v == ViewFromYaml(t)
        hosts == IF "ports" \in EntryKinds THEN {v.rows["ports"][i].host : i \in DOMAIN v.rows["ports"]} ELSE {}
    IN  ({v.webPort} \cup hosts) \ {Absent}

\* Mutant: the host port is whatever precedes the first colon.
PublishedBeforeColon(entry) == IF entry.form = "long" THEN entry.host ELSE entry.parts[1]

(* publishedHostPorts: one part is a container port, three are ip:host:container. *)
PublishedHostPort(entry) ==
    IF entry.form = "long" THEN entry.host
    ELSE CASE Len(entry.parts) = 1 -> Absent
           [] Len(entry.parts) = 2 -> entry.parts[1]
           [] OTHER -> entry.parts[2]

(* analyzeCompose: the ports an install of the document asks about.         *)
RequestedPorts(d) ==
    UNION {{PublishedHostPort(e) : e \in ToSet(s.rows["ports"])} : s \in ToSet(d.services)} \ {Absent}

----------------------------------------------------------------------------
(* compose-extension.ts and the fork of a store app.                        *)

ReadExt(d) ==
    LET on == Where(ExtKeys, {k \in ToSet(ExtKeys) : d.ext[k].on})
    IN  IF on = <<>> THEN [key |-> "", ext |-> NoExt] ELSE [key |-> on[1], ext |-> d.ext[on[1]]]

\* Mutant: only the canonical key is looked at.
DeleteExtIdCanonical(d) == [d EXCEPT !.ext["x-powerlab"].id = FALSE]

DeleteExtId(d) ==
    LET k == ReadExt(d).key IN IF k = "" THEN d ELSE [d EXCEPT !.ext[k].id = FALSE]

ForkDoc(d) == [DeleteExtId(d) EXCEPT !.name = IF @ = Absent THEN @ ELSE @ \o "-custom"]

----------------------------------------------------------------------------
(* The edits the form offers for the text it shows: one per input handler.  *)

Fields == {"host", "container"}
PairFields == {"key", "val"}

Only(fields) == fields \cap Scalars

(* Service identity.                                                        *)
IdentityEdits ==
    [op : {"project"}, v : Input] \cup [op : {"icon"}, v : Input] \cup [op : {"web"}, v : Input]
    \cup [op : {"service"}, v : ServiceKeys \cup {""}]
    \cup [op : {"scalar"}, f : Only({"container_name", "image"}), v : Input]

NetworkEdits == [op : {"scalar"}, f : Only({"network_mode"}), v : Input]

(* A list's Add button, and the two inputs and the X of each of its rows.   *)
RowEdits(kind, rows) ==
    (IF Len(rows) < MaxRows THEN [op : {"add"}, kind : {kind}] ELSE {})
    \cup [op : {"set"}, kind : {kind}, i : DOMAIN rows, field : Fields, v : Input]
    \cup [op : {"remove"}, kind : {kind}, i : DOMAIN rows]

PortEdits(v) == IF "ports" \in EntryKinds THEN RowEdits("ports", v.rows["ports"]) ELSE {}
VolumeEdits(v) == IF "volumes" \in EntryKinds THEN RowEdits("volumes", v.rows["volumes"]) ELSE {}
DeviceEdits(v) == IF "devices" \in EntryKinds THEN RowEdits("devices", v.rows["devices"]) ELSE {}

(* The memory slider never gives 0; the restart buttons never give "".      *)
ExecutionEdits ==
    [op : {"scalar"}, f : Only({"command", "user", "working_dir", "privileged"}), v : Input]
    \cup [op : {"scalar"}, f : Only({"restart"}), v : Vals]
    \cup [op : {"mem"}, mb : {256}]

EnvEdits(v) ==
    (IF Len(v.env) < MaxRows THEN [op : {"addEnv"}] ELSE {})
    \cup [op : {"setEnv"}, i : DOMAIN v.env, field : PairFields, v : Input]
    \cup [op : {"removeEnv"}, i : DOMAIN v.env]

LabelEdits(v, s) ==
    (IF Len(s.labels.e) < MaxRows THEN [op : {"addLabel"}] ELSE {})
    \cup [op : {"setLabel"}, i : DOMAIN v.labels, field : PairFields, v : Input]
    \cup [op : {"removeLabel"}, i : DOMAIN v.labels]

EditsOf(t) ==
    LET v == ViewFromYaml(t)
    IN  IdentityEdits \cup NetworkEdits \cup PortEdits(v) \cup VolumeEdits(v) \cup DeviceEdits(v)
        \cup ExecutionEdits \cup EnvEdits(v) \cup LabelEdits(v, EnsureService(LoadDoc(t)))

Apply(e, d) ==
    CASE e.op = "project"     -> SetProjectName(d, e.v)
      [] e.op = "icon"        -> SetIcon(d, e.v)
      [] e.op = "service"     -> SetServiceName(d, e.v)
      [] e.op = "scalar"      -> SetScalar(d, e.f, e.v)
      [] e.op = "web"         -> SetWebPort(d, e.v)
      [] e.op = "mem"         -> SetMemLimitMb(d, e.mb)
      [] e.op = "add"         -> AddEntry(d, e.kind)
      [] e.op = "set"         -> SetEntryAt(d, e.kind, e.i, e.field, e.v)
      [] e.op = "remove"      -> RemoveArrayItem(d, e.kind, e.i)
      [] e.op = "addEnv"      -> AddEnv(d)
      [] e.op = "setEnv"      -> SetEnvAt(d, e.i, e.field, e.v)
      [] e.op = "removeEnv"   -> RemoveEnvAt(d, e.i)
      [] e.op = "addLabel"    -> AddLabel(d)
      [] e.op = "setLabel"    -> SetLabelAt(d, e.i, e.field, e.v)
      [] e.op = "removeLabel" -> RemoveLabelAt(d, e.i)

Edited(e, t) == [valid |-> TRUE, doc |-> Apply(e, LoadDoc(t))]

DocInit ==
    \E d \in InitialTexts, f \in BOOLEAN :
        /\ text = [valid |-> TRUE, doc |-> IF f THEN ForkDoc(d) ELSE d]
        /\ fork = f
        /\ edits = 0

FormEdit ==
    /\ edits < MaxEdits
    /\ \E e \in EditsOf(text) : text' = Edited(e, text)
    /\ edits' = edits + 1
    /\ UNCHANGED fork

(* Typing in the text pane (bind:value): the syntax is broken, or mended.   *)
TypeText ==
    /\ edits < MaxEdits
    /\ text' = [text EXCEPT !.valid = ~@]
    /\ edits' = edits + 1
    /\ UNCHANGED fork

DocNext == FormEdit \/ TypeText

DocSpec == DocInit /\ [][DocNext]_docVars

----------------------------------------------------------------------------
(* What a document means to compose, and what an edit should make of it.    *)

EntryMeaning(kind, entry) ==
    LET m(h, c, x) == [host |-> h, container |-> c, extra |-> x]
        p == entry.parts
    IN  IF entry.form = "long" THEN m(entry.host, entry.container, IF entry.rest THEN "rest" ELSE Absent)
        ELSE CASE Len(p) = 1 -> m(IF kind = "devices" THEN p[1] ELSE Absent, p[1], Absent)
               [] Len(p) = 2 -> m(p[1], p[2], Absent)
               [] OTHER -> IF kind = "ports" THEN m(p[2], p[3], p[1]) ELSE m(p[1], p[2], p[3])

(* A label without a value has the empty one.                               *)
LabelMeaning(p) == [p EXCEPT !.val = IF @ = Bare THEN "" ELSE @]

ServiceMeaning(s) ==
    [key |-> s.key, scalar |-> s.scalar,
     rows |-> [kind \in EntryKinds |-> [i \in DOMAIN s.rows[kind] |-> EntryMeaning(kind, s.rows[kind][i])]],
     env |-> Keyed(s.env.e),
     labels |-> {LabelMeaning(p) : p \in ToSet(s.labels.e)},
     mem |-> IF s.mem # 0 THEN s.mem ELSE s.memLimit, deploy |-> s.deployRest]

Meaning(d) ==
    [name |-> d.name, icon |-> d.icon, web |-> ViewPort(d),
     ext |-> [id |-> ReadExt(d).ext.id, rest |-> ReadExt(d).ext.rest],
     services |-> [i \in DOMAIN d.services |-> ServiceMeaning(d.services[i])]]

(* The edit as the user means it: one field of the first service, or of the *)
(* document, and nothing else.                                              *)
Expected(e, t) ==
    LET d == t.doc
        s == EnsureService(d)
        m == Meaning(d)
        ms == ServiceMeaning(s)
        with(s2) == [m EXCEPT !.services = IF @ = <<>> THEN <<s2>> ELSE [@ EXCEPT ![1] = s2]]
    IN  CASE e.op = "project"     -> [m EXCEPT !.name = e.v]
          [] e.op = "icon"        -> [m EXCEPT !.icon = e.v]
          [] e.op = "web"         -> [m EXCEPT !.web = e.v]
          [] e.op = "service"     -> with([(IF m.services = <<>> THEN ServiceMeaning(Blank("")) ELSE ms)
                                              EXCEPT !.key = e.v])
          [] e.op = "scalar"      -> with([ms EXCEPT !.scalar[e.f] = ScalarValue(e.f, e.v)])
          [] e.op = "mem"         -> with([ms EXCEPT !.mem = e.mb])
          [] e.op = "add"         -> with([ms EXCEPT !.rows[e.kind] =
                                              Append(@, [host |-> "", container |-> "", extra |-> ""])])
          [] e.op = "set"         -> with([ms EXCEPT !.rows[e.kind][e.i][e.field] = e.v])
          [] e.op = "remove"      -> with([ms EXCEPT !.rows[e.kind] = RemoveAt(@, e.i)])
          [] e.op = "addEnv"      -> with(ms)
          [] e.op = "setEnv"      -> with([ms EXCEPT !.env = Keyed([s.env.e EXCEPT ![e.i][e.field] = e.v])])
          [] e.op = "removeEnv"   -> with([ms EXCEPT !.env = Keyed(RemoveAt(s.env.e, e.i))])
          [] e.op = "addLabel"    -> with([ms EXCEPT !.labels = @ \cup {Pair(NewLabel(Len(s.labels.e)), "")}])
          [] e.op = "setLabel"    -> with([ms EXCEPT !.labels =
                                        LET old == LabelMeaning(s.labels.e[e.i])
                                            new == [old EXCEPT ![e.field] = e.v]
                                        IN  (@ \ {old}) \cup (IF new.key = "" THEN {} ELSE {new})])
          [] e.op = "removeLabel" -> with([ms EXCEPT !.labels = @ \ {LabelMeaning(s.labels.e[e.i])}])

(* What the setters are known to lose.                                      *)
Loses(e, t) ==
    LET s == EnsureService(t.doc)
        entry == s.rows[e.kind][e.i]
        bare(p) == \E i \in DOMAIN p.e : p.e[i].val = Bare
        keys(places) == {s.labels.e[i].key : i \in places}
        labels == DOMAIN s.labels.e
        twice == ~IsInjective([i \in DOMAIN s.labels.e |-> s.labels.e[i].key])
    IN  \/ ~t.valid
        \/ e.op = "service" /\ t.doc.services # <<>>
              /\ (s.key = "" \/ \E i \in 2..Len(t.doc.services) : t.doc.services[i].key = e.v)
        \/ e.op = "mem" /\ s.deployRest
        \/ e.op = "web" /\ \E k \in ToSet(ExtKeys) \ {"x-powerlab"} : t.doc.ext[k].on
        \/ e.op = "set" /\ entry.form = "short" /\ Len(entry.parts) = 3
        \/ e.op = "set" /\ entry.form = "short" /\ Len(entry.parts) = 1 /\ entry.parts[1] # ""
        \/ e.op = "set" /\ entry.form = "long" /\ e.kind = "devices"
        \/ e.op = "addEnv" /\ s.env.form = "map"
        \/ e.op \in {"setEnv", "removeEnv"} /\ bare(s.env)
        \/ e.op = "addLabel" /\ (s.labels.form = "list" \/ NewLabel(Len(s.labels.e)) \in keys(labels))
        \/ e.op = "setLabel" /\ ("" \in keys(labels \ {e.i}) \/ (e.field = "key" /\ e.v \in keys(labels \ {e.i})))
        \/ e.op \in {"setLabel", "removeLabel"} /\ (twice \/ (s.labels.form = "map" /\ bare(s.labels)))

----------------------------------------------------------------------------
(* Properties.                                                              *)

(* What a document can be.  A name, an icon and what a scalar field says    *)
(* are any text; an entry has one to three parts, or is a mapping.          *)
PairLists == {NoPairs} \cup [form : {"list", "map"}, e : Seq([key : Text, val : Text])]
Entries == [form : {"short"}, parts : {p \in Seq(Text) : Len(p) \in 1..3}]
           \cup [form : {"long"}, host : Text, container : Text, rest : BOOLEAN]
Services == [key : Text, scalar : [Scalars -> Text], rows : [EntryKinds -> Seq(Entries)],
             env : PairLists, labels : PairLists, mem : Nat, memLimit : Nat, deployRest : BOOLEAN]
Exts == {NoExt} \cup [on : {TRUE}, port : Text, id : BOOLEAN, rest : BOOLEAN]

IsDoc(d) ==
    /\ d = [name |-> d.name, icon |-> d.icon, ext |-> d.ext, services |-> d.services]
    /\ d.ext \in [ToSet(ExtKeys) -> Exts] /\ d.services \in Seq(Services)

(* Service names and the keys of a labels mapping are keys of a YAML        *)
(* mapping, so none occurs twice.                                           *)
NamedOnce(d) ==
    /\ IsInjective([i \in DOMAIN d.services |-> d.services[i].key])
    /\ \A s \in ToSet(d.services) :
          s.labels.form = "map" => IsInjective([i \in DOMAIN s.labels.e |-> s.labels.e[i].key])

ASSUME DocConstantsOK ==
    /\ Vals \cup ServiceKeys \cup {"", "app", "null", "no", Bare} \subseteq Text
    /\ Bare \notin Vals /\ \A n \in 0..MaxRows : NewLabel(n) \in Text
    /\ "ports" \in EntryKinds /\ EntryKinds \subseteq {"ports", "volumes", "devices"}
    /\ MaxRows \in Nat /\ MaxEdits \in Nat

(* A document comes with one extension mapping, or with its store id in the *)
(* one that is read.                                                        *)
ASSUME TextsOK ==
    \A d \in InitialTexts :
        /\ IsDoc(d) /\ NamedOnce(d)
        /\ \A k \in ToSet(ExtKeys) : d.ext[k].id => k = ReadExt(d).key

(* Every document is one YAML can hold.                                     *)
DocTypeOK ==
    /\ text = [valid |-> text.valid, doc |-> text.doc]
    /\ text.valid \in BOOLEAN /\ fork \in BOOLEAN /\ edits \in 0..MaxEdits
    /\ IsDoc(text.doc) /\ NamedOnce(text.doc)

(* An edit changes the field it is named for and nothing else of what the   *)
(* document means, unless it is one of the losses listed in Loses: a        *)
(* long-form entry keeps its other keys, the other rows, the other fields   *)
(* and the other services stay as they were (compose-mutate.ts:4-10).       *)
OnlyKnownLosses ==
    \A e \in EditsOf(text) :
        ~Loses(e, text) => Meaning(Apply(e, LoadDoc(text))) = Expected(e, text)

(* What the user types is what the row he typed it in shows next: the       *)
(* inputs are controlled by the view, so anything else would be undone      *)
(* under the cursor.                                                        *)
EditShows ==
    \A e \in EditsOf(text) :
        LET v == ViewFromYaml(Edited(e, text))
        IN  /\ e.op = "set" => v.rows[e.kind][e.i][e.field] = e.v
            /\ e.op = "service" => v.serviceName = e.v
            /\ e.op = "web" /\ e.v # "" /\ v.serviceName # "" => v.webPort = e.v
            /\ e.op = "setEnv" /\ (\A p \in ToSet(v.env) : p.key # "") /\ Len(v.env) = Len(ViewFromYaml(text).env)
                  => v.env[e.i][e.field] = e.v

(* Every port that installing the document would ask the server about for   *)
(* its first service is one the form asks about, unless the entry is bound  *)
(* to an address; the two parsers read the same list.                       *)
FormProbesPublished ==
    LET v == ViewFromYaml(text)
    IN  text.valid /\ v.serviceName # "" =>
          LET s == text.doc.services[1]
              unbound == {e \in ToSet(s.rows["ports"]) : e.form = "long" \/ Len(e.parts) < 3}
          IN  {PublishedHostPort(e) : e \in unbound} \ {Absent} \subseteq FormProbes(text)

(* The ports an install probes are exactly the host ports compose would     *)
(* publish, of every service and every form of entry.                       *)
ProbesEveryPublishedPort ==
    LET published(s) == {EntryMeaning("ports", e).host : e \in ToSet(s.rows["ports"])}
    IN  RequestedPorts(text.doc) = UNION {published(s) : s \in ToSet(text.doc.services)} \ {Absent}

(* A fork never reads as the store app again, whatever is edited after it:  *)
(* the store id is gone from the mapping that is read.                      *)
ForkStaysFork == fork => ~ReadExt(text.doc).ext.id

(* The questions about ports, of the form and of an install, are about what *)
(* compose would publish (ComposeForm's probe, composeAnalysis.ts).         *)
ProbesWhatIsPublished == FormProbesPublished /\ ProbesEveryPublishedPort

(* After any edits the document is well formed, no service or label is      *)
(* there twice, and a fork is still the user's own (compose-mutate.ts,      *)
(* compose-extension.ts).                                                   *)
ForkIsTheUsers == DocTypeOK /\ ForkStaysFork
=============================================================================
