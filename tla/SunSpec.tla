------------------------------- MODULE SunSpec -------------------------------
(***************************************************************************)
(* Reconciling a register map with an as-built SunSpec device: the map is  *)
(* generated from a catalog of models (generate.py), the device and the    *)
(* map's own image are walked by the same code (sunspec_discovery.py), the *)
(* two dumps are compared (diff_dump_vs_map.py), and what the controller   *)
(* then encodes through the map is executed by the device.                 *)
(*                                                                         *)
(* An image is [base, marker, models, sfs, tail]: what it shows as marker, *)
(* its chain of model ids and declared lengths, its scale factors by name, *)
(* and what follows the last model: the end model, unmapped registers, or  *)
(* registers that read zero.                                               *)
(* A device is built from the catalog's layout; its models, lengths, scale *)
(* factors and base are its own, and its field asset says which map it is  *)
(* compared with.                                                          *)
(***************************************************************************)
EXTENDS ModbusCodec, SunSpecModels

CONSTANTS
    MapBase,        \* BASE = HOLDING_BASE
    EndId,          \* 0xFFFF
    MaxModels,      \* bound of the walk
    Devices,        \* the as-built devices met
    Values          \* engineering values the controller sends

VARIABLES
    device,     \* the device at hand
    phase,      \* "marker", "walk", "chain", "bindings", "done" or "failed"
    subject,    \* "device" or "map": what is being walked
    off,        \* address of the next model header
    dumps,      \* the models found so far, by subject
    pos,        \* next position of the chain to compare
    clean,      \* no discrepancy so far
    command     \* the last setpoint sent: [point, value, address, words]

mapVars == <<device, phase, subject, off, dumps, pos, clean, command>>

-----------------------------------------------------------------------------
\* Where each thing of a row begins, when the first one begins at start and
\* each is as long as its size; and, last, where the row ends.
Starts(start, size) ==
    LET row[i \in 0 .. Len(size)] ==
            IF i = 0 THEN <<start>>
            ELSE LET at == row[i - 1] IN Append(at, at[i] + size[i])
    IN  row[Len(size)]

\* The points of a model, counted from its header, and the length of its body (L).
Offset(mid) == Starts(0, [i \in DOMAIN MODELS[mid] |-> MODELS[mid][i].size])
Body(mid) == Offset(mid)[Len(MODELS[mid]) + 1] - 2
Named(mid, name) == {i \in DOMAIN MODELS[mid] : MODELS[mid][i].name = name}

\* What reads back as it was: an id is a word and not the end model's, a scale
\* factor fits its register and gives a unit.
ModelIds == (0 .. Radix - 1) \ {EndId}
Scaled(sfs) ==
    \A n \in DOMAIN SfValues :
        n \in DOMAIN sfs /\ sfs[n] \in Int /\ Fits("sunssf", sfs[n]) /\ Factor(sfs[n]) \in Nat \ {0}

\* The catalog, as generate.py lays maps out from it.  Every model
\* starts with its header and fits its length register, a point's size is its
\* type's, and every scale factor has a value.
ASSUME CatalogAssumption ==
    /\ \A mid \in DOMAIN MODELS :
          /\ mid \in ModelIds \ {0} /\ Body(mid) < Radix
          /\ MODELS[mid] \in Seq({MODELS[mid][i] : i \in DOMAIN MODELS[mid]})
          /\ Len(MODELS[mid]) >= 2
          /\ MODELS[mid][1] = Point("ID", "uint16", 1, Absent)
          /\ MODELS[mid][2] = Point("L", "uint16", 1, Absent)
          /\ \A i \in DOMAIN MODELS[mid] :
                LET p == MODELS[mid][i]
                IN  /\ p.size \in Nat \ {0}
                    /\ p.type \in Types \ {"string"} => p.size = Width(p.type)
                    /\ p.type = "sunssf" => p.name \in DOMAIN SfValues
    /\ Scaled(SfValues) /\ Factor(0) \in Nat \ {0}

\* A canonical point is bound to a point of a model of the chain, and its scale
\* factor, if any, to a scale factor of the same model.
ASSUME AssetAssumption ==
    \A a \in DOMAIN ASSETS :
        /\ ASSETS[a].chain \in Seq(DOMAIN MODELS) /\ Len(ASSETS[a].chain) <= MaxModels
        /\ \A c \in DOMAIN ASSETS[a].bind :
              LET b == ASSETS[a].bind[c]
              IN  /\ \E k \in DOMAIN ASSETS[a].chain : ASSETS[a].chain[k] = b.model
                  /\ Named(b.model, b.point) # {}
                  /\ \A i \in Named(b.model, b.point) :
                        LET p == MODELS[b.model][i]
                        IN  /\ p.type \in Types \ {"string"}
                            /\ p.sf # Absent =>
                                  /\ Named(b.model, p.sf) # {}
                                  /\ \A j \in Named(b.model, p.sf) : MODELS[b.model][j].type = "sunssf"

\* The devices met are images of their own.
ASSUME DeviceAssumption ==
    /\ MapBase \in Nat /\ EndId \in Nat /\ MaxModels \in Nat /\ Values \subseteq Int
    /\ \A d \in Devices :
          /\ d.asset \in DOMAIN ASSETS /\ d.base \in Nat
          /\ d.models \in Seq([id : ModelIds, length : 0 .. Radix - 1])
          /\ d.tail \in {"end", "unmapped", "zeros"}
          /\ Scaled(d.sfs)

Marker == <<5, 6>>
MapImages ==
    [a \in DOMAIN ASSETS |->
        [base |-> MapBase, marker |-> Marker,
         models |-> [k \in DOMAIN ASSETS[a].chain |->
                       [id |-> ASSETS[a].chain[k], length |-> Body(ASSETS[a].chain[k])]],
         sfs |-> SfValues,
         tail |-> "end"]]

\* The map the device at hand is compared with, and what it binds.
MapImage == MapImages[device.asset]
Bind == ASSETS[device.asset].bind
ImageOf(s) == IF s = "device" THEN device ELSE MapImage

\* Address of the k-th header; the one after the last is the end model's.
Header(img, k) ==
    Starts(img.base + 2, [j \in DOMAIN img.models |-> 2 + img.models[j].length])[k]
EndAt(img) == Header(img, Len(img.models) + 1)

\* The catalog's points a model of this length has room for: the walk leaves
\* out the first one that does not fit and all after it.
Kept(mid, length) ==
    LET at == Offset(mid) IN {i \in DOMAIN MODELS[mid] : at[i + 1] <= 2 + length}
CellsOf(m, header) ==
    LET at == Offset(m.id)
    IN  {[model |-> m.id, point |-> MODELS[m.id][i], address |-> header + at[i]] :
            i \in Kept(m.id, m.length)}
Cells(img) ==
    UNION {CellsOf(img.models[k], Header(img, k)) :
           k \in {j \in DOMAIN img.models : img.models[j].id \in DOMAIN MODELS}}

\* The words of an image (build, served verbatim): marker, headers, scale
\* factors and the end model; every other register of the span reads zero.
MarkerWords(img) == {<<img.base + i - 1, img.marker[i]>> : i \in 1 .. 2}
HeaderWords(img) ==
    UNION {{<<Header(img, k), img.models[k].id>>,
            <<Header(img, k) + 1, img.models[k].length>>} : k \in DOMAIN img.models}
ScaleCells(img) == {c \in Cells(img) : c.point.type = "sunssf"}
ScaleWords(img) ==
    {<<c.address, IntToWords("sunssf", img.sfs[c.point.name])[1]>> : c \in ScaleCells(img)}
EndWords(img) == IF img.tail = "end" THEN {<<EndAt(img), EndId>>} ELSE {}
Written(img) == MarkerWords(img) \cup HeaderWords(img) \cup ScaleWords(img) \cup EndWords(img)
Readable(img, a) ==
    \/ img.base <= a /\ a < EndAt(img)
    \/ img.tail = "end" /\ a \in EndAt(img) .. EndAt(img) + 1
    \/ img.tail = "zeros" /\ a >= EndAt(img)
Word(words, a) ==
    LET there == {w \in words : w[1] = a}
    IN  IF there = {} THEN 0 ELSE (CHOOSE w \in there : TRUE)[2]

\* The map's entry of a canonical point: its address and type, and the
\* address of its scale factor, all in the map's own image.
CellOf(img, mid, name) ==
    CHOOSE c \in Cells(img) : c.model = mid /\ c.point.name = name
Canon(c) ==
    LET cell == CellOf(MapImage, Bind[c].model, Bind[c].point)
        sf == cell.point.sf
    IN  [address |-> cell.address, type |-> cell.point.type, sf |-> sf,
         sfAddress |-> IF sf = Absent THEN Absent
                       ELSE CellOf(MapImage, Bind[c].model, sf).address]

-----------------------------------------------------------------------------
MapInit ==
    /\ device \in Devices
    /\ phase = "marker" /\ subject = "device" /\ off = device.base
    /\ dumps = [s \in {"device", "map"} |-> <<>>]
    /\ pos = 1 /\ clean = TRUE /\ command = Absent

\* The walk starts at the configured base and needs the marker there.
CheckMarker ==
    /\ phase = "marker"
    /\ LET img == ImageOf(subject)
           words == Written(img)
       IN  /\ off' = img.base + 2
           /\ phase' = IF <<Word(words, img.base), Word(words, img.base + 1)>> = Marker
                       THEN "walk" ELSE "failed"
    /\ UNCHANGED <<device, subject, dumps, pos, clean, command>>

\* A bug: scale factors decoded without their sign.
EntryUnsigned(words, header, mid, length) ==
    LET pts == IF mid \in DOMAIN MODELS THEN MODELS[mid] ELSE <<>>
        at == IF mid \in DOMAIN MODELS THEN Offset(mid) ELSE <<>>
        kept == IF mid \in DOMAIN MODELS THEN Kept(mid, length) ELSE {}
        scale == {i \in kept : pts[i].type = "sunssf"}
    IN  [id |-> mid, length |-> length,
         points |-> {[name |-> pts[i].name, offset |-> at[i],
                      address |-> header + at[i], type |-> pts[i].type] : i \in kept},
         sfs |-> [n \in {pts[i].name : i \in scale} |->
                    Word(words, header + at[CHOOSE i \in scale : pts[i].name = n])]]

\* One model of the dump: the points that fit with their offsets, addresses
\* and types, and the values its scale-factor registers have.
Entry(words, header, mid, length) ==
    LET pts == IF mid \in DOMAIN MODELS THEN MODELS[mid] ELSE <<>>
        at == IF mid \in DOMAIN MODELS THEN Offset(mid) ELSE <<>>
        kept == IF mid \in DOMAIN MODELS THEN Kept(mid, length) ELSE {}
        scale == {i \in kept : pts[i].type = "sunssf"}
    IN  [id |-> mid, length |-> length,
         points |-> {[name |-> pts[i].name, offset |-> at[i],
                      address |-> header + at[i], type |-> pts[i].type] : i \in kept},
         sfs |-> [n \in {pts[i].name : i \in scale} |->
                    WordsToInt("sunssf", <<Word(words, header + at[CHOOSE i \in scale : pts[i].name = n])>>)]]

\* Next subject, or on to the comparison.
Walked ==
    IF subject = "device"
    THEN subject' = "map" /\ phase' = "marker" /\ off' = MapBase
    ELSE phase' = "chain" /\ UNCHANGED <<subject, off>>

\* The header at off: the end model or the bound ends the walk, a register
\* that cannot be read aborts it, anything else is recorded and skipped.
WalkModel ==
    /\ phase = "walk"
    /\ LET img == ImageOf(subject)
           found == dumps[subject]
           words == Written(img)
           mid == Word(words, off)
           length == Word(words, off + 1)
       IN  \/ /\ Len(found) < MaxModels
              /\ ~(Readable(img, off) /\ Readable(img, off + 1))
              /\ phase' = "failed"
              /\ UNCHANGED <<subject, off, dumps>>
           \/ /\ Len(found) < MaxModels
              /\ Readable(img, off) /\ Readable(img, off + 1)
              /\ mid # EndId
              /\ dumps' = [dumps EXCEPT ![subject] = Append(@, Entry(words, off, mid, length))]
              /\ off' = off + 2 + length
              /\ UNCHANGED <<phase, subject>>
           \/ /\ Len(found) >= MaxModels \/ (Readable(img, off) /\ mid = EndId)
              /\ Walked
              /\ UNCHANGED dumps
    /\ UNCHANGED <<device, pos, clean, command>>

-----------------------------------------------------------------------------
\* A bug: the declared lengths are not compared.
AgreeWhateverLength(e, d) ==
    /\ e.id = d.id
    /\ \A p \in e.points : \E q \in d.points : q.offset = p.offset /\ q.type = p.type
    /\ \A n \in DOMAIN e.sfs : n \in DOMAIN d.sfs /\ d.sfs[n] = e.sfs[n]

\* The comparison of one position: same model, same length, every expected
\* point at the same offset with the same type, every scale factor the same.
Agree(e, d) ==
    /\ e.id = d.id
    /\ e.length = d.length
    /\ \A p \in e.points : \E q \in d.points : q.offset = p.offset /\ q.type = p.type
    /\ \A n \in DOMAIN e.sfs : n \in DOMAIN d.sfs /\ d.sfs[n] = e.sfs[n]

CompareModel ==
    /\ phase = "chain"
    /\ LET e == dumps["map"]
           d == dumps["device"]
       IN  \/ /\ pos \in DOMAIN e \cup DOMAIN d
              /\ clean' = (clean /\ pos \in DOMAIN e \cap DOMAIN d /\ Agree(e[pos], d[pos]))
              /\ pos' = pos + 1
              /\ UNCHANGED phase
           \/ /\ pos \notin DOMAIN e \cup DOMAIN d
              /\ phase' = "bindings"
              /\ UNCHANGED <<pos, clean>>
    /\ UNCHANGED <<device, subject, off, dumps, command>>

\* A binding the controller uses: the device has a point of that type at that
\* address.  (Its scale factor is shown in the report too, but only the
\* comparison of the chain makes it a discrepancy.)
PointsOf(models) == UNION {models[k].points : k \in DOMAIN models}
BindingAgrees(c) ==
    \E reg \in {Canon(c)}, q \in PointsOf(dumps["device"]) :
        q.address = reg.address /\ q.type = reg.type

\* Vendor points, after the end model, are left to be confirmed by hand and
\* never make a discrepancy: Bind does not list them.
CompareBindings ==
    /\ phase = "bindings"
    /\ clean' = (clean /\ \A c \in DOMAIN Bind : BindingAgrees(c))
    /\ phase' = "done"
    /\ UNCHANGED <<device, subject, off, dumps, pos, command>>

\* The controller writes a canonical point through a map found clean: the
\* scale factor is read from the device at the map's address.  A value that
\* does not fit is not written.  (One command: it changes nothing the next
\* one depends on.)
Send ==
    /\ phase = "done" /\ clean /\ command = Absent
    /\ \E c \in {c \in DOMAIN Bind : Bind[c].rw = "rw"} :
       \E reg \in {Canon(c)}, v \in Values :
       \E sf \in {IF reg.sf = Absent THEN 0
                  ELSE WordsToInt("sunssf", <<Word(Written(device), reg.sfAddress)>>)} :
          LET words == Encode(reg.type, v, sf)
          IN  /\ words # Refused
              /\ command' = [point |-> c, value |-> v, address |-> reg.address, words |-> words]
    /\ UNCHANGED <<device, phase, subject, off, dumps, pos, clean>>

MapNext == CheckMarker \/ WalkModel \/ CompareModel \/ CompareBindings \/ Send

MapSpec == MapInit /\ [][MapNext]_mapVars

-----------------------------------------------------------------------------
\* What the walk recorded of an image is what the image is: its models in
\* order with their declared lengths, and the scale factors it really has,
\* up to the bound of the walk.
Prefix(s) == SubSeq(s, 1, IF Len(s) < MaxModels THEN Len(s) ELSE MaxModels)
Recovered(img, models) ==
    LET places == {<<c.model, c.point.name, c.address>> : c \in Cells(img)}
    IN  /\ Len(models) >= Len(Prefix(img.models))
        /\ \A k \in DOMAIN Prefix(img.models) :
              /\ models[k].id = img.models[k].id /\ models[k].length = img.models[k].length
              /\ \A n \in DOMAIN models[k].sfs : models[k].sfs[n] = img.sfs[n]
              /\ \A p \in models[k].points : <<models[k].id, p.name, p.address>> \in places
WalkRecovers ==
    phase \in {"chain", "bindings", "done"} =>
        /\ Recovered(device, dumps["device"])
        /\ Recovered(MapImage, dumps["map"])

\* The verdict is right in both directions, when the device presents its
\* image at the map's base: "ok" exactly when the device has the map's models
\* with their lengths and no scale factor of theirs differs.
Same ==
    /\ Prefix(device.models) = Prefix(MapImage.models)
    /\ Len(dumps["device"]) = Len(dumps["map"])
    /\ \A c \in Cells(MapImage) :
          c.point.type = "sunssf" => device.sfs[c.point.name] = SfValues[c.point.name]
Verdict == phase = "done" /\ device.base = MapBase => (clean <=> Same)

\* What the controller sends through a map found clean is executed as meant:
\* the register written is the device's own register of that point, and what
\* the device reads in it is within half a step of what was sent.
Understood ==
    \E c \in Cells(device) :
        /\ c.model = Bind[command.point].model
        /\ c.point.name = Bind[command.point].point
        /\ c.address = command.address
        /\ LET sf == IF c.point.sf = Absent THEN 0 ELSE device.sfs[c.point.sf]
               got == Decode(c.point.type, command.words, sf)
           IN  /\ 2 * (got - command.value) <= Factor(sf)
               /\ 2 * (command.value - got) <= Factor(sf)
CommandUnderstood == command # Absent /\ device.base = MapBase => Understood
=============================================================================
