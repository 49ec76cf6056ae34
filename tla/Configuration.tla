---------------------------- MODULE Configuration ----------------------------
(***************************************************************************)
(* Configurations: named sections of keys with text, read from a file, put *)
(* together by the ConfigManager, changed by options of the command line,  *)
(* and read by the modules and detectors.  A text is a sequence of         *)
(* brackets, commas, spaces, quotation marks and other marks.              *)
(***************************************************************************)
EXTENDS RecoChain

VARIABLES lines,           \* of the main file, not read yet
          section,         \* the one being read
          reader,          \* the sections read
          global_config, module_configs, detector_configs,
          detectors,       \* the detectors made
          instances,       \* configurations of the module instances
          text             \* a value that is read and written

confVars == <<lines, section, reader, global_config, module_configs, detector_configs,
              detectors, instances, text>>

Conf(name) == [name |-> name, values |-> <<>>, used |-> {}]

Internal == {"_global_dir", "_output_dir"}

has(config, key) == key \in DOMAIN config.values

markUsed(config, key) == [config EXCEPT !.used = @ \cup {key}]

\* A key that was used stays marked.
setText(config, key, value) == [config EXCEPT !.values = (key :> value) @@ @]

setDefault(config, key, value) ==
    IF has(config, key) THEN config ELSE markUsed(setText(config, key, value), key)

setAlias(config, new, old) ==
    IF has(config, old) /\ ~has(config, new)
    THEN markUsed(setText(config, new, config.values[old]), old)
    ELSE config

merge(config, other) == [config EXCEPT !.values = @ @@ other.values]

getUnusedKeys(config) == DOMAIN config.values \ (Internal \cup config.used)

-----------------------------------------------------------------------------
(* ConfigReader, ConfigManager, OptionParser *)

Lower(name) == IF name \in DOMAIN chain.lower THEN chain.lower[name] ELSE name

addConfiguration ==
    IF section.name # "" \/ section.values # <<>> THEN Append(reader, section) ELSE reader

ReadLine ==
    /\ chain.module = "Config" /\ at = "initialize" /\ lines # <<>>
    /\ LET line == Head(lines)
       IN  /\ line.kind # "bad"
           /\ CASE line.kind = "section" -> reader' = addConfiguration /\ section' = Conf(line.name)
                [] line.kind = "key" -> section' = setText(section, line.key, line.value) /\ UNCHANGED reader
                [] OTHER -> UNCHANGED <<section, reader>>
    /\ lines' = Tail(lines)
    /\ UNCHANGED <<loopVars, global_config, module_configs, detector_configs, detectors, instances, text>>

\* ConfigParseError
BadLine ==
    /\ chain.module = "Config" /\ lines # <<>> /\ Head(lines).kind = "bad"
    /\ Proceed("initialize", "aborted")
    /\ UNCHANGED confVars

\* The end of the file; the last section is kept even if it is empty.
EndOfConfiguration ==
    /\ chain.module = "Config" /\ lines = <<>>
    /\ Proceed("initialize", "read")
    /\ reader' = Append(reader, section)
    /\ UNCHANGED <<lines, section, global_config, module_configs, detector_configs, detectors, instances, text>>

getConfigurations(name) == Kept(reader, {c \in ToSet(reader) : Lower(c.name) = name})

getHeaderConfiguration == FoldLeft(merge, Conf(""), getConfigurations(""))

\* Sections without a name and those of the framework are global; the first to have
\* a key has the last word.
ConfigManager ==
    /\ chain.module = "Config"
    /\ Proceed("read", "options")
    /\ global_config' = FoldLeft(merge, getHeaderConfiguration, getConfigurations("corryvreckan"))
    /\ module_configs' = SelectSeq(reader, LAMBDA c : Lower(c.name) \notin {"", "corryvreckan", "ignore"})
    /\ UNCHANGED <<lines, section, reader, detector_configs, detectors, instances, text>>

\* Mutation: a key that the configuration has is not changed.
applyNewOptions(identifier, config, options) ==
    LET Apply(c, o) == IF has(c, o.key) THEN c ELSE setText(c, o.key, o.value)
    IN  FoldLeft(Apply, config, Kept(options, {o \in ToSet(options) : o.identifier = identifier}))

applyOptions(identifier, config, options) ==
    LET Apply(c, o) == setText(c, o.key, o.value)
    IN  FoldLeft(Apply, config, Kept(options, {o \in ToSet(options) : o.identifier = identifier}))

\* Options without an identifier are for the global configuration.  Identifiers
\* are compared as they are written.
LoadOptions ==
    /\ chain.module = "Config"
    /\ Proceed("options", "detectors")
    /\ global_config' = applyOptions("", global_config, chain.options)
    /\ module_configs' = [k \in DOMAIN module_configs |->
                            applyOptions(module_configs[k].name, module_configs[k], chain.options)]
    /\ detector_configs' = [k \in DOMAIN chain.detectors |->
                            applyOptions(chain.detectors[k].name, chain.detectors[k], chain.detector_options)]
    /\ UNCHANGED <<lines, section, reader, detectors, instances, text>>

-----------------------------------------------------------------------------
(* Values *)

Node(value, children) == [ok |-> TRUE, value |-> value, children |-> children]
Malformed == [ok |-> FALSE, value |-> <<>>, children |-> <<>>]

Space(mark) == mark = " "

TrimSpaces(str) ==
    LET filledAt == {i \in DOMAIN str : ~Space(str[i])}
    IN  IF filledAt = {} THEN <<>> ELSE SubSeq(str, Min(filledAt), Max(filledAt))

\* The two quotation marks: what is between two of one kind is skipped.
Quotes == {"double", "single"}

\* The next mark of a text, in brackets of depth in; a comma or a first space outside of
\* inner brackets ends an element.
WalkStep(str, walk, i) ==
    LET in == walk.in + CASE str[i] = "[" -> 1 [] str[i] = "]" -> -1 [] OTHER -> 0
        ends == in = 1 /\ (str[i] = "," \/ (Space(str[i]) /\ str[i - 1] \notin {" ", ","}))
    IN  IF walk.quote # "none" THEN [walk EXCEPT !.quote = IF str[i] = @ THEN "none" ELSE @]
        ELSE IF str[i] \in Quotes THEN [walk EXCEPT !.quote = str[i]]
        ELSE IF ~walk.ok \/ in < 0 \/ (str[i] = "[" /\ ~walk.changed /\ i # 1)
        THEN [walk EXCEPT !.ok = FALSE]
        ELSE [walk EXCEPT !.in = in, !.changed = @ \/ in # walk.in,
                          !.elements = IF ends THEN Append(@, SubSeq(str, walk.last, i - 1)) ELSE @,
                          !.last = IF ends THEN i + 1 ELSE @]

\* The outermost pair of brackets may be left out.
Walk(str, outer) ==
    FoldLeft(LAMBDA walk, i : WalkStep(str, walk, i),
             [ok |-> TRUE, quote |-> "none", in |-> outer, changed |-> FALSE, last |-> 2 - outer, elements |-> <<>>],
             [i \in DOMAIN str |-> i])

ValueNode(str, depth, outer, walk, children) ==
    IF str = <<>> \/ ~walk.ok \/ walk.quote # "none" \/ walk.in # outer THEN Malformed
    ELSE IF ~walk.changed /\ depth > 0 THEN Node(str, <<>>)
    ELSE IF (depth > 0 /\ Last(str) # "]") \/ \E k \in DOMAIN children : ~children[k].ok THEN Malformed
    ELSE IF depth = 0 /\ Len(children) = 1 /\ children[1].children # <<>> THEN children[1]
    ELSE Node(SubSeq(str, 2 - outer, Len(str) - 1 + outer), children)

parse_value[given \in Seq(STRING), depth \in Nat] ==
    LET str == TrimSpaces(given)
        outer == IF depth = 0 THEN 1 ELSE 0
        walk == Walk(str, outer)
        elements == Append(walk.elements, SubSeq(str, walk.last, Len(str) - 1 + outer))
    IN  ValueNode(str, depth, outer, walk,
                  [k \in DOMAIN elements |-> parse_value[elements[k], depth + 1]])

Invalid == [ok |-> FALSE, is |-> <<>>]

\* A string is one word, or all that is between two quotation marks; a number has no
\* quotation marks, brackets or commas.
from_string(node) ==
    LET str == TrimSpaces(node.value)
        inner == SubSeq(str, 2, Len(str) - 1)
        refused == {" "} \cup (IF chain.strings THEN {} ELSE Quotes \cup {"[", "]", ","})
    IN  IF ~node.ok \/ str = <<>> THEN Invalid
        ELSE IF chain.strings /\ str[1] \in Quotes
        THEN [ok |-> Len(str) > 1 /\ Last(str) = str[1] /\ str[1] \notin ToSet(inner), is |-> inner]
        ELSE [ok |-> ToSet(str) \cap refused = {}, is |-> str]

All(results) == [ok |-> \A k \in DOMAIN results : results[k].ok, is |-> [k \in DOMAIN results |-> results[k].is]]

Elements(node) == All([k \in DOMAIN node.children |-> from_string(node.children[k])])

getArray(value) == LET node == parse_value[value, 0] IN IF node.ok THEN Elements(node) ELSE Invalid

Rows(node) == IF node.children = <<>> THEN Invalid ELSE Elements(node)

getMatrix(value) ==
    LET node == parse_value[value, 0] IN
    IF node.ok THEN All([k \in DOMAIN node.children |-> Rows(node.children[k])]) ELSE Invalid

\* The first of several pairs with one key counts; a key may come without a value.
getMap(value) ==
    LET rows == getMatrix(value)
        First(key) == SelectSeq(rows.is, LAMBDA row : row[1] = key)[1]
        Value(row) == IF Len(row) = 2 THEN row[2] ELSE <<>>
    IN  IF rows.ok /\ \A k \in DOMAIN rows.is : Len(rows.is[k]) <= 2
        THEN [ok |-> TRUE, is |-> [key \in {rows.is[k][1] : k \in DOMAIN rows.is} |-> Value(First(key))]]
        ELSE Invalid

getAs(kind, value) ==
    CASE kind = "array" -> getArray(value) [] kind = "matrix" -> getMatrix(value) [] kind = "map" -> getMap(value)

Joined(texts) == Tail(FlattenSeq([k \in DOMAIN texts |-> <<",">> \o texts[k]]))

\* Mutation: a string is written without quotation marks.
Unquoted(value) == value

to_string(value) == IF chain.strings THEN <<"double">> \o value \o <<"double">> ELSE value

Written(values) == Joined([k \in DOMAIN values |-> to_string(values[k])])

Bracketed(value) == <<"[">> \o value \o <<"]">>

setArray(array) == Written(array)

\* Mutation: the outer brackets are left out.
setRows(matrix) == Joined([k \in DOMAIN matrix |-> Bracketed(Written(matrix[k]))])

setMatrix(matrix) == Bracketed(Joined([k \in DOMAIN matrix |-> Bracketed(Written(matrix[k]))]))

setMap(map) ==
    LET keys == SetToSeq(DOMAIN map) IN setMatrix([k \in DOMAIN keys |-> <<keys[k], map[keys[k]]>>])

setAs(kind, value) ==
    CASE kind = "array" -> setArray(value) [] kind = "matrix" -> setMatrix(value) [] kind = "map" -> setMap(value)

\* A value is read, and written as it was understood.
ReadAndWrite ==
    /\ chain.module = "Value"
    /\ Proceed("initialize", "done")
    /\ LET value == getAs(chain.kind, text)
       IN  text' = IF value.ok THEN setAs(chain.kind, value.is) ELSE text
    /\ UNCHANGED <<lines, section, reader, global_config, module_configs, detector_configs, detectors, instances>>

-----------------------------------------------------------------------------
(* Modules and detectors use their configurations *)

ConfigInit ==
    /\ lines \in IF chain.module = "Config" THEN Inputs ELSE {<<>>}
    /\ text \in IF chain.module = "Value" THEN Inputs ELSE {<<>>}
    /\ section = Conf("") /\ global_config = Conf("")
    /\ reader = <<>> /\ module_configs = <<>> /\ detector_configs = <<>> /\ detectors = <<>> /\ instances = <<>>

\* ModuleManager: a copy of the configuration of the section for the next instance
\* of a module.
addInstanceConfiguration(config, identifier) ==
    LET identified == setText(setText(config, "_global_dir", "."), "identifier", identifier)
        unique == IF identifier = "" THEN config.name ELSE config.name \o ":" \o identifier
    IN  applyOptions(unique, identified, chain.options)

\* The constructor of a module: aliases, defaults, and what it reads, if it is there;
\* then the manager adds the output directory.
Construct(config, uses) ==
    LET Alias(c, a) == setAlias(c, a.new, a.old)
        Default(c, d) == setDefault(c, d.key, d.value)
        Read(c, k) == IF has(c, k) THEN markUsed(c, k) ELSE c
    IN  setText(FoldLeft(Read, FoldLeft(Default, FoldLeft(Alias, config, uses.aliases), uses.defaults),
                         uses.reads \o <<"_global_dir">>),
                "_output_dir", ".")

\* The sections of the file in their order; a section that names an unknown module
\* ends the run.
NextInstances ==
    /\ chain.module = "Config" /\ at = "instances" /\ module_configs # <<>>
    /\ LET config == Head(module_configs)
       IN  IF config.name \notin DOMAIN chain.uses
           THEN at' = "aborted" /\ UNCHANGED instances
           ELSE LET uses == chain.uses[config.name]
                IN  /\ UNCHANGED at
                    /\ instances' = instances \o
                          [k \in DOMAIN uses.identifiers |->
                            Construct(addInstanceConfiguration(config, uses.identifiers[k]), uses)]
    /\ module_configs' = Tail(module_configs)
    /\ UNCHANGED <<setup, chain, event, lines, section, reader, global_config, detector_configs, detectors, text>>

\* ModuleManager::finalizeAll asks for the identifiers, and for the keys never used.
Report ==
    /\ chain.module = "Config" /\ module_configs = <<>>
    /\ Proceed("instances", "reported")
    /\ instances' = [k \in DOMAIN instances |-> markUsed(instances[k], "identifier")]
    /\ UNCHANGED <<lines, section, reader, global_config, module_configs, detector_configs, detectors, text>>

Axes == {"number_of_pixels", "pixel_pitch", "spatial_resolution", "roi", "mask_file"}

Value(config, key, default) == IF has(config, key) THEN config.values[key] ELSE default

\* Detector::factory and the constructors of the detectors: the value of each key, or
\* what is taken for it; or that there can be no such detector.
DetectorOf(config) ==
    LET roles == Value(config, "role", {"none"}) \ {"none"}
        auxiliary == "auxiliary" \in roles
        keys == DOMAIN chain.detector_defaults \ ({"role"} \cup IF auxiliary THEN Axes ELSE {})
        values == [key \in keys |-> Value(config, key, chain.detector_defaults[key])]
        pitch == Value(config, "pixel_pitch", "missing")
        resolution == IF ~auxiliary /\ ~has(config, "spatial_resolution")
                      THEN "spatial_resolution" :> (pitch \o "/sqrt(12)") ELSE <<>>
    IN  [name |-> config.name,
         refused |-> \/ \E only \in {"auxiliary", "passive"} : only \in roles /\ roles # {only}
                     \/ \E key \in keys : values[key] \in {"missing", "invalid"},
         values |-> ("role" :> roles) @@ resolution @@ values]

LoadDetectors ==
    /\ chain.module = "Config"
    /\ detectors' = [k \in DOMAIN detector_configs |-> DetectorOf(detector_configs[k])]
    /\ Proceed("detectors", IF \E k \in DOMAIN detectors' : detectors'[k].refused
                            THEN "aborted" ELSE "instances")
    /\ UNCHANGED <<lines, section, reader, global_config, module_configs, detector_configs, instances, text>>

\* What is as by default is not written, but for some keys.
getConfiguration(detector) ==
    LET always == {"type", "time_resolution", "position", "orientation_mode", "orientation"}
                    \cup {"number_of_pixels", "pixel_pitch", "spatial_resolution"}
        written == {key \in DOMAIN detector.values :
                        key \in always \/ detector.values[key] # chain.detector_defaults[key]}
    IN  [Conf(detector.name) EXCEPT !.values = [key \in written |-> detector.values[key]]]

\* finalizeAll writes the configurations of the detectors, for the next run.
WriteDetectors ==
    /\ chain.module = "Config"
    /\ Proceed("reported", "done")
    /\ detector_configs' = [k \in DOMAIN detectors |-> getConfiguration(detectors[k])]
    /\ UNCHANGED <<lines, section, reader, global_config, module_configs, detectors, instances, text>>

ConfigurationStep ==
    \/ ReadLine \/ BadLine \/ EndOfConfiguration \/ ConfigManager \/ LoadOptions
    \/ LoadDetectors \/ NextInstances \/ Report \/ WriteDetectors \/ ReadAndWrite
=============================================================================
