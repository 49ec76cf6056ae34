---------------------------- MODULE ModuleLoading ----------------------------
(***************************************************************************)
(* ModuleManager::load: the detectors of the detector file, then, section  *)
(* by section of the main file, the instances of the modules.  A section   *)
(* of a detector module asks for one instance per detector it selects,     *)
(* with a priority (0: by name, 1: by type, 2: for all detectors; a lower  *)
(* number wins).  Of the instances with one unique name the module manager *)
(* keeps one.                                                              *)
(*                                                                         *)
(* An instance is known by its number in `created`; the number stands for  *)
(* the Module object and for the Configuration object made for it.  The    *)
(* sections of the main file are chosen when they are read.                *)
(***************************************************************************)
EXTENDS Integers, Sequences, FiniteSets, SequencesExt

CONSTANTS
    DetectorFiles,  \* detector files: sequences of detector sections
    Sections,       \* the sections the main file may have
    Library,        \* what the library of a module says of it, by module
    MaxSections,    \* bound: sections of the main file
    Absent          \* the value of a key a section does not have

Roles == {"reference", "dut", "auxiliary", "passive"}

\* The identifier of an instance without detector; no detector has this name.
NoDetector == ""

DetectorSection ==
    [name : STRING, type : Nat, z : Int, roles : SUBSET Roles]

\* Configuration::parse_value refuses an empty element, so no list is empty.
Lists(S) == Seq(S) \ {<<>>}

\* names and types are lists, or Absent; types are numbered in
\* alphabetical order.
ModuleSection ==
    [module : STRING, names : {Absent} \cup Lists(STRING),
     types : {Absent} \cup Lists(Nat)]

LibraryEntry ==
    [global : BOOLEAN, dut : BOOLEAN, aux : BOOLEAN, types : Seq(Nat)]

ASSUME LoadingAssumption ==
    /\ \A f \in DetectorFiles : f \in Seq(DetectorSection)
    /\ \A f \in DetectorFiles : \A i \in DOMAIN f : f[i].name # NoDetector
    /\ \A s \in Sections : s \in ModuleSection
    /\ \A module \in DOMAIN Library : Library[module] \in LibraryEntry
    /\ MaxSections \in Nat

VARIABLES
    pc,                 \* "detectors", "modules", "loaded" or "failed"
    error,              \* the exception that ended the loading
    file,               \* the detector sections not read yet
    m_detectors,        \* the detectors
    m_reference,        \* the reference detector
    configs,            \* the sections of the main file read so far
    pending,            \* the instances of the last one not created yet
    mod_list,           \* its created instances not merged yet
    created,            \* every instance created, in order
    m_modules,          \* the run list
    id_to_module,       \* the kept instance of a unique name, its priority
    instance_configs,   \* the list of instance configurations
    name_to_config      \* the entry of a unique name in that list

detectorVars == <<file, m_detectors, m_reference>>
listVars == <<m_modules, id_to_module>>
configVars == <<instance_configs, name_to_config>>
vars == <<pc, error, detectorVars, configs, pending, mod_list, created,
          listVars, configVars>>

Numbers == 1..Len(created)

Init ==
    /\ pc = "detectors"
    /\ error = "none"
    /\ file \in DetectorFiles
    /\ m_detectors = <<>>
    /\ m_reference = NoDetector
    /\ configs = <<>>
    /\ pending = <<>>
    /\ mod_list = <<>>
    /\ created = <<>>
    /\ m_modules = <<>>
    /\ id_to_module = [u \in {} |-> u]
    /\ instance_configs = <<>>
    /\ name_to_config = [u \in {} |-> u]

Throw(what) ==
    /\ pc' = "failed"
    /\ error' = what

-----------------------------------------------------------------------------
(* load_detectors *)

HasDetector(name) == \E i \in DOMAIN m_detectors : m_detectors[i].name = name

\* Detector::Detector: auxiliary and passive detectors have no other role.
RolesAllowed(roles) ==
    \A only \in {"auxiliary", "passive"} : only \in roles => roles = {only}

DetectorTwice ==
    /\ pc = "detectors"
    /\ file # <<>>
    /\ HasDetector(Head(file).name)
    /\ Throw("detector defined twice")
    /\ UNCHANGED <<detectorVars, configs, pending, mod_list, created, listVars,
                   configVars>>

DetectorRefused ==
    /\ pc = "detectors"
    /\ file # <<>>
    /\ ~HasDetector(Head(file).name)
    /\ ~RolesAllowed(Head(file).roles)
    /\ Throw("roles")
    /\ UNCHANGED <<detectorVars, configs, pending, mod_list, created, listVars,
                   configVars>>

SecondReference ==
    /\ m_reference # NoDetector
    /\ "reference" \in Head(file).roles

AddDetector ==
    /\ pc = "detectors"
    /\ file # <<>>
    /\ ~HasDetector(Head(file).name)
    /\ RolesAllowed(Head(file).roles)
    /\ IF SecondReference
       THEN /\ Throw("more than one reference")
            /\ UNCHANGED detectorVars
       ELSE /\ m_reference' = IF "reference" \in Head(file).roles
                              THEN Head(file).name
                              ELSE m_reference
            /\ m_detectors' = Append(m_detectors, Head(file))
            /\ file' = Tail(file)
            /\ UNCHANGED <<pc, error>>
    /\ UNCHANGED <<configs, pending, mod_list, created, listVars, configVars>>

\* std::sort by z: equal keys may end in any order.
SortedByZ(s) == \A i, j \in DOMAIN s : i < j => s[i].z <= s[j].z

DetectorsLoaded ==
    /\ pc = "detectors"
    /\ file = <<>>
    /\ IF m_reference = NoDetector
       THEN /\ Throw("no reference")
            /\ UNCHANGED m_detectors
       ELSE /\ pc' = "modules"
            /\ error' = error
            /\ \E p \in Bijection(DOMAIN m_detectors, DOMAIN m_detectors) :
                   m_detectors' = [i \in DOMAIN m_detectors |->
                                       m_detectors[p[i]]]
            /\ SortedByZ(m_detectors')
    /\ UNCHANGED <<file, m_reference, configs, pending, mod_list, created,
                   listVars, configVars>>

-----------------------------------------------------------------------------
(* load_modules: the instances a section asks for *)

Instance(module, detector, prio) ==
    [unique |-> <<module, detector>>, prio |-> prio]

\* A loop that passes over the elements of s that are not in S.
Kept(s, S) ==
    LET kept[i \in 0..Len(s)] ==
            IF i = 0 THEN <<>>
            ELSE IF s[i] \in S THEN Append(kept[i - 1], s[i]) ELSE kept[i - 1]
    IN kept[Len(s)]

DetectorNames == {d.name : d \in Range(m_detectors)}

GetDetector(name) ==
    CHOOSE d \in Range(m_detectors) : d.name = name

\* std::set_intersection walks both lists once and expects them sorted.
Intersects(a, b) ==
    LET walk[i \in 1..Len(a) + 1, j \in 1..Len(b) + 1] ==
            /\ i <= Len(a)
            /\ j <= Len(b)
            /\ \/ a[i] = b[j]
               \/ a[i] < b[j] /\ walk[i + 1, j]
               \/ b[j] < a[i] /\ walk[i, j + 1]
    IN walk[1, 1]

TypeConflict(s) ==
    /\ s.types # Absent
    /\ Library[s.module].types # <<>>
    /\ ~Intersects(s.types, Library[s.module].types)

\* Mutation: the first unknown name ends the list.
NamedDetectorsBreak(s) ==
    IF s.names = Absent
    THEN <<>>
    ELSE LET known == {n \in 0..Len(s.names) :
                          \A i \in 1..n : HasDetector(s.names[i])}
         IN SubSeq(s.names, 1, CHOOSE n \in known : \A k \in known : k <= n)

\* The detectors of a "name" list, those that exist.
NamedDetectors(s) ==
    IF s.names = Absent THEN <<>> ELSE Kept(s.names, DetectorNames)

\* A detector is listed once for every time its type is.
TypedDetectors(s) ==
    IF s.types = Absent
    THEN <<>>
    ELSE FlattenSeq([i \in DOMAIN m_detectors |->
             IF \/ "passive" \in m_detectors[i].roles
                \/ m_detectors[i].name \in Range(NamedDetectors(s))
             THEN <<>>
             ELSE LET hits == Kept(s.types, {m_detectors[i].type})
                  IN [j \in DOMAIN hits |-> m_detectors[i].name]])

\* instances_created: the type list, when there is one, has the last word.
NoneSelected(s) ==
    IF s.types # Absent THEN s.types = <<>>
                        ELSE s.names \in {Absent, <<>>}

AllDetectors(s) ==
    IF NoneSelected(s)
    THEN [i \in DOMAIN m_detectors |-> m_detectors[i].name]
    ELSE <<>>

\* Is the module built for the detector at all?
Supports(library, d) ==
    /\ library.dut => "dut" \in d.roles
    /\ library.aux => "auxiliary" \notin d.roles
    /\ library.types # <<>> => d.type \in Range(library.types)

Instantiations(s) ==
    LET supported == {name \in DetectorNames :
                         Supports(Library[s.module], GetDetector(name))}
        instances(names, prio) ==
            LET list == Kept(names, supported)
            IN [i \in DOMAIN list |-> Instance(s.module, list[i], prio)]
    IN    instances(NamedDetectors(s), 0)
       \o instances(TypedDetectors(s), 1)
       \o instances(AllDetectors(s), 2)

SectionDone == pending = <<>> /\ mod_list = <<>>

\* dlopen, and the name and type keys a unique module must not have.
SectionRefused ==
    /\ pc = "modules"
    /\ SectionDone
    /\ Len(configs) < MaxSections
    /\ \E s \in Sections :
           /\ configs' = Append(configs, s)
           /\ \/ /\ s.module \notin DOMAIN Library
                 /\ Throw("library")
              \/ /\ s.module \in DOMAIN Library
                 /\ Library[s.module].global
                 /\ s.names # Absent \/ s.types # Absent
                 /\ Throw("unique module specialized")
              \/ /\ s.module \in DOMAIN Library
                 /\ ~Library[s.module].global
                 /\ TypeConflict(s)
                 /\ Throw("type conflict")
    /\ UNCHANGED <<detectorVars, pending, mod_list, created, listVars,
                   configVars>>

UniqueSection ==
    /\ pc = "modules"
    /\ SectionDone
    /\ Len(configs) < MaxSections
    /\ \E s \in Sections :
           /\ s.module \in DOMAIN Library
           /\ Library[s.module].global
           /\ s.names = Absent /\ s.types = Absent
           /\ configs' = Append(configs, s)
           /\ pending' = <<Instance(s.module, NoDetector, 0)>>
    /\ UNCHANGED <<pc, error, detectorVars, mod_list, created, listVars,
                   configVars>>

DetectorModuleSection ==
    /\ pc = "modules"
    /\ SectionDone
    /\ Len(configs) < MaxSections
    /\ \E s \in Sections :
           /\ s.module \in DOMAIN Library
           /\ ~Library[s.module].global
           /\ ~TypeConflict(s)
           /\ configs' = Append(configs, s)
           /\ pending' = Instantiations(s)
    /\ UNCHANGED <<pc, error, detectorVars, mod_list, created, listVars,
                   configVars>>

EndOfFile ==
    /\ pc = "modules"
    /\ SectionDone
    /\ pc' = "loaded"
    /\ UNCHANGED <<error, detectorVars, configs, pending, mod_list, created,
                   listVars, configVars>>

-----------------------------------------------------------------------------
(* create_unique_module, create_detector_modules: one instance *)

\* ConfigManager::addInstanceConfiguration: the configuration of instance
\* number n takes the place of the one with the same unique name.
AddInstanceConfiguration(u, n) ==
    /\ instance_configs' =
           Append(SelectSeq(instance_configs,
                      LAMBDA c : u \in DOMAIN name_to_config
                                     => c # name_to_config[u]), n)
    /\ name_to_config' = [v \in DOMAIN name_to_config \cup {u} |->
                              IF v = u THEN n ELSE name_to_config[v]]

CreateInstance ==
    /\ pc = "modules"
    /\ pending # <<>>
    /\ LET u == Head(pending).unique IN
           /\ AddInstanceConfiguration(u, Len(created) + 1)
           /\ created' = Append(created, [unique |-> u,
                                          prio |-> Head(pending).prio,
                                          section |-> Len(configs)])
    /\ pending' = Tail(pending)
    /\ mod_list' = Append(mod_list, Len(created) + 1)
    /\ UNCHANGED <<pc, error, detectorVars, configs, listVars>>

\* The constructor of the module throws.
InstanceThrows ==
    /\ pc = "modules"
    /\ pending # <<>>
    /\ AddInstanceConfiguration(Head(pending).unique, Len(created) + 1)
    /\ created' = Append(created, [unique |-> Head(pending).unique,
                                   prio |-> Head(pending).prio,
                                   section |-> Len(configs)])
    /\ Throw("constructor")
    /\ UNCHANGED <<detectorVars, configs, pending, mod_list, listVars>>

-----------------------------------------------------------------------------
(* load_modules: the loop over the created instances *)

Merging ==
    /\ pc = "modules"
    /\ pending = <<>>
    /\ mod_list # <<>>

New == created[Head(mod_list)]

AddModule(modules, ids, n) ==
    /\ m_modules' = Append(modules, n)
    /\ id_to_module' =
           [v \in DOMAIN ids \cup {created[n].unique} |->
                IF v \in DOMAIN ids
                THEN [ids[v] EXCEPT !.mod = IF v = created[n].unique
                                            THEN n ELSE @]
                ELSE [prio |-> created[n].prio, mod |-> n]]

MergeNew ==
    /\ Merging
    /\ New.unique \notin DOMAIN id_to_module
    /\ AddModule(m_modules, id_to_module, Head(mod_list))
    /\ mod_list' = Tail(mod_list)
    /\ UNCHANGED <<pc, error, detectorVars, configs, pending, created,
                   configVars>>

\* Mutation: the map entry is not erased; operator[] keeps its old key.
MergeReplaceOldKey ==
    /\ Merging
    /\ New.unique \in DOMAIN id_to_module
    /\ New.prio < id_to_module[New.unique].prio
    /\ AddModule(Kept(m_modules, Numbers \ {id_to_module[New.unique].mod}),
                 id_to_module, Head(mod_list))
    /\ mod_list' = Tail(mod_list)
    /\ UNCHANGED <<pc, error, detectorVars, configs, pending, created,
                   configVars>>

\* Mutation: the new instance takes the place of the old one in the list.
MergeReplaceInPlace ==
    /\ Merging
    /\ New.unique \in DOMAIN id_to_module
    /\ New.prio < id_to_module[New.unique].prio
    /\ m_modules' = [i \in DOMAIN m_modules |->
                        IF m_modules[i] = id_to_module[New.unique].mod
                        THEN Head(mod_list) ELSE m_modules[i]]
    /\ id_to_module' = [id_to_module EXCEPT ![New.unique] =
                            [prio |-> New.prio, mod |-> Head(mod_list)]]
    /\ mod_list' = Tail(mod_list)
    /\ UNCHANGED <<pc, error, detectorVars, configs, pending, created,
                   configVars>>

\* Erase the entry and the instance it refers to, then add the new one.
MergeReplace ==
    /\ Merging
    /\ New.unique \in DOMAIN id_to_module
    /\ New.prio < id_to_module[New.unique].prio
    /\ AddModule(Kept(m_modules, Numbers \ {id_to_module[New.unique].mod}),
                 [v \in DOMAIN id_to_module \ {New.unique} |->
                     id_to_module[v]],
                 Head(mod_list))
    /\ mod_list' = Tail(mod_list)
    /\ UNCHANGED <<pc, error, detectorVars, configs, pending, created,
                   configVars>>

MergeTie ==
    /\ Merging
    /\ New.unique \in DOMAIN id_to_module
    /\ New.prio = id_to_module[New.unique].prio
    /\ Throw("ambiguous instantiation")
    /\ UNCHANGED <<detectorVars, configs, pending, mod_list, created, listVars,
                   configVars>>

\* The new instance is dropped.
MergeLower ==
    /\ Merging
    /\ New.unique \in DOMAIN id_to_module
    /\ New.prio > id_to_module[New.unique].prio
    /\ mod_list' = Tail(mod_list)
    /\ UNCHANGED <<pc, error, detectorVars, configs, pending, created, listVars,
                   configVars>>

-----------------------------------------------------------------------------
Next ==
    \/ DetectorTwice \/ DetectorRefused \/ AddDetector \/ DetectorsLoaded
    \/ SectionRefused \/ UniqueSection \/ DetectorModuleSection \/ EndOfFile
    \/ CreateInstance \/ InstanceThrows
    \/ MergeNew \/ MergeReplace \/ MergeTie \/ MergeLower

Spec == Init /\ [][Next]_vars

-----------------------------------------------------------------------------
(* Properties *)

\* While loading goes on, every instance merged so far is in the run list, or
\* an instance of the same name and a strictly higher priority is: the section
\* order never decides, and a tie with the kept instance is an error.
HighestPriorityKept ==
    pc # "failed" =>
        \A c \in Numbers \ Range(mod_list) :
            \E n \in Range(m_modules) :
                /\ created[n].unique = created[c].unique
                /\ n = c \/ created[n].prio < created[c].prio

\* Modules run in the order of the sections that made them, also after
\* replacements.
OrderFollowsSections ==
    \A i, j \in DOMAIN m_modules :
        i < j => created[m_modules[i]].section <= created[m_modules[j]].section

\* What a section asks for, said without the loops.
Asked(s) ==
    {<<s.module, d.name>> : d \in
        {d \in Range(m_detectors) :
            /\ Supports(Library[s.module], d)
            /\ \/ s.names # Absent /\ d.name \in Range(s.names)
               \/ /\ s.types # Absent
                  /\ d.type \in Range(s.types)
                  /\ "passive" \notin d.roles
               \/ s.names = Absent /\ s.types = Absent}}

\* When loading ends, the run list serves what the sections ask for, and
\* nothing else: every detector each section selects, every unique module.
EveryDetectorServed ==
    pc = "loaded" =>
        {created[n].unique : n \in Range(m_modules)}
            = UNION {IF Library[s.module].global
                     THEN {<<s.module, NoDetector>>}
                     ELSE Asked(s) : s \in Range(configs)}

\* A module that is run has the configuration it was built with: the list
\* element its config_ refers to has not been erased.
ConfigAlive ==
    pc = "loaded" => Range(m_modules) \subseteq Range(instance_configs)
=============================================================================
