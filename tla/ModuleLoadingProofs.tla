------------------------- MODULE ModuleLoadingProofs -------------------------
(***************************************************************************)
(* Theorems about ModuleLoading: what the module manager keeps of the      *)
(* instances that the sections ask for, for every detector file, every     *)
(* main file and every library of modules.                                 *)
(***************************************************************************)
EXTENDS ModuleLoading, LoopTheorems

-----------------------------------------------------------------------------
(* The loops of the module manager *)

\* Range gives the elements of a sequence.
LEMMA HasInRange ==
    ASSUME NEW T, NEW v \in Seq(T)
    PROVE  \A x : x \in Range(v) <=> Has(v, x)
BY LenProperties DEF Range, Has

\* Kept leaves the elements that are in S, in their order.
LEMMA KeptPicked == \A s, S : Kept(s, S) = Picked(s, S)
BY DEF Kept, Picked

\* Kept has those and only those elements of s that are in S, in their order.
LEMMA KeptProperties ==
    ASSUME NEW T, NEW s \in Seq(T), NEW S
    PROVE  /\ Kept(s, S) \in Seq(T)
           /\ \A i \in 1..Len(Kept(s, S)) : \E p \in 1..Len(s) :
                  Kept(s, S)[i] = s[p] /\ s[p] \in S
           /\ \A p \in 1..Len(s) : s[p] \in S =>
                  \E i \in 1..Len(Kept(s, S)) : Kept(s, S)[i] = s[p]
           /\ \A i, j \in 1..Len(Kept(s, S)) : i < j =>
                  \E p, q \in 1..Len(s) :
                      p < q /\ Kept(s, S)[i] = s[p] /\ Kept(s, S)[j] = s[q]
<1> DEFINE k == Picked(s, S)
<1>1. /\ k \in Seq(T)
      /\ \A i \in 1..Len(k) : \E p \in 1..Len(s) : k[i] = s[p] /\ s[p] \in S
      /\ \A p \in 1..Len(s) : s[p] \in S => \E i \in 1..Len(k) : k[i] = s[p]
      /\ \A i, j \in 1..Len(k) : i < j =>
            \E p, q \in 1..Len(s) : p < q /\ k[i] = s[p] /\ k[j] = s[q]
  BY PickedProperties
<1> DEFINE kept == Kept(s, S)
<1>2. kept = k
  BY KeptPicked
<1> HIDE DEF k, kept
<1>3. kept \in Seq(T) /\ \A i \in 1..Len(kept) : \E p \in 1..Len(s) : kept[i] = s[p] /\ s[p] \in S
  BY <1>1, <1>2
<1>4. \A p \in 1..Len(s) : s[p] \in S => \E i \in 1..Len(kept) : kept[i] = s[p]
  BY <1>1, <1>2
<1>5. \A i, j \in 1..Len(kept) : i < j =>
            \E p, q \in 1..Len(s) : p < q /\ kept[i] = s[p] /\ kept[j] = s[q]
  BY <1>1, <1>2
<1> QED
  BY <1>3, <1>4, <1>5 DEF kept

\* The same, of what a sequence has.
LEMMA KeptHas ==
    ASSUME NEW T, NEW v \in Seq(T), NEW S
    PROVE  /\ Kept(v, S) \in Seq(T)
           /\ \A x : Has(Kept(v, S), x) <=> Has(v, x) /\ x \in S
BY KeptPicked, PickedHas

-----------------------------------------------------------------------------
(* The instances of a section *)

UniqueName == STRING \X (STRING \cup {NoDetector})

InstanceRecord == [unique : UniqueName, prio : Int]

\* Detectors are known by their names: load_detectors refuses a second one.
DetectorsDistinct ==
    \A i, j \in DOMAIN m_detectors :
        m_detectors[i].name = m_detectors[j].name => i = j

DetectorsOK == m_detectors \in Seq(DetectorSection) /\ DetectorsDistinct

\* get_detector finds every detector by its name.
LEMMA DetectorByName ==
    ASSUME DetectorsOK
    PROVE  /\ DetectorNames \subseteq STRING
           /\ \A d \in Range(m_detectors) : GetDetector(d.name) = d /\ d.name \in DetectorNames
           /\ \A i \in DOMAIN m_detectors :
                  m_detectors[i].name \in STRING /\ m_detectors[i] \in Range(m_detectors)
           /\ DOMAIN m_detectors = 1..Len(m_detectors) /\ Len(m_detectors) \in Nat
<1>1. DOMAIN m_detectors = 1..Len(m_detectors) /\ Len(m_detectors) \in Nat
  BY LenProperties DEF DetectorsOK
<1>2. \A i \in DOMAIN m_detectors : m_detectors[i] \in DetectorSection
  BY <1>1, ElementOfSeq DEF DetectorsOK
<1>3. \A i \in DOMAIN m_detectors :
          m_detectors[i].name \in STRING /\ m_detectors[i] \in Range(m_detectors)
  BY <1>2 DEF DetectorSection, Range
<1>4. \A d \in Range(m_detectors) : d.name \in STRING /\ d.name \in DetectorNames
  BY <1>3 DEF Range, DetectorNames
<1>5. \A c, d \in Range(m_detectors) : c.name = d.name => c = d
  BY DEF Range, DetectorsOK, DetectorsDistinct
<1>6. \A d \in Range(m_detectors) : GetDetector(d.name) = d
  BY <1>5 DEF GetDetector
<1> QED
  BY <1>1, <1>3, <1>4, <1>6 DEF DetectorNames

\* The three lists of names that create_detector_modules makes.
LEMMA NamedNames ==
    ASSUME DetectorsOK, NEW s \in ModuleSection
    PROVE  /\ NamedDetectors(s) \in Seq(STRING)
           /\ \A x : Has(NamedDetectors(s), x)
                        <=> s.names # Absent /\ x \in Range(s.names) /\ x \in DetectorNames
<1>1. CASE s.names = Absent
  BY <1>1, EmptySeq DEF NamedDetectors, Has
<1>2. CASE s.names # Absent
  <2>1. s.names \in Seq(STRING)
    BY <1>2 DEF ModuleSection, Lists
  <2>2. NamedDetectors(s) = Kept(s.names, DetectorNames)
    BY <1>2 DEF NamedDetectors
  <2> QED
    BY <1>2, <2>1, <2>2, HasInRange, KeptHas
<1> QED
  BY <1>1, <1>2

\* By type: detectors that are not passive, nor selected by name.
LEMMA TypedNames ==
    ASSUME DetectorsOK, NEW s \in ModuleSection
    PROVE  /\ TypedDetectors(s) \in Seq(STRING)
           /\ \A x : Has(TypedDetectors(s), x)
                  <=> /\ s.types # Absent
                      /\ ~Has(NamedDetectors(s), x)
                      /\ \E d \in Range(m_detectors) :
                             d.name = x /\ "passive" \notin d.roles /\ d.type \in Range(s.types)
<1>1. CASE s.types = Absent
  BY <1>1, EmptySeq DEF TypedDetectors, Has
<1>2. CASE s.types # Absent
  <2> DEFINE Skip(i) == \/ "passive" \in m_detectors[i].roles
                        \/ m_detectors[i].name \in Range(NamedDetectors(s))
             hits(i) == Kept(s.types, {m_detectors[i].type})
             list(i) == IF Skip(i) THEN <<>>
                        ELSE [j \in DOMAIN hits(i) |-> m_detectors[i].name]
             seqs == [i \in DOMAIN m_detectors |-> list(i)]
  <2>1. TypedDetectors(s) = FlattenSeq(seqs)
    BY <1>2 DEF TypedDetectors
  <2>2. s.types \in Seq(Nat)
    BY <1>2 DEF ModuleSection, Lists
  <2>3. \A x : x \in Range(s.types) <=> Has(s.types, x)
    BY <2>2, HasInRange
  <2>4. \A x : x \in Range(NamedDetectors(s)) <=> Has(NamedDetectors(s), x)
    BY NamedNames, HasInRange
  <2>5. ASSUME NEW i \in 1..Len(m_detectors)
        PROVE  /\ list(i) \in Seq(STRING)
               /\ \A x : Has(list(i), x) <=> /\ ~Skip(i)
                                             /\ m_detectors[i].name = x
                                             /\ m_detectors[i].type \in Range(s.types)
    <3>1. CASE Skip(i)
      <4>1. list(i) = <<>>
        BY <3>1
      <4> HIDE DEF list
      <4> QED
        BY <3>1, <4>1, EmptySeq DEF Has
    <3>2. CASE ~Skip(i)
      <4> DEFINE h == hits(i)
                 name == m_detectors[i].name
                 type == m_detectors[i].type
      <4>1. h \in Seq(Nat) /\ \A x : Has(h, x) <=> Has(s.types, x) /\ x = type
        BY <2>2, KeptHas
      <4>3. DOMAIN h = 1..Len(h) /\ Len(h) \in Nat
        BY <4>1, LenProperties
      <4>4. name \in STRING
        BY DetectorByName
      <4>5. list(i) = [j \in 1..Len(h) |-> name]
        BY <3>2, <4>3
      <4> HIDE DEF h, name, type
      <4>2. (\E j \in 1..Len(h) : TRUE) <=> type \in Range(s.types)
        BY <2>3, <4>1 DEF Has
      <4>6. list(i) \in Seq(STRING) /\ Len(list(i)) = Len(h)
        <5> DEFINE n == Len(h)
        <5>1. n \in Nat /\ list(i) = [j \in 1..n |-> name]
          BY <4>3, <4>5
        <5> HIDE DEF list, n
        <5>2. [j \in 1..n |-> name] \in Seq(STRING) /\ Len([j \in 1..n |-> name]) = n
          BY <4>4, <5>1, SameElements
        <5> QED
          BY <5>1, <5>2 DEF n
      <4>7. \A x : Has(list(i), x) <=> name = x /\ \E j \in 1..Len(h) : TRUE
        <5> HIDE DEF list
        <5> QED
          BY <4>5, <4>6 DEF Has
      <4> QED
        BY <3>2, <4>2, <4>6, <4>7 DEF name, type
    <3> QED
      BY <3>1, <3>2
  <2> HIDE DEF list
  <2>6. seqs \in Seq(Seq(STRING)) /\ Len(seqs) = Len(m_detectors)
    BY <2>5, DetectorByName
  <2>7. /\ TypedDetectors(s) \in Seq(STRING)
        /\ \A x : Has(TypedDetectors(s), x) <=> \E i \in 1..Len(seqs) : Has(seqs[i], x)
    <3> HIDE DEF seqs
    <3> QED
      BY <2>1, <2>6, FlattenProperties
  <2>8. \A i \in 1..Len(seqs) : seqs[i] = list(i)
    BY <2>6, DetectorByName
  <2>9. ASSUME NEW x
        PROVE  Has(TypedDetectors(s), x)
                 <=> \E i \in 1..Len(m_detectors) : /\ ~Skip(i)
                                                    /\ m_detectors[i].name = x
                                                    /\ m_detectors[i].type \in Range(s.types)
    <3> DEFINE chosen(i) == /\ ~Skip(i)
                            /\ m_detectors[i].name = x
                            /\ m_detectors[i].type \in Range(s.types)
    <3>1. \A i \in 1..Len(m_detectors) : Has(seqs[i], x) <=> chosen(i)
      BY <2>5, <2>6, <2>8
    <3>2. Has(TypedDetectors(s), x) <=> \E i \in 1..Len(m_detectors) : Has(seqs[i], x)
      BY <2>6, <2>7
    <3> QED
      BY <3>1, <3>2
  <2>10. ASSUME NEW x
         PROVE  Has(TypedDetectors(s), x)
                  <=> /\ ~Has(NamedDetectors(s), x)
                      /\ \E d \in Range(m_detectors) :
                            d.name = x /\ "passive" \notin d.roles /\ d.type \in Range(s.types)
    BY <2>4, <2>9, DetectorByName DEF Range
  <2> QED
    BY <1>2, <2>7, <2>10
<1> QED
  BY <1>1, <1>2

\* All detectors, if the section has neither key.
LEMMA AllNames ==
    ASSUME DetectorsOK, NEW s \in ModuleSection
    PROVE  /\ AllDetectors(s) \in Seq(STRING)
           /\ \A x : Has(AllDetectors(s), x)
                  <=> s.names = Absent /\ s.types = Absent /\ x \in DetectorNames
<1>1. NoneSelected(s) <=> s.names = Absent /\ s.types = Absent
  BY DEF NoneSelected, ModuleSection, Lists
<1>2. CASE ~NoneSelected(s)
  BY <1>1, <1>2, EmptySeq DEF AllDetectors, Has
<1>3. CASE NoneSelected(s)
  <2> DEFINE list == [i \in 1..Len(m_detectors) |-> m_detectors[i].name]
  <2>1. AllDetectors(s) = list
    BY <1>3, DetectorByName DEF AllDetectors
  <2>2. list \in Seq(STRING) /\ Len(list) = Len(m_detectors)
    BY DetectorByName
  <2>3. \A x : Has(list, x) <=> x \in DetectorNames
    BY <2>2, DetectorByName DEF Has, DetectorNames, Range
  <2> QED
    BY <1>1, <1>3, <2>1, <2>2, <2>3
<1> QED
  BY <1>2, <1>3

\* The instances made for a list of names.
SupportedNames(s) ==
    {name \in DetectorNames : Supports(Library[s.module], GetDetector(name))}

InstancesOf(s, names, prio) ==
    [i \in DOMAIN Kept(names, SupportedNames(s)) |->
        Instance(s.module, Kept(names, SupportedNames(s))[i], prio)]

Uniques(list) == {list[i].unique : i \in 1..Len(list)}

\* The unique names of a list of instances.
LEMMA UniqueOf ==
    ASSUME NEW list, NEW u
    PROVE  u \in Uniques(list) <=> \E x : Has(list, x) /\ x.unique = u
BY DEF Uniques, Has

\* The instances made for a list of names are those of the supported ones.
LEMMA InstancesOfNames ==
    ASSUME NEW s \in ModuleSection, NEW names \in Seq(STRING), NEW prio \in Int
    PROVE  /\ InstancesOf(s, names, prio) \in Seq(InstanceRecord)
           /\ Uniques(InstancesOf(s, names, prio)) =
                  {<<s.module, x>> : x \in {y \in SupportedNames(s) : Has(names, y)}}
<1> DEFINE list == Kept(names, SupportedNames(s))
           made == [i \in 1..Len(list) |-> Instance(s.module, list[i], prio)]
<1>1. list \in Seq(STRING)
  BY KeptHas
<1>2. \A x : Has(list, x) <=> x \in SupportedNames(s) /\ Has(names, x)
  BY KeptHas
<1> HIDE DEF list
<1>3. DOMAIN list = 1..Len(list) /\ Len(list) \in Nat /\ \A i \in 1..Len(list) : list[i] \in STRING
  BY <1>1, LenProperties, ElementOfSeq
<1>4. InstancesOf(s, names, prio) = made
  BY <1>3 DEF InstancesOf, list
<1>5. \A i \in 1..Len(list) : /\ Instance(s.module, list[i], prio) \in InstanceRecord
                              /\ Instance(s.module, list[i], prio).unique = <<s.module, list[i]>>
  BY <1>3 DEF Instance, InstanceRecord, UniqueName, ModuleSection
<1>6. made \in Seq(InstanceRecord) /\ Len(made) = Len(list)
  BY <1>3, <1>5
<1>7. Uniques(made) = {<<s.module, x>> : x \in {y \in SupportedNames(s) : Has(names, y)}}
  <2>1. Uniques(made) = {<<s.module, list[i]>> : i \in 1..Len(list)}
    BY <1>5, <1>6 DEF Uniques
  <2> HIDE DEF made
  <2> QED
    BY <1>2, <2>1 DEF Has
<1> QED
  BY <1>4, <1>6, <1>7

\* The loops of create_detector_modules make what the section asks for.
LEMMA InstancesAsked ==
    ASSUME DetectorsOK, NEW s \in ModuleSection
    PROVE  /\ Instantiations(s) \in Seq(InstanceRecord)
           /\ Uniques(Instantiations(s)) = Asked(s)
<1> DEFINE a == InstancesOf(s, NamedDetectors(s), 0)
           b == InstancesOf(s, TypedDetectors(s), 1)
           c == InstancesOf(s, AllDetectors(s), 2)
           Names(list) == {<<s.module, x>> : x \in {y \in SupportedNames(s) : Has(list, y)}}
<1>1. Instantiations(s) = a \o b \o c
  BY DEF Instantiations, InstancesOf, SupportedNames
<1>2. /\ a \in Seq(InstanceRecord) /\ Uniques(a) = Names(NamedDetectors(s))
      /\ b \in Seq(InstanceRecord) /\ Uniques(b) = Names(TypedDetectors(s))
      /\ c \in Seq(InstanceRecord) /\ Uniques(c) = Names(AllDetectors(s))
  BY NamedNames, TypedNames, AllNames, InstancesOfNames
<1> HIDE DEF a, b, c
<1>3. /\ a \o b \o c \in Seq(InstanceRecord)
      /\ \A x : Has(a \o b \o c, x) <=> Has(a, x) \/ Has(b, x) \/ Has(c, x)
  <2>1. /\ a \o b \in Seq(InstanceRecord)
        /\ \A x : Has(a \o b, x) <=> Has(a, x) \/ Has(b, x)
    BY <1>2, ConcatHas, Zenon
  <2>2. /\ (a \o b) \o c \in Seq(InstanceRecord)
        /\ \A x : Has((a \o b) \o c, x) <=> Has(a \o b, x) \/ Has(c, x)
    BY <1>2, <2>1, ConcatHas, Zenon
  <2> QED
    BY <2>1, <2>2
<1>5. Uniques(Instantiations(s)) = Uniques(a) \cup Uniques(b) \cup Uniques(c)
  <2> DEFINE all == a \o b \o c
  <2>1. \A x : Has(all, x) <=> Has(a, x) \/ Has(b, x) \/ Has(c, x)
    BY <1>3
  <2> HIDE DEF all
  <2>2. ASSUME NEW u
        PROVE  u \in Uniques(all) <=> u \in Uniques(a) \/ u \in Uniques(b) \/ u \in Uniques(c)
    BY <2>1, UniqueOf
  <2> QED
    BY <1>1, <2>2 DEF all
<1>6. \A y \in DetectorNames :
          Has(NamedDetectors(s), y) \/ Has(TypedDetectors(s), y) \/ Has(AllDetectors(s), y)
            <=> \/ s.names # Absent /\ y \in Range(s.names)
                \/ /\ s.types # Absent
                   /\ GetDetector(y).type \in Range(s.types)
                   /\ "passive" \notin GetDetector(y).roles
                \/ s.names = Absent /\ s.types = Absent
  <2>1. \A y \in DetectorNames : \A d \in Range(m_detectors) : d.name = y => d = GetDetector(y)
    BY DetectorByName
  <2>2. \A y \in DetectorNames : GetDetector(y) \in Range(m_detectors) /\ GetDetector(y).name = y
    BY DetectorByName DEF DetectorNames
  <2> QED
    BY <2>1, <2>2, NamedNames, TypedNames, AllNames
<1>7. Uniques(a) \cup Uniques(b) \cup Uniques(c) = Asked(s)
  <2>1. Uniques(a) \cup Uniques(b) \cup Uniques(c)
          = {<<s.module, x>> : x \in {y \in SupportedNames(s) :
                Has(NamedDetectors(s), y) \/ Has(TypedDetectors(s), y) \/ Has(AllDetectors(s), y)}}
    BY <1>2
  <2>2. \A d \in Range(m_detectors) : GetDetector(d.name) = d /\ d.name \in DetectorNames
    BY DetectorByName
  <2>3. \A y \in DetectorNames : \E d \in Range(m_detectors) : d.name = y
    BY DEF DetectorNames
  <2> QED
    BY <1>6, <2>1, <2>2, <2>3 DEF Asked, SupportedNames
<1> QED
  BY <1>1, <1>3, <1>5, <1>7

-----------------------------------------------------------------------------
(* The inductive invariant *)

CreatedRecord == [unique : UniqueName, prio : Int, section : Nat]

TypeOK ==
    /\ pc \in {"detectors", "modules", "loaded", "failed"}
    /\ file \in Seq(DetectorSection)
    /\ m_detectors \in Seq(DetectorSection)
    /\ configs \in Seq(Sections)
    /\ pending \in Seq(InstanceRecord)
    /\ mod_list \in Seq(Numbers)
    /\ created \in Seq(CreatedRecord)
    /\ m_modules \in Seq(Numbers)
    /\ \A u \in DOMAIN id_to_module : id_to_module[u] \in [prio : Int, mod : Numbers]

\* The instances that have been merged are the first ones.
Merged == Len(created) - Len(mod_list)

MergedInv ==
    pc # "failed" =>
        /\ Len(mod_list) <= Len(created)
        /\ \A i \in 1..Len(mod_list) : mod_list[i] = Merged + i
        /\ \A i \in 1..Len(m_modules) : m_modules[i] <= Merged

\* Instances are made section by section, and the run list is in the order in
\* which they were made.
Increasing(list) == \A i, j \in 1..Len(list) : i < j => list[i] < list[j]

OrderInv ==
    /\ \A i \in Numbers : created[i].section <= Len(configs)
    /\ \A i, j \in Numbers : i < j => created[i].section <= created[j].section
    /\ Increasing(m_modules)

\* The map refers to instances of the run list by their own names and
\* priorities, and every merged instance is in it or has lost to one that is.
RefersTo(made, ids, list) ==
    \A u \in DOMAIN ids :
        /\ Has(list, ids[u].mod)
        /\ made[ids[u].mod].unique = u
        /\ made[ids[u].mod].prio = ids[u].prio

BestOf(made, ids, n) ==
    \A c \in 1..n :
        /\ made[c].unique \in DOMAIN ids
        /\ \/ ids[made[c].unique].mod = c
           \/ ids[made[c].unique].prio < made[c].prio

KeptInv ==
    pc # "failed" =>
        /\ RefersTo(created, id_to_module, m_modules)
        /\ BestOf(created, id_to_module, Merged)

\* What was made, and what is still to be made for the last section, is what
\* the sections read so far ask for.
AskedOf(detectors, s) ==
    IF Library[s.module].global
    THEN {<<s.module, NoDetector>>}
    ELSE {<<s.module, d.name>> : d \in
             {d \in Range(detectors) :
                 /\ Supports(Library[s.module], d)
                 /\ \/ s.names # Absent /\ d.name \in Range(s.names)
                    \/ /\ s.types # Absent
                       /\ d.type \in Range(s.types)
                       /\ "passive" \notin d.roles
                    \/ s.names = Absent /\ s.types = Absent}}

AskedOfAll(detectors, list) == UNION {AskedOf(detectors, list[i]) : i \in 1..Len(list)}

ServedInv ==
    pc # "failed" =>
        /\ pc = "detectors" => configs = <<>>
        /\ pc = "loaded" => SectionDone
        /\ Uniques(created) \cup Uniques(pending) = AskedOfAll(m_detectors, configs)

Inv == TypeOK /\ DetectorsDistinct /\ MergedInv /\ OrderInv /\ KeptInv /\ ServedInv

-----------------------------------------------------------------------------
(* Lists that grow and shrink at their ends *)

\* Kept leaves an increasing list increasing.
LEMMA KeptIncreasing ==
    ASSUME NEW T, NEW list \in Seq(T), NEW S, Increasing(list)
    PROVE  Increasing(Kept(list, S))
<1> DEFINE k == Kept(list, S)
<1>1. \A i, j \in 1..Len(k) : i < j =>
          \E p, q \in 1..Len(list) : p < q /\ k[i] = list[p] /\ k[j] = list[q]
  BY KeptProperties
<1> HIDE DEF k
<1>2. Increasing(k)
  BY <1>1 DEF Increasing
<1> QED
  BY <1>2 DEF k

\* The unique names when an instance is added at the end.
LEMMA UniquesOfAppend ==
    ASSUME NEW T, NEW list \in Seq(T), NEW x \in T
    PROVE  Uniques(Append(list, x)) = Uniques(list) \cup {x.unique}
<1>1. Len(list) \in Nat
  BY LenProperties
<1>2. /\ Len(Append(list, x)) = Len(list) + 1
      /\ Append(list, x)[Len(list) + 1] = x
      /\ \A i \in 1..Len(list) : Append(list, x)[i] = list[i]
  BY <1>1, AppendProperties
<1>3. 1..(Len(list) + 1) = 1..Len(list) \cup {Len(list) + 1}
  BY <1>1
<1> QED
  BY <1>2, <1>3 DEF Uniques

\* The unique names when the first instance is taken away.
LEMMA UniquesOfTail ==
    ASSUME NEW T, NEW list \in Seq(T), list # <<>>
    PROVE  Uniques(list) = {Head(list).unique} \cup Uniques(Tail(list))
<1>1. Len(list) \in Nat
  BY LenProperties
<1>2. /\ Len(Tail(list)) = Len(list) - 1
      /\ \A i \in 1..Len(Tail(list)) : Tail(list)[i] = list[i + 1]
      /\ Head(list) = list[1] /\ Len(list) # 0
  BY HeadTailProperties, EmptySeq
<1>3. \A i \in 1..Len(list) : i = 1 \/ (i - 1 \in 1..(Len(list) - 1) /\ (i - 1) + 1 = i)
  BY <1>1
<1>4. 1 \in 1..Len(list) /\ \A i \in 1..(Len(list) - 1) : i + 1 \in 1..Len(list)
  BY <1>1, <1>2
<1> QED
  BY <1>2, <1>3, <1>4 DEF Uniques

\* What is asked for when a section is read.
LEMMA AskedOfMore ==
    ASSUME NEW detectors, NEW T, NEW list \in Seq(T), NEW s \in T
    PROVE  AskedOfAll(detectors, Append(list, s))
               = AskedOfAll(detectors, list) \cup AskedOf(detectors, s)
<1>1. Len(list) \in Nat
  BY LenProperties
<1>2. /\ Len(Append(list, s)) = Len(list) + 1
      /\ Append(list, s)[Len(list) + 1] = s
      /\ \A i \in 1..Len(list) : Append(list, s)[i] = list[i]
  BY <1>1, AppendProperties
<1>3. 1..(Len(list) + 1) = 1..Len(list) \cup {Len(list) + 1}
  BY <1>1
<1> QED
  BY <1>2, <1>3 DEF AskedOfAll

\* Every section has its type.
LEMMA SectionTypes ==
    ASSUME NEW s \in Sections
    PROVE  s \in ModuleSection /\ s.module \in STRING
<1>1. s \in ModuleSection
  BY LoadingAssumption
<1>2. s.module \in STRING
  BY <1>1 DEF ModuleSection
<1> QED
  BY <1>1, <1>2

-----------------------------------------------------------------------------
(* The detectors *)

DetectorStep == DetectorTwice \/ DetectorRefused \/ AddDetector \/ DetectorsLoaded

\* Every detector file has its type.
LEMMA DetectorFile ==
    ASSUME NEW f \in DetectorFiles PROVE f \in Seq(DetectorSection)
BY LoadingAssumption

\* Reading detectors keeps their types, and their names distinct.
LEMMA DetectorTypes ==
    ASSUME Inv, DetectorStep
    PROVE  TypeOK' /\ DetectorsDistinct'
<1> USE DEF Inv, Numbers
<1>1. /\ UNCHANGED <<configs, pending, mod_list, created, m_modules, id_to_module>>
      /\ pc' \in {"detectors", "modules", "failed"}
  BY DEF DetectorStep, DetectorTwice, DetectorRefused, AddDetector, DetectorsLoaded, Throw,
         listVars, TypeOK
<1>2. CASE UNCHANGED detectorVars
  BY <1>1, <1>2 DEF detectorVars, TypeOK, DetectorsDistinct
<1>3. CASE /\ AddDetector /\ ~SecondReference
  <2>1. /\ m_detectors' = Append(m_detectors, Head(file)) /\ file' = Tail(file) /\ file # <<>>
        /\ ~HasDetector(Head(file).name)
    BY <1>3 DEF AddDetector
  <2>2. Head(file) \in DetectorSection /\ file' \in Seq(DetectorSection)
    BY <2>1, HeadTailProperties DEF TypeOK
  <2>3. /\ Len(m_detectors) \in Nat /\ DOMAIN m_detectors = 1..Len(m_detectors)
        /\ m_detectors' \in Seq(DetectorSection)
        /\ Len(m_detectors') = Len(m_detectors) + 1
        /\ DOMAIN m_detectors' = 1..(Len(m_detectors) + 1)
        /\ m_detectors'[Len(m_detectors) + 1] = Head(file)
        /\ \A i \in 1..Len(m_detectors) : m_detectors'[i] = m_detectors[i]
    BY <2>1, <2>2, AppendProperties, LenProperties DEF TypeOK
  <2>4. \A i \in DOMAIN m_detectors : m_detectors[i].name # Head(file).name
    BY <2>1 DEF HasDetector
  <2>5. 1..(Len(m_detectors) + 1) = 1..Len(m_detectors) \cup {Len(m_detectors) + 1}
    BY <2>3
  <2>6. DetectorsDistinct'
    BY <2>3, <2>4, <2>5 DEF DetectorsDistinct
  <2> QED
    BY <1>1, <2>2, <2>3, <2>6 DEF TypeOK
<1>4. CASE DetectorsLoaded /\ m_reference # NoDetector
  <2>1. PICK p \in Bijection(DOMAIN m_detectors, DOMAIN m_detectors) :
            m_detectors' = [i \in DOMAIN m_detectors |-> m_detectors[p[i]]]
    BY <1>4 DEF DetectorsLoaded
  <2>2. /\ \A i \in DOMAIN m_detectors : p[i] \in DOMAIN m_detectors
        /\ \A i, j \in DOMAIN m_detectors : p[i] = p[j] => i = j
    BY <2>1 DEF Bijection, Injection, Surjection, IsInjective
  <2>3. Len(m_detectors) \in Nat /\ DOMAIN m_detectors = 1..Len(m_detectors)
    BY LenProperties DEF TypeOK
  <2>4. \A i \in DOMAIN m_detectors : m_detectors[p[i]] \in DetectorSection
    BY <2>2, <2>3, ElementOfSeq DEF TypeOK
  <2>5. m_detectors' \in Seq(DetectorSection)
    <3> DEFINE n == Len(m_detectors)
               e(i) == m_detectors[p[i]]
    <3>1. n \in Nat /\ m_detectors' = [i \in 1..n |-> e(i)] /\ \A i \in 1..n : e(i) \in DetectorSection
      BY <2>1, <2>3, <2>4
    <3> HIDE DEF n, e
    <3> QED
      BY <3>1
  <2>6. DetectorsDistinct'
    BY <2>1, <2>2 DEF DetectorsDistinct
  <2>7. UNCHANGED file
    BY <1>4 DEF DetectorsLoaded
  <2> QED
    BY <1>1, <2>5, <2>6, <2>7 DEF TypeOK
<1> QED
  BY <1>2, <1>3, <1>4 DEF DetectorStep, DetectorTwice, DetectorRefused, AddDetector,
         DetectorsLoaded, detectorVars

\* Reading detectors keeps the invariant: there are no instances yet.
LEMMA DetectorSteps ==
    ASSUME Inv, DetectorStep
    PROVE  Inv'
<1>1. /\ UNCHANGED <<configs, pending, mod_list, created, m_modules, id_to_module>>
      /\ pc' \in {"detectors", "modules", "failed"}
      /\ pc = "detectors"
  BY DEF Inv, DetectorStep, DetectorTwice, DetectorRefused, AddDetector, DetectorsLoaded, Throw,
         listVars, TypeOK
<1>2. MergedInv'
  BY <1>1 DEF Inv, MergedInv, Merged
<1>3. OrderInv'
  BY <1>1 DEF Inv, OrderInv, Numbers
<1>4. KeptInv'
  BY <1>1 DEF Inv, KeptInv, Merged
<1>5. ServedInv'
  <2>1. configs = <<>> /\ configs' = <<>>
    BY <1>1 DEF Inv, ServedInv
  <2>2. \A detectors : AskedOfAll(detectors, <<>>) = {}
    BY DEF AskedOfAll
  <2>3. Uniques(created) \cup Uniques(pending) = {}
    BY <1>1, <2>1, <2>2 DEF Inv, ServedInv
  <2> QED
    BY <1>1, <2>1, <2>2, <2>3 DEF ServedInv
<1> QED
  BY <1>2, <1>3, <1>4, <1>5, DetectorTypes DEF Inv

-----------------------------------------------------------------------------
(* The sections *)

SectionStep == SectionRefused \/ UniqueSection \/ DetectorModuleSection

\* A section is read, and what it asks for is still to be made.
LEMMA SectionRead ==
    ASSUME Inv, SectionStep
    PROVE  /\ pending' \in Seq(InstanceRecord)
           /\ \E s \in Sections :
                /\ configs' = Append(configs, s)
                /\ pc' # "failed" =>
                       /\ pending = <<>>
                       /\ Uniques(pending') = AskedOf(m_detectors, s)
<1> USE DEF Inv
<1>1. DetectorsOK
  BY DEF DetectorsOK, TypeOK
<1>2. CASE SectionRefused
  BY <1>2 DEF SectionRefused, Throw, TypeOK
<1>3. CASE UniqueSection
  <2>1. PICK s \in Sections : /\ Library[s.module].global
                              /\ configs' = Append(configs, s)
                              /\ pending' = <<Instance(s.module, NoDetector, 0)>>
    BY <1>3 DEF UniqueSection
  <2>2. Instance(s.module, NoDetector, 0) \in InstanceRecord
    BY SectionTypes DEF Instance, InstanceRecord, UniqueName
  <2>3. Uniques(pending') = {<<s.module, NoDetector>>}
    <3>1. 1..Len(pending') = {1}
      BY <2>1
    <3>2. pending'[1].unique = <<s.module, NoDetector>>
      BY <2>1 DEF Instance
    <3>3. Uniques(pending') = {pending'[i].unique : i \in {1}}
      BY <3>1 DEF Uniques
    <3> QED
      BY <3>2, <3>3
  <2>4. pending' \in Seq(InstanceRecord)
    BY <2>1, <2>2
  <2> QED
    BY <1>3, <2>1, <2>3, <2>4 DEF AskedOf, UniqueSection, SectionDone
<1>4. CASE DetectorModuleSection
  <2>1. PICK s \in Sections : /\ ~Library[s.module].global
                              /\ configs' = Append(configs, s)
                              /\ pending' = Instantiations(s)
    BY <1>4 DEF DetectorModuleSection
  <2>2. pending' \in Seq(InstanceRecord) /\ Uniques(pending') = Asked(s)
    BY <1>1, <2>1, SectionTypes, InstancesAsked
  <2>3. Asked(s) = AskedOf(m_detectors, s)
    BY <2>1 DEF Asked, AskedOf
  <2> QED
    BY <1>4, <2>1, <2>2, <2>3 DEF DetectorModuleSection, SectionDone
<1> QED
  BY <1>2, <1>3, <1>4 DEF SectionStep

\* Reading a section keeps the invariant.
LEMMA SectionSteps ==
    ASSUME Inv, SectionStep
    PROVE  Inv'
<1>1. /\ UNCHANGED <<file, m_detectors, mod_list, created, m_modules, id_to_module>>
      /\ pc = "modules" /\ pc' \in {"modules", "failed"}
  BY DEF SectionStep, SectionRefused, UniqueSection, DetectorModuleSection, Throw,
         detectorVars, listVars
<1>2. PICK s \in Sections :
          /\ configs' = Append(configs, s)
          /\ pc' # "failed" => pending = <<>> /\ Uniques(pending') = AskedOf(m_detectors, s)
  BY SectionRead
<1>3. /\ configs' \in Seq(Sections)
      /\ Len(configs) \in Nat /\ Len(configs') = Len(configs) + 1
  BY <1>2, AppendProperties, LenProperties DEF Inv, TypeOK
<1>4. TypeOK' /\ DetectorsDistinct'
  BY <1>1, <1>3, SectionRead DEF Inv, TypeOK, Numbers, DetectorsDistinct
<1>5. MergedInv'
  BY <1>1 DEF Inv, MergedInv, Merged
<1>6. OrderInv'
  <2>1. \A i \in Numbers : created[i] \in CreatedRecord
    BY ElementOfSeq DEF Inv, TypeOK, Numbers
  <2>2. \A i \in Numbers : created[i].section \in Nat
    BY <2>1 DEF CreatedRecord
  <2>3. OrderInv
    BY DEF Inv
  <2>4. \A i \in Numbers : created[i].section <= Len(configs')
    BY <1>3, <2>2, <2>3 DEF OrderInv
  <2>5. Numbers' = Numbers
    BY <1>1 DEF Numbers
  <2> QED
    BY <1>1, <2>3, <2>4, <2>5 DEF OrderInv, Increasing
<1>7. KeptInv'
  BY <1>1 DEF Inv, KeptInv, Merged
<1>8. ServedInv'
  <2> SUFFICES ASSUME pc' # "failed" PROVE ServedInv'
    BY DEF ServedInv
  <2>1. Uniques(created) = AskedOfAll(m_detectors, configs)
    BY <1>1, <1>2 DEF Inv, ServedInv, Uniques
  <2>2. AskedOfAll(m_detectors, configs')
            = AskedOfAll(m_detectors, configs) \cup AskedOf(m_detectors, s)
    BY <1>2, AskedOfMore DEF Inv, TypeOK
  <2> QED
    BY <1>1, <1>2, <2>1, <2>2 DEF ServedInv
<1> QED
  BY <1>4, <1>5, <1>6, <1>7, <1>8 DEF Inv

\* So does the end of the file.
LEMMA EndSteps ==
    ASSUME Inv, EndOfFile \/ UNCHANGED vars
    PROVE  Inv'
<1>1. /\ UNCHANGED <<file, m_detectors, configs, pending, mod_list, created, m_modules, id_to_module>>
      /\ pc' = pc \/ (pc # "failed" /\ pc' = "loaded" /\ SectionDone)
  <2>1. CASE EndOfFile
    BY <2>1 DEF EndOfFile, detectorVars, listVars
  <2>2. CASE UNCHANGED vars
    <3>1. UNCHANGED <<pc, detectorVars, configs, pending, mod_list, created, listVars>>
      BY <2>2 DEF vars
    <3>2. pc' = pc
      BY <3>1
    <3>3. UNCHANGED <<file, m_detectors, configs, pending, mod_list, created, m_modules,
                      id_to_module>>
      BY <3>1 DEF detectorVars, listVars
    <3> QED
      BY <3>2, <3>3
  <2> QED
    BY <2>1, <2>2
<1>2. TypeOK' /\ DetectorsDistinct'
  BY <1>1 DEF Inv, TypeOK, Numbers, DetectorsDistinct
<1>3. MergedInv' /\ OrderInv' /\ KeptInv'
  BY <1>1 DEF Inv, MergedInv, Merged, OrderInv, Numbers, KeptInv
<1>4. ServedInv'
  BY <1>1 DEF Inv, ServedInv, SectionDone
<1> QED
  BY <1>2, <1>3, <1>4 DEF Inv

-----------------------------------------------------------------------------
(* Making an instance *)

CreateStep == CreateInstance \/ InstanceThrows

\* Making an instance keeps the invariant, also if its constructor throws.
LEMMA CreateSteps ==
    ASSUME Inv, CreateStep
    PROVE  Inv'
<1> DEFINE last == Len(created) + 1
           made == [unique |-> Head(pending).unique, prio |-> Head(pending).prio,
                    section |-> Len(configs)]
<1>1. /\ UNCHANGED <<file, m_detectors, configs, m_modules, id_to_module>>
      /\ pending # <<>> /\ pc = "modules" /\ pc' \in {"modules", "failed"}
      /\ created' = Append(created, made)
      /\ \/ pc' = "modules" /\ pending' = Tail(pending) /\ mod_list' = Append(mod_list, last)
         \/ pc' = "failed" /\ pending' = pending /\ mod_list' = mod_list
  <2>1. CASE CreateInstance
    BY <2>1 DEF CreateInstance, detectorVars, listVars
  <2>2. CASE InstanceThrows
    BY <2>2 DEF InstanceThrows, Throw, detectorVars, listVars
  <2> QED
    BY <2>1, <2>2 DEF CreateStep
<1>2. /\ Head(pending) \in InstanceRecord /\ Tail(pending) \in Seq(InstanceRecord)
      /\ Len(configs) \in Nat /\ Len(created) \in Nat /\ Len(mod_list) \in Nat
  BY <1>1, HeadTailProperties, LenProperties DEF Inv, TypeOK
<1>3. made \in CreatedRecord
  BY <1>2 DEF CreatedRecord, InstanceRecord
<1>4. /\ created' \in Seq(CreatedRecord)
      /\ Len(created') = last
      /\ created'[last] = made
      /\ \A i \in Numbers : created'[i] = created[i]
  BY <1>1, <1>2, <1>3, AppendProperties DEF Inv, TypeOK, Numbers
<1>5. Numbers' = Numbers \cup {last} /\ last \in Nat /\ Numbers = 1..Len(created)
  BY <1>2, <1>4 DEF Numbers
<1> HIDE DEF last, made
<1>6. TypeOK' /\ DetectorsDistinct'
  <2>1. /\ mod_list \in Seq(Numbers') /\ m_modules \in Seq(Numbers')
    BY <1>5, SeqMonotonic DEF Inv, TypeOK
  <2>2. mod_list' \in Seq(Numbers')
    BY <1>1, <1>5, <2>1, AppendProperties, SMTT(30)
  <2>3. \A u \in DOMAIN id_to_module : id_to_module[u] \in [prio : Int, mod : Numbers']
    BY <1>5 DEF Inv, TypeOK
  <2>4. pending' \in Seq(InstanceRecord)
    BY <1>1, <1>2 DEF Inv, TypeOK
  <2> QED
    BY <1>1, <1>4, <2>1, <2>2, <2>3, <2>4 DEF Inv, TypeOK, DetectorsDistinct
<1>7. MergedInv'
  <2> SUFFICES ASSUME pc' # "failed" PROVE MergedInv'
    BY DEF MergedInv
  <2>1. mod_list' = Append(mod_list, last)
    BY <1>1
  <2>2. /\ Len(mod_list') = Len(mod_list) + 1
        /\ mod_list'[Len(mod_list) + 1] = last
        /\ \A i \in 1..Len(mod_list) : mod_list'[i] = mod_list[i]
    BY <1>5, <2>1, AppendProperties DEF Inv, TypeOK
  <2>3. Merged' = Merged
    BY <1>2, <1>4, <2>2 DEF Merged, last
  <2>4. last = Merged + (Len(mod_list) + 1)
    BY <1>2 DEF Merged, last
  <2>5. \A i \in 1..Len(mod_list') : mod_list'[i] = Merged + i
    BY <1>1, <1>2, <2>2, <2>4, SMTT(30) DEF Inv, MergedInv
  <2> QED
    BY <1>1, <1>2, <1>4, <2>2, <2>3, <2>5 DEF Inv, MergedInv, last
<1>8. OrderInv'
  <2>1. made.section = Len(configs)
    BY DEF made
  <2>2. \A i \in Numbers' : i \in Numbers \/ i = last
    BY <1>5
  <2>3. \A i \in Numbers : i < last
    BY <1>2, <1>5 DEF last
  <2>4. \A i \in Numbers' : created'[i].section <= Len(configs)
    BY <1>2, <1>4, <2>1, <2>2 DEF Inv, OrderInv
  <2>5. \A i, j \in Numbers' : i < j => created'[i].section <= created'[j].section
    <3> SUFFICES ASSUME NEW i \in Numbers', NEW j \in Numbers', i < j
                 PROVE  created'[i].section <= created'[j].section
      OBVIOUS
    <3>1. i \in Numbers
      BY <1>5, <2>2, <2>3
    <3>2. CASE j \in Numbers
      BY <1>4, <3>1, <3>2 DEF Inv, OrderInv
    <3>3. CASE j = last
      BY <1>4, <2>1, <2>4, <3>1, <3>3
    <3> QED
      BY <2>2, <3>2, <3>3
  <2> QED
    BY <1>1, <2>4, <2>5 DEF Inv, OrderInv
<1>9. KeptInv'
  <2> SUFFICES ASSUME pc' # "failed" PROVE KeptInv'
    BY DEF KeptInv
  <2>1. mod_list' = Append(mod_list, last)
    BY <1>1
  <2>2. Merged' = Merged /\ Merged \in Int /\ Merged <= Len(created)
    BY <1>2, <1>4, <1>5, <2>1, AppendProperties DEF Merged, last, Inv, TypeOK
  <2>3. \A c \in 1..Merged : c \in Numbers
    BY <1>2, <1>5, <2>2
  <2>4. \A u \in DOMAIN id_to_module : id_to_module[u].mod \in Numbers
    BY DEF Inv, TypeOK
  <2>5. RefersTo(created', id_to_module, m_modules)
    BY <1>1, <1>4, <2>4 DEF Inv, KeptInv, RefersTo
  <2>6. BestOf(created', id_to_module, Merged)
    BY <1>1, <1>4, <2>3 DEF Inv, KeptInv, BestOf
  <2> QED
    BY <1>1, <2>2, <2>5, <2>6 DEF KeptInv
<1>10. ServedInv'
  <2> SUFFICES ASSUME pc' # "failed" PROVE ServedInv'
    BY DEF ServedInv
  <2>1. pending' = Tail(pending) /\ pc' = "modules"
    BY <1>1
  <2>2. Uniques(created') = Uniques(created) \cup {Head(pending).unique}
    <3>1. Uniques(created') = Uniques(created) \cup {made.unique}
      <4>1. created \in Seq(CreatedRecord) /\ created' = Append(created, made)
        BY <1>1 DEF Inv, TypeOK
      <4> QED
        BY <1>3, <4>1, UniquesOfAppend
    <3> QED
      BY <3>1 DEF made
  <2>3. Uniques(pending) = {Head(pending).unique} \cup Uniques(pending')
    BY <1>1, <2>1, UniquesOfTail DEF Inv, TypeOK
  <2> QED
    BY <1>1, <2>1, <2>2, <2>3 DEF Inv, ServedInv
<1> QED
  BY <1>6, <1>7, <1>8, <1>9, <1>10 DEF Inv

-----------------------------------------------------------------------------
(* Merging an instance *)

MergeStep == MergeNew \/ MergeReplace \/ MergeTie \/ MergeLower

\* The first instance of mod_list is the one after those merged so far.
LEMMA NextToMerge ==
    ASSUME Inv, Merging
    PROVE  /\ Head(mod_list) = Merged + 1 /\ Merged \in Nat
           /\ Head(mod_list) \in Numbers
           /\ New \in CreatedRecord
           /\ Tail(mod_list) \in Seq(Numbers)
           /\ Len(Tail(mod_list)) = Len(mod_list) - 1
           /\ \A i \in 1..Len(Tail(mod_list)) : Tail(mod_list)[i] = (Merged + 1) + i
           /\ Len(created) - Len(Tail(mod_list)) = Merged + 1
<1>1. /\ mod_list # <<>> /\ mod_list \in Seq(Numbers)
      /\ Len(created) \in Nat /\ Len(mod_list) \in Nat
      /\ Len(mod_list) <= Len(created)
      /\ \A i \in 1..Len(mod_list) : mod_list[i] = Merged + i
  BY LenProperties DEF Merging, Inv, TypeOK, MergedInv
<1>2. Len(mod_list) # 0 /\ Head(mod_list) = mod_list[1]
  BY <1>1, EmptySeq
<1>3. /\ Tail(mod_list) \in Seq(Numbers)
      /\ Len(Tail(mod_list)) = Len(mod_list) - 1
      /\ \A i \in 1..Len(Tail(mod_list)) : Tail(mod_list)[i] = mod_list[i + 1]
  BY <1>1, HeadTailProperties
<1>4. Head(mod_list) = Merged + 1 /\ Merged \in Nat /\ Merged + 1 \in Numbers
  BY <1>1, <1>2 DEF Merged, Numbers
<1>5. \A i \in 1..Len(Tail(mod_list)) : Tail(mod_list)[i] = (Merged + 1) + i
  BY <1>1, <1>3, <1>4
<1>6. New \in CreatedRecord
  BY <1>4, ElementOfSeq DEF New, Inv, TypeOK, Numbers
<1>7. Len(created) - Len(Tail(mod_list)) = Merged + 1
  BY <1>1, <1>3 DEF Merged
<1> QED
  BY <1>3, <1>4, <1>5, <1>6, <1>7

\* An instance joins the run list, after those of its name have left it.
LEMMA Joins ==
    ASSUME Inv, Merging, NEW modules \in Seq(Numbers), NEW ids,
           Increasing(modules),
           \A i \in 1..Len(modules) : modules[i] <= Merged,
           RefersTo(created, ids, modules),
           New.unique \notin DOMAIN ids,
           \A u \in DOMAIN ids : ids[u] \in [prio : Int, mod : Numbers],
           \A c \in 1..Merged :
               \/ created[c].unique = New.unique /\ New.prio < created[c].prio
               \/ /\ created[c].unique \in DOMAIN ids
                  /\ \/ ids[created[c].unique].mod = c
                     \/ ids[created[c].unique].prio < created[c].prio,
           AddModule(modules, ids, Head(mod_list))
    PROVE  /\ m_modules' \in Seq(Numbers)
           /\ Increasing(m_modules')
           /\ \A i \in 1..Len(m_modules') : m_modules'[i] <= Merged + 1
           /\ \A u \in DOMAIN id_to_module' : id_to_module'[u] \in [prio : Int, mod : Numbers]
           /\ RefersTo(created, id_to_module', m_modules')
           /\ BestOf(created, id_to_module', Merged + 1)
<1> DEFINE n == Head(mod_list)
           u == New.unique
<1>1. /\ n = Merged + 1 /\ Merged \in Nat /\ n \in Numbers /\ New = created[n]
      /\ New \in CreatedRecord
  BY NextToMerge DEF New
<1>2. /\ m_modules' = Append(modules, n)
      /\ DOMAIN id_to_module' = DOMAIN ids \cup {u}
      /\ \A v \in DOMAIN ids \cup {u} : id_to_module'[v] =
             IF v \in DOMAIN ids
             THEN [ids[v] EXCEPT !.mod = IF v = u THEN n ELSE @]
             ELSE [prio |-> New.prio, mod |-> n]
  BY <1>1 DEF AddModule
<1> HIDE DEF n
<1>3. \A v \in DOMAIN ids : id_to_module'[v] = ids[v]
  <2> SUFFICES ASSUME NEW v \in DOMAIN ids PROVE id_to_module'[v] = ids[v]
    OBVIOUS
  <2>1. v # u
    OBVIOUS
  <2>2. ids[v] \in [prio : Int, mod : Numbers]
    OBVIOUS
  <2>3. id_to_module'[v] = [ids[v] EXCEPT !.mod = @]
    BY <1>2, <2>1
  <2> QED
    BY <2>2, <2>3
<1>4. id_to_module'[u] = [prio |-> New.prio, mod |-> n]
  BY <1>2
<1>5. /\ m_modules' \in Seq(Numbers)
      /\ Len(modules) \in Nat
      /\ Len(m_modules') = Len(modules) + 1
      /\ m_modules'[Len(modules) + 1] = n
      /\ \A i \in 1..Len(modules) : m_modules'[i] = modules[i] /\ modules[i] \in Numbers
  BY <1>1, <1>2, AppendProperties, LenProperties, ElementOfSeq
<1>6. 1..(Len(modules) + 1) = 1..Len(modules) \cup {Len(modules) + 1}
  BY <1>5
<1>7. \A i \in 1..Len(m_modules') : m_modules'[i] <= Merged + 1
  <2>1. \A i \in 1..Len(modules) : m_modules'[i] \in Int /\ m_modules'[i] <= Merged
    <3>1. Len(created) \in Nat
      BY LenProperties DEF Inv, TypeOK
    <3>2. \A x \in Numbers : x \in Int
      BY <3>1 DEF Numbers
    <3> QED
      BY <1>5, <3>2
  <2> QED
    BY <1>1, <1>5, <1>6, <2>1
<1>8. Increasing(m_modules')
  <2> SUFFICES ASSUME NEW i \in 1..Len(m_modules'), NEW j \in 1..Len(m_modules'), i < j
               PROVE  m_modules'[i] < m_modules'[j]
    BY DEF Increasing
  <2>1. i \in 1..Len(modules)
    BY <1>5
  <2>2. CASE j \in 1..Len(modules)
    BY <1>5, <2>1, <2>2 DEF Increasing
  <2>3. CASE j = Len(modules) + 1
    BY <1>1, <1>5, <2>1, <2>3, SMTT(30) DEF Numbers
  <2> QED
    BY <1>5, <1>6, <2>2, <2>3
<1>9. \A v \in DOMAIN id_to_module' : id_to_module'[v] \in [prio : Int, mod : Numbers]
  <2>1. New.prio \in Int
    BY <1>1 DEF CreatedRecord
  <2> QED
    BY <1>1, <1>2, <1>3, <1>4, <2>1
<1>10. RefersTo(created, id_to_module', m_modules')
  <2>1. \A x : Has(m_modules', x) <=> Has(modules, x) \/ x = n
    BY <1>5, <1>6 DEF Has
  <2>2. ASSUME NEW v \in DOMAIN ids
        PROVE  /\ Has(m_modules', id_to_module'[v].mod)
               /\ created[id_to_module'[v].mod].unique = v
               /\ created[id_to_module'[v].mod].prio = id_to_module'[v].prio
    BY <1>3, <2>1 DEF RefersTo
  <2>3. /\ Has(m_modules', id_to_module'[u].mod)
        /\ created[id_to_module'[u].mod].unique = u
        /\ created[id_to_module'[u].mod].prio = id_to_module'[u].prio
    BY <1>1, <1>4, <2>1
  <2> QED
    BY <1>2, <2>2, <2>3 DEF RefersTo
<1>11. BestOf(created, id_to_module', Merged + 1)
  <2> SUFFICES ASSUME NEW c \in 1..(Merged + 1)
               PROVE  /\ created[c].unique \in DOMAIN id_to_module'
                      /\ \/ id_to_module'[created[c].unique].mod = c
                         \/ id_to_module'[created[c].unique].prio < created[c].prio
    BY DEF BestOf
  <2>1. CASE c = n
    BY <1>1, <1>2, <1>4, <2>1
  <2>2. CASE c \in 1..Merged /\ created[c].unique = u
    <3>1. New.prio < created[c].prio
      BY <2>2
    <3> QED
      BY <1>2, <1>4, <2>2, <3>1
  <2>3. CASE c \in 1..Merged /\ created[c].unique # u
    BY <1>2, <1>3, <2>3
  <2> QED
    BY <1>1, <2>1, <2>2, <2>3
<1> QED
  BY <1>5, <1>7, <1>8, <1>9, <1>10, <1>11

\* The invariant after an instance has been merged.
LEMMA MergeDone ==
    ASSUME Inv, Merging,
           mod_list' = Tail(mod_list),
           UNCHANGED <<pc, file, m_detectors, configs, pending, created>>,
           m_modules' \in Seq(Numbers),
           Increasing(m_modules'),
           \A i \in 1..Len(m_modules') : m_modules'[i] <= Merged + 1,
           \A u \in DOMAIN id_to_module' : id_to_module'[u] \in [prio : Int, mod : Numbers],
           RefersTo(created, id_to_module', m_modules'),
           BestOf(created, id_to_module', Merged + 1)
    PROVE  Inv'
<1>1. /\ Tail(mod_list) \in Seq(Numbers) /\ Merged \in Nat
      /\ Merged' = Merged + 1
      /\ \A i \in 1..Len(mod_list') : mod_list'[i] = (Merged + 1) + i
      /\ Len(mod_list') <= Len(created)
  <2>1. Len(created) \in Nat /\ Len(mod_list) \in Nat /\ Len(mod_list) <= Len(created)
    BY LenProperties DEF Inv, TypeOK, MergedInv, Merging
  <2> QED
    BY <2>1, NextToMerge DEF Merged
<1>2. TypeOK' /\ DetectorsDistinct'
  BY <1>1 DEF Inv, TypeOK, Numbers, DetectorsDistinct
<1>3. MergedInv'
  BY <1>1 DEF MergedInv
<1>4. OrderInv'
  BY DEF Inv, OrderInv, Numbers
<1>5. KeptInv'
  BY <1>1 DEF KeptInv
<1>6. ServedInv'
  BY DEF Inv, ServedInv, Merging
<1> QED
  BY <1>2, <1>3, <1>4, <1>5, <1>6 DEF Inv

\* Merging an instance keeps the invariant, whether it is added, replaces one,
\* is dropped, or ties.
LEMMA MergeSteps ==
    ASSUME Inv, MergeStep
    PROVE  Inv'
<1> DEFINE kept == id_to_module[New.unique]
<1>1. /\ m_modules \in Seq(Numbers)
      /\ \A u \in DOMAIN id_to_module : id_to_module[u] \in [prio : Int, mod : Numbers]
      /\ Increasing(m_modules)
  BY DEF Inv, TypeOK, OrderInv
<1>2. CASE MergeNew
  <2>1. Merging /\ New.unique \notin DOMAIN id_to_module
    BY <1>2 DEF MergeNew
  <2>2. /\ AddModule(m_modules, id_to_module, Head(mod_list))
        /\ mod_list' = Tail(mod_list)
        /\ UNCHANGED <<pc, file, m_detectors, configs, pending, created>>
    BY <1>2 DEF MergeNew, detectorVars
  <2>3. /\ \A i \in 1..Len(m_modules) : m_modules[i] <= Merged
        /\ BestOf(created, id_to_module, Merged)
        /\ RefersTo(created, id_to_module, m_modules)
    BY <2>1 DEF Merging, Inv, MergedInv, KeptInv
  <2>4. \A c \in 1..Merged :
            /\ created[c].unique \in DOMAIN id_to_module
            /\ \/ id_to_module[created[c].unique].mod = c
               \/ id_to_module[created[c].unique].prio < created[c].prio
    BY <2>3 DEF BestOf
  <2>5. /\ m_modules' \in Seq(Numbers)
        /\ Increasing(m_modules')
        /\ \A i \in 1..Len(m_modules') : m_modules'[i] <= Merged + 1
        /\ \A u \in DOMAIN id_to_module' : id_to_module'[u] \in [prio : Int, mod : Numbers]
        /\ RefersTo(created, id_to_module', m_modules')
        /\ BestOf(created, id_to_module', Merged + 1)
    BY <1>1, <2>1, <2>2, <2>3, <2>4, Joins
  <2> QED
    BY <2>1, <2>2, <2>5, MergeDone
<1>3. CASE MergeReplace
  <2> DEFINE u == New.unique
             old == kept.mod
             modules == Kept(m_modules, Numbers \ {old})
             ids == [v \in DOMAIN id_to_module \ {u} |-> id_to_module[v]]
  <2>1. Merging /\ u \in DOMAIN id_to_module /\ New.prio < kept.prio
    BY <1>3 DEF MergeReplace
  <2>2. /\ AddModule(modules, ids, Head(mod_list))
        /\ mod_list' = Tail(mod_list)
        /\ UNCHANGED <<pc, file, m_detectors, configs, pending, created>>
    BY <1>3 DEF MergeReplace, detectorVars
  <2>3. /\ \A i \in 1..Len(m_modules) : m_modules[i] <= Merged
        /\ BestOf(created, id_to_module, Merged)
        /\ RefersTo(created, id_to_module, m_modules)
    BY <2>1 DEF Merging, Inv, MergedInv, KeptInv
  <2>4. /\ modules \in Seq(Numbers)
        /\ \A x : Has(modules, x) <=> Has(m_modules, x) /\ x \in Numbers \ {old}
        /\ Increasing(modules)
    BY <1>1, KeptHas, KeptIncreasing
  <2> HIDE DEF modules
  <2>6. \A i \in 1..Len(modules) : modules[i] <= Merged
    BY <2>3, <2>4 DEF Has
  <2>7. DOMAIN ids = DOMAIN id_to_module \ {u} /\ \A v \in DOMAIN ids : ids[v] = id_to_module[v]
    OBVIOUS
  <2> HIDE DEF ids
  <2>8. RefersTo(created, ids, modules)
    <3>1. created[old].unique = u
      BY <2>1, <2>3 DEF RefersTo
    <3>2. \A v \in DOMAIN ids : id_to_module[v].mod # old /\ id_to_module[v].mod \in Numbers
      BY <1>1, <2>3, <2>7, <3>1 DEF RefersTo
    <3> QED
      BY <2>3, <2>4, <2>7, <3>2 DEF RefersTo
  <2>9. /\ u \notin DOMAIN ids
        /\ \A v \in DOMAIN ids : ids[v] \in [prio : Int, mod : Numbers]
    BY <1>1, <2>7
  <2>10. ASSUME NEW c \in 1..Merged
         PROVE  \/ created[c].unique = u /\ New.prio < created[c].prio
                \/ /\ created[c].unique \in DOMAIN ids
                   /\ \/ ids[created[c].unique].mod = c
                      \/ ids[created[c].unique].prio < created[c].prio
    <3>1. CASE created[c].unique # u
      BY <2>3, <2>7, <3>1 DEF BestOf
    <3>2. CASE created[c].unique = u
      <4>1. kept.mod = c \/ kept.prio < created[c].prio
        BY <2>3, <3>2 DEF BestOf
      <4>3. c \in Numbers /\ created[c].prio \in Int /\ New.prio \in Int /\ kept.prio \in Int
        <5>1. c \in 1..Len(created)
          BY <2>1, NextToMerge, LenProperties DEF Numbers
        <5>2. created[c] \in CreatedRecord
          BY <5>1, ElementOfSeq DEF Inv, TypeOK
        <5>3. New \in CreatedRecord
          BY <2>1, NextToMerge
        <5> QED
          BY <1>1, <2>1, <5>1, <5>2, <5>3 DEF CreatedRecord, Numbers
      <4>4. kept.mod = c => created[c].prio = kept.prio
        BY <2>1, <2>3 DEF RefersTo
      <4> QED
        BY <2>1, <3>2, <4>1, <4>3, <4>4
    <3> QED
      BY <3>1, <3>2
  <2>11. /\ m_modules' \in Seq(Numbers)
         /\ Increasing(m_modules')
         /\ \A i \in 1..Len(m_modules') : m_modules'[i] <= Merged + 1
         /\ \A v \in DOMAIN id_to_module' : id_to_module'[v] \in [prio : Int, mod : Numbers]
         /\ RefersTo(created, id_to_module', m_modules')
         /\ BestOf(created, id_to_module', Merged + 1)
    BY <2>1, <2>2, <2>4, <2>6, <2>8, <2>9, <2>10, Joins
  <2> QED
    BY <2>1, <2>2, <2>11, MergeDone
<1>4. CASE MergeTie
  <2>1. /\ pc' = "failed" /\ pc = "modules"
        /\ UNCHANGED <<file, m_detectors, configs, pending, mod_list, created, m_modules,
                       id_to_module>>
    BY <1>4 DEF MergeTie, Merging, Throw, detectorVars, listVars
  <2> QED
    BY <2>1 DEF Inv, TypeOK, Numbers, DetectorsDistinct, MergedInv, OrderInv, KeptInv, ServedInv
<1>5. CASE MergeLower
  <2>1. Merging /\ New.unique \in DOMAIN id_to_module /\ New.prio > kept.prio
    BY <1>5 DEF MergeLower
  <2>2. /\ mod_list' = Tail(mod_list)
        /\ UNCHANGED <<pc, file, m_detectors, configs, pending, created, m_modules, id_to_module>>
    BY <1>5 DEF MergeLower, detectorVars, listVars
  <2>3. /\ \A i \in 1..Len(m_modules) : m_modules[i] <= Merged
        /\ BestOf(created, id_to_module, Merged)
        /\ RefersTo(created, id_to_module, m_modules)
    BY <2>1 DEF Merging, Inv, MergedInv, KeptInv
  <2>4. /\ Merged \in Nat /\ New = created[Merged + 1] /\ New.prio \in Int
        /\ kept.prio \in Int
    BY <1>1, <2>1, NextToMerge DEF New, CreatedRecord
  <2>5. BestOf(created, id_to_module, Merged + 1)
    <3>1. kept.prio < New.prio
      BY <2>1, <2>4
    <3>2. \A c \in 1..(Merged + 1) : c \in 1..Merged \/ c = Merged + 1
      BY <2>4
    <3> QED
      BY <2>1, <2>3, <2>4, <3>1, <3>2 DEF BestOf
  <2>6. \A i \in 1..Len(m_modules) : m_modules[i] <= Merged + 1
    <3>1. \A i \in 1..Len(m_modules) : m_modules[i] \in Nat
      BY <1>1, ElementOfSeq DEF Numbers
    <3> QED
      BY <2>3, <2>4, <3>1
  <2> QED
    BY <1>1, <2>1, <2>2, <2>3, <2>5, <2>6, MergeDone
<1> QED
  BY <1>2, <1>3, <1>4, <1>5 DEF MergeStep

-----------------------------------------------------------------------------
(* The theorems *)

\* The invariant holds before anything is read.
LEMMA InitInv == Init => Inv
<1> SUFFICES ASSUME Init PROVE Inv
  OBVIOUS
<1>1. /\ created = <<>> /\ mod_list = <<>> /\ pending = <<>> /\ m_modules = <<>>
      /\ configs = <<>> /\ m_detectors = <<>> /\ pc = "detectors"
      /\ id_to_module = [u \in {} |-> u] /\ file \in DetectorFiles
  BY DEF Init
<1>2. TypeOK
  BY <1>1, DetectorFile, EmptySeq DEF TypeOK
<1>3. DetectorsDistinct /\ MergedInv /\ OrderInv
  BY <1>1, EmptySeq DEF DetectorsDistinct, MergedInv, Merged, OrderInv, Increasing, Numbers
<1>4. KeptInv
  BY <1>1, EmptySeq DEF KeptInv, RefersTo, BestOf, Merged
<1>5. ServedInv
  BY <1>1, EmptySeq DEF ServedInv, Uniques, AskedOfAll
<1> QED
  BY <1>2, <1>3, <1>4, <1>5 DEF Inv

\* The inductive invariant of the loading, for every detector file, main file
\* and library.
THEOREM InvCorrect == Spec => []Inv
<1>1. Inv /\ [Next]_vars => Inv'
  BY DetectorSteps, SectionSteps, EndSteps, CreateSteps, MergeSteps
     DEF Next, DetectorStep, SectionStep, CreateStep, MergeStep
<1> QED
  BY <1>1, InitInv, PTL DEF Spec

\* Of the instances with one name the run list has the one of the highest
\* priority, in whatever order the sections ask for them, and no two merged
\* instances that were kept tie.
THEOREM HighestPriorityCorrect == Spec => []HighestPriorityKept
<1>1. Inv => HighestPriorityKept
  <2> SUFFICES ASSUME Inv, pc # "failed", NEW c \in Numbers \ Range(mod_list)
               PROVE  \E n \in Range(m_modules) :
                          /\ created[n].unique = created[c].unique
                          /\ n = c \/ created[n].prio < created[c].prio
    BY DEF HighestPriorityKept
  <2>1. /\ Len(created) \in Nat /\ Len(mod_list) \in Nat /\ Len(mod_list) <= Len(created)
        /\ DOMAIN mod_list = 1..Len(mod_list)
        /\ \A i \in 1..Len(mod_list) : mod_list[i] = Merged + i
    BY LenProperties DEF Inv, TypeOK, MergedInv
  <2>2. c \in 1..Merged
    <3>1. c \in 1..Len(created) /\ Merged \in Nat
      BY <2>1 DEF Numbers, Merged
    <3>2. c > Merged => c - Merged \in 1..Len(mod_list)
      BY <2>1, <3>1 DEF Merged
    <3>3. c > Merged => c \in Range(mod_list)
      <4> SUFFICES ASSUME c > Merged PROVE c \in Range(mod_list)
        OBVIOUS
      <4>1. mod_list[c - Merged] = c
        BY <2>1, <3>1, <3>2
      <4> QED
        BY <2>1, <3>2, <4>1 DEF Range
    <3> QED
      BY <3>1, <3>3
  <2> DEFINE u == created[c].unique
             n == id_to_module[u].mod
  <2>3. u \in DOMAIN id_to_module /\ (n = c \/ id_to_module[u].prio < created[c].prio)
    BY <2>2 DEF Inv, KeptInv, BestOf
  <2>4. /\ Has(m_modules, n) /\ created[n].unique = u
        /\ created[n].prio = id_to_module[u].prio
    BY <2>3 DEF Inv, KeptInv, RefersTo
  <2>5. n \in Range(m_modules)
    BY <2>4, HasInRange DEF Inv, TypeOK
  <2> QED
    BY <2>3, <2>4, <2>5
<1> QED
  BY <1>1, InvCorrect, PTL

\* Modules run in the order of the sections that made them, also after an
\* instance was erased and its better added at the end.
THEOREM OrderCorrect == Spec => []OrderFollowsSections
<1>1. Inv => OrderFollowsSections
  <2> SUFFICES ASSUME Inv, NEW i \in DOMAIN m_modules, NEW j \in DOMAIN m_modules, i < j
               PROVE  created[m_modules[i]].section <= created[m_modules[j]].section
    BY DEF OrderFollowsSections
  <2>1. /\ DOMAIN m_modules = 1..Len(m_modules)
        /\ m_modules[i] \in Numbers /\ m_modules[j] \in Numbers
    BY LenProperties, ElementOfSeq DEF Inv, TypeOK
  <2> QED
    BY <2>1 DEF Inv, OrderInv, Increasing
<1> QED
  BY <1>1, InvCorrect, PTL

\* When loading ends, the run list has an instance for every detector a
\* section selects and for every unique module, and nothing else.
THEOREM EveryDetectorCorrect == Spec => []EveryDetectorServed
<1>1. Inv => EveryDetectorServed
  <2> SUFFICES ASSUME Inv, pc = "loaded" PROVE EveryDetectorServed
    BY DEF EveryDetectorServed
  <2>1. pending = <<>> /\ mod_list = <<>>
    BY DEF Inv, ServedInv, SectionDone
  <2>2. Merged = Len(created) /\ Len(created) \in Nat
    BY <2>1, EmptySeq, LenProperties DEF Merged, Inv, TypeOK
  <2>3. /\ RefersTo(created, id_to_module, m_modules)
        /\ BestOf(created, id_to_module, Len(created))
    BY <2>2 DEF Inv, KeptInv
  <2>4. \A n : n \in Range(m_modules) <=> Has(m_modules, n)
    BY HasInRange DEF Inv, TypeOK
  <2>5. \A n \in Range(m_modules) : n \in 1..Len(created)
    BY <2>4, ElementOfSeq, SMTT(30) DEF Inv, TypeOK, Has, Numbers
  <2>6. {created[n].unique : n \in Range(m_modules)} = Uniques(created)
    <3>1. \A c \in 1..Len(created) : \E n \in Range(m_modules) :
              created[n].unique = created[c].unique
      BY <2>3, <2>4 DEF RefersTo, BestOf
    <3> QED
      BY <2>5, <3>1 DEF Uniques
  <2>7. Uniques(created) = AskedOfAll(m_detectors, configs)
    BY <2>1 DEF Inv, ServedInv, Uniques
  <2>8. \A s : AskedOf(m_detectors, s) = IF Library[s.module].global
                                          THEN {<<s.module, NoDetector>>} ELSE Asked(s)
    BY DEF AskedOf, Asked
  <2>9. AskedOfAll(m_detectors, configs)
            = UNION {AskedOf(m_detectors, s) : s \in Range(configs)}
    <3>1. Range(configs) = {configs[i] : i \in 1..Len(configs)}
      BY LenProperties DEF Range, Inv, TypeOK
    <3> QED
      BY <3>1 DEF AskedOfAll
  <2> QED
    BY <2>6, <2>7, <2>8, <2>9 DEF EveryDetectorServed
<1> QED
  BY <1>1, InvCorrect, PTL
=============================================================================
