--------------------------- MODULE ModuleLoadingMC ---------------------------
(* A telescope of up to four planes and a main file of up to three sections. *)
EXTENDS ModuleLoading

Plane(name, type, z, roles) ==
    [name |-> name, type |-> type, z |-> z, roles |-> roles]

Ref == Plane("ref", 2, 1, {"reference"})
Dut == Plane("dut", 1, 0, {"dut"})
Aux == Plane("aux", 2, 0, {"auxiliary"})
Passive == Plane("pas", 1, 2, {"passive"})
Both == Plane("both", 2, 0, {"dut", "auxiliary"})
OtherRef == Plane("other", 1, 0, {"reference", "dut"})

Files ==
    {<<Ref, Dut, Aux>>, <<Passive, Dut, OtherRef>>, <<Dut, Aux>>,
     <<Ref, Dut, Ref>>, <<Ref, Dut, OtherRef>>, <<Ref, Both>>}

\* "Unique" is a unique module; "Module" a detector module without and
\* "Narrow" one with exclusions and a list of supported types.
Key(module, names, types) ==
    [module |-> module, names |-> names, types |-> types]

NameLists ==
    {Absent, <<"dut">>, <<"none", "ref">>, <<"aux", "other", "dut">>}

MainSections ==
    {Key("Unique", n, Absent) : n \in {Absent, <<"dut">>}}
        \cup {Key("Module", n, t) : n \in NameLists,
                                    t \in {Absent, <<2>>, <<2, 1>>}}
        \cup {Key("Narrow", n, t) : n \in {Absent, <<"dut", "aux">>},
                                    t \in {Absent, <<1>>, <<2>>}}
        \cup {Key("Missing", Absent, Absent)}

Entry(global, narrow, types) ==
    [global |-> global, dut |-> narrow, aux |-> narrow, types |-> types]

MainLibrary ==
    [m \in {"Unique", "Module", "Narrow"} |->
        CASE m = "Unique" -> Entry(TRUE, FALSE, <<>>)
          [] m = "Module" -> Entry(FALSE, FALSE, <<>>)
          [] m = "Narrow" -> Entry(FALSE, TRUE, <<1>>)]
=============================================================================
