------------------------------ MODULE MCFilter ------------------------------
(* Filter on the diagram of src/filter/filter-sheme.xml and a smaller one, on *)
(* all diagrams of three blocks, and on files with the defects Parse looks for. *)
EXTENDS Filter

Xml(blocks, lines) == [kind |-> "xml", system |-> TRUE, blocks |-> blocks, lines |-> lines]
Element(sid, type, name) ==
    [sid |-> sid, type |-> type, name |-> name, params |-> <<>>, port |-> Missing]
P(name, text) == [name |-> name, text |-> text]
End(b, p) == [block |-> b, port |-> p]
Wire(s, d, i) == [src |-> End(s, 1), dst |-> End(d, i), branches |-> <<>>]
Fork(s, ends) == [src |-> End(s, 1), dst |-> Missing, branches |-> ends]

MCSanitizeName ==
    [n \in {"setpoint", "feedback", "Add1", "Add2", "Add3", "I_gain", "P_gain", "Ts", "command",
            "Unit Delay1", "a", "b", "c", "u v", "u_v"} |->
        CASE n = "u v" -> "u_v" [] n = "Unit Delay1" -> "Unit_Delay1" [] OTHER -> n]

Gain(sid, name, gain) == [Element(sid, "Gain", name) EXCEPT !.params = <<P("Gain", gain)>>]
Difference(sid, name) == [Element(sid, "Sum", name) EXCEPT !.params = <<P("Inputs", <<"+", "-">>)>>]

\* src/filter/filter-sheme.xml, with 1 for the gain 0.01 and without the
\* parameters that only place a block.
Sheme ==
    Xml(<<[Element(16, "Inport", "setpoint") EXCEPT !.port = "setpoint"],
          [Element(18, "Inport", "feedback") EXCEPT !.port = "feedback"],
          Difference(17, "Add1"), Element(22, "Sum", "Add2"),
          [Element(23, "Sum", "Add3") EXCEPT !.port = "command"],
          Gain(25, "I_gain", 2), Gain(19, "P_gain", 3), Gain(26, "Ts", 1),
          [Element(21, "UnitDelay", "Unit Delay1") EXCEPT !.params = <<P("SampleTime", -1)>>],
          Element(20, "Outport", "command")>>,
        <<Wire(16, 17, 1), Wire(18, 17, 2), Fork(17, <<End(25, 1), End(19, 1)>>),
          Wire(21, 22, 2), Fork(22, <<End(21, 1), End(23, 2)>>), Wire(19, 23, 1),
          Wire(23, 20, 1), Wire(25, 26, 1), Wire(26, 22, 1)>>)

\* A controller that is smaller, with a parameter given twice.
Integrator ==
    Xml(<<[Element(16, "Inport", "a") EXCEPT !.port = "setpoint"], Difference(17, "b"),
          [Element(25, "Gain", "c") EXCEPT !.params = <<P("Gain", Empty), P("Gain", 2)>>],
          Element(22, "UnitDelay", "Unit Delay1"), Element(20, "Outport", "u v")>>,
        <<Wire(16, 17, 1), Wire(22, 17, 2), Fork(17, <<End(25, 1)>>),
          Fork(25, <<End(22, 1), End(20, 1)>>)>>)

\* Three blocks, two of any type, every port with a line from any block.
Types == {"Inport", "Sum", "Gain", "UnitDelay", "Outport"}
Ports(t) == CASE t = "Inport" -> 0 [] t = "Sum" -> 2 [] OTHER -> 1
Names3 == <<"a", "b", "c">>
Typical(sid, type) ==
    [Element(sid, type, Names3[sid]) EXCEPT
        !.params = CASE type = "Sum" -> <<P("Inputs", <<"+", "-">>)>>
                     [] type = "Gain" -> <<P("Gain", 2)>>
                     [] OTHER -> <<>>]

Sinks == [type \in [1 .. 3 -> Types] |->
            FlattenSeq([b \in 1 .. 3 |-> [i \in 1 .. Ports(type[b]) |-> <<b, i>>]])]

Diagrams ==
    UNION {LET ends == Sinks[type]
           IN  {Xml([b \in 1 .. 3 |-> Typical(b, type[b])],
                    [k \in DOMAIN ends |-> Wire(from[k], ends[k][1], ends[k][2])]) :
                    from \in [1 .. Len(ends) -> 1 .. 3]} :
           type \in [1 .. 3 -> Types]}

\* Defects of elements and of lines, and several lines into one port.
Elements ==
    {Element(sid, "Gain", "a") : sid \in {Missing, Bad, -1, 0, 1}}
    \cup {Element(1, Missing, "a"), Element(1, "Sum", Missing), Element(1, "Sum", "u v"),
          Element(2, "UnitDelay", "u_v"), Element(1, "Outport", "b"),
          [Element(0, "Inport", "b") EXCEPT !.port = "out"],
          [Element(0, "Inport", "b") EXCEPT !.port = Empty]}

SomeLines ==
    {Wire(0, 1, 1), Wire(1, 0, 1), Wire(0, 0, 1), Wire(2, 1, 2), Wire(0, -1, 1), Wire(7, 1, 1),
     Fork(1, <<End(0, 1), End(1, 1)>>), Fork(0, <<Missing>>), Fork(0, <<End(1, 2), Empty>>)}
    \cup {[Wire(0, 1, 1) EXCEPT !.src = e] : e \in {Missing, Empty, Bad}}
    \cup {[Wire(0, 1, 1) EXCEPT !.dst = e] : e \in {Missing, Empty, Bad}}

\* Any two elements with one line, and two blocks with any two lines.
Defective ==
    {[Xml(<<>>, <<>>) EXCEPT !.system = FALSE], [kind |-> "partial"]}
    \cup {Xml(blocks, <<line>>) : blocks \in SeqOf(Elements, 2), line \in SomeLines}
    \cup {Xml(<<Element(0, "Inport", "b"), e>>, lines) :
            e \in {Element(1, "Sum", "u v"), Element(1, "Gain", "a")},
            lines \in [1 .. 2 -> SomeLines]}

MCFiles == {Sheme, Integrator} \cup Diagrams \cup Defective
=============================================================================
